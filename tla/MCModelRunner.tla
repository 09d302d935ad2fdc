--------------------------- MODULE MCModelRunner ---------------------------
(***************************************************************************)
(* ModelRunner with two requests, one of them a redaction; OPF has two     *)
(* parts and a variant to fall back on, the Korean model has neither.      *)
(***************************************************************************)
EXTENDS ModelRunner

CONSTANTS c1, c2

MCCalls == {c1, c2}
MCKinds == [c \in MCCalls |-> IF c = c1 THEN {"redact"} ELSE {"redact", "warmup"}]
MCLoads == 1 .. 5
MCParts == [opf |-> 2, kner |-> 1]
MCVariants == [opf |-> 2, kner |-> 1]
=============================================================================
