---------------------------- MODULE MCAutoStart ----------------------------
(***************************************************************************)
(* AutoStart with a process that has two initialisations under way, and    *)
(* another that has one.                                                   *)
(***************************************************************************)
EXTENDS AutoStart

CONSTANTS c1, c2, c3, p, q

MCCallers == {c1, c2, c3}
MCOwner == [c \in MCCallers |-> IF c = c3 THEN q ELSE p]

\* A key kept elsewhere makes no difference to a file that cannot be written.
MCInit == StartInit /\ (elsewhere => writable)

\* The two initialisations of one process are alike, so the first one starts first.
MCNext == StartNext /\ (pc'[c2] # "idle" => pc[c1] # "idle")

MCSpec == MCInit /\ [][MCNext]_startVars /\ StartFairness
=============================================================================
