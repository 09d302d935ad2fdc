----------------------------- MODULE MCRemover -----------------------------
(***************************************************************************)
(* Three small instances, one next to the other: of Remover, of VaultPool  *)
(* and of RestorerPasses.  A behaviour is one of a single instance; the    *)
(* others rest in a fixed state.                                           *)
(*                                                                         *)
(* Remover: a hash is three characters, the first one the epoch of its key;*)
(* one edit is one changed character (the lengths are equal here).  The    *)
(* minted hashes of a category are two edits apart, so a token damaged once*)
(* can be near two of them.                                                *)
(*                                                                         *)
(* VaultPool: two concurrent tool calls on a pool of one, three vaults in  *)
(* all, a batch of two texts with a value each.                            *)
(*                                                                         *)
(* RestorerPasses: hashes of two characters, four look-alikes of which one *)
(* begins another, four entries of which two share a look-alike, and values*)
(* shorter and longer than their tokens.                                   *)
(***************************************************************************)
EXTENDS Remover, VaultPool, RestorerPasses, TLC

CONSTANTS v1, v2, Layers

VARIABLE layer

\* "an" and "a n" are two spellings of one name, "bn" and "cn" are other names,
\* and "cn" hashes to what "an" does.
MCSurfaces == {"an", "a n", "bn", "cn", "sk"}
MCCatOf == [s \in MCSurfaces |-> IF s = "sk" THEN "secret" ELSE "name"]
MCCanonOf == [s \in MCSurfaces |-> IF s = "a n" THEN "an" ELSE s]
\* A detector may take a secret, or more than it, for the name "bn".
MCOverlapOf == [s \in MCSurfaces |-> IF s = "sk" THEN {"bn"} ELSE {}]
MCCategories == {"name", "secret"}
MCTexts == {<<"a n", "bn">>, <<"an", "sk">>, <<"cn">>}

MCKeyEpoch == [k \in {1, 2} |-> k - 1]
MCHashes == {0, 1} \X {0, 1} \X {0, 1}
MCEpochOf(h) == h[1]
MCNear(g, h) == Cardinality({n \in 1 .. 3 : g[n] # h[n]}) <= 1

\* The hashes of even parity are two edits apart.
MCHashOf(k, s) == CASE MCCanonOf[s] = "bn" -> <<k - 1, 1, 2 - k>>
                    [] OTHER -> <<k - 1, 0, k - 1>>

MCBatches == {<<{v1}, {v2}>>}

MCPool == << <<"_", "1">>, <<"_", "1", " ", "_">>, <<"h", "h">>, <<"_", "_">> >>
MCOriginalOf == (<<"0", "0">> :> <<"_">>) @@ (<<"0", "1">> :> <<"h", " ", "h", "h", "h">>)
                @@ (<<"1", "1">> :> <<"/", "_">>) @@ (<<"1", "0">> :> <<"_", "_">>)
MCSeedOf == (<<"0", "0">> :> 1) @@ (<<"0", "1">> :> 2) @@ (<<"1", "1">> :> 3)
            @@ (<<"1", "0">> :> 5)

\* Tokens as minted, unclosed, in small letters, without a brace, and with a hash one
\* character long or short; texts of one between surroundings, and of two.
MCTokens == {<<"{", "0", "0", "}">>, <<"{", "0", "1">>, <<"[", "1", "1", "}">>,
             <<"(", "0", "0", "}">>, <<"{", "0", "0", "0", "}">>, <<"{", "1", "}">>}
MCAround == {<<>>, <<"_">>, <<"/">>, <<" ">>, <<"_", "/", "_", "/">>}
MCPieces == {<<"_", "1">>, <<"_", "1", " ", "_">>, <<"h", "h">>, <<"p">>, <<"h">>, <<" ">>,
             <<"_">>, <<"{", "0", "0", "}">>}
MCAfter == {<<>>, <<"_">>, <<"/">>}
MCSecond == {<<"{", "0", "0", "}">>, <<"{", "0", "1">>, <<"{", "1", "}">>}
MCSamples == [token |-> {a \o t \o b : a \in MCAround, t \in MCTokens, b \in MCAfter}
                        \cup {t \o a \o u : a \in MCAround, t \in MCTokens, u \in MCSecond},
              synthetic |-> {p \o q \o r : p, q, r \in MCPieces}]

MCSymmetry == Permutations(Calls) \cup Permutations(Requests)

-----------------------------------------------------------------------------
RemoverRests ==
    /\ policy = "closed" /\ scans = TRUE /\ bypass = FALSE /\ key = 1 /\ entries = NoEntries
    /\ disposed = FALSE /\ calls = [c \in Calls |-> Idle] /\ answers = {} /\ restarts = 0

PassRests ==
    /\ mode = "token" /\ lenient = TRUE /\ repair = TRUE /\ handler = FALSE
    /\ vault = {} /\ given = <<>> /\ queue = <<>> /\ from = 1 /\ spans = {}
    /\ scanned = <<>> /\ todo = {} /\ done = {} /\ out = <<>> /\ counts = NoCounts

MCInit ==
    /\ layer \in Layers
    /\ \/ layer = "remover" /\ Init /\ PassRests /\ (scans \/ (policy = "hybrid" /\ ~bypass))
       \/ layer = "pool" /\ RemoverRests /\ PassRests
       \/ layer = "passes" /\ RemoverRests /\ PassInit
    /\ PoolInit

\* Bound: a behaviour of the remover ends with its second answer.
FewAnswers == Cardinality(answers) <= 1

MCNext ==
    /\ \/ layer = "remover" /\ FewAnswers /\ Next /\ UNCHANGED <<vaultPoolVars, passVars>>
       \/ layer = "pool" /\ PoolNext /\ UNCHANGED <<vars, passVars>>
       \/ layer = "passes" /\ PassNext /\ UNCHANGED <<vars, vaultPoolVars>>
    /\ UNCHANGED layer

MCSpec == MCInit /\ [][MCNext]_<<layer, vars, vaultPoolVars, passVars>>
=============================================================================
