---------------------------- MODULE VaultStore -----------------------------
(***************************************************************************)
(* What the MCP server promises about vaults, without a pool: vaults are   *)
(* opened, learn values and are closed for good; and a token that a client *)
(* was promised is known to its vault for as long as the vault is open.    *)
(***************************************************************************)
EXTENDS Naturals

CONSTANTS Ids, Values

VARIABLES
    open,      \* vaults that can be used
    closed,    \* vaults that were open once and are not any more
    contents,  \* [Ids -> the values each vault knows]
    promised   \* tokens given to a client: <<id, value>>

storeVars == <<open, closed, contents, promised>>

Init ==
    /\ open = {}
    /\ closed = {}
    /\ contents = [i \in Ids |-> {}]
    /\ promised = {}

Open(i) ==
    /\ i \in Ids \ (open \cup closed)
    /\ open' = open \cup {i}
    /\ UNCHANGED <<closed, contents, promised>>

\* Any number of vaults can go at once (a sweep, a shutdown).
Close(S) ==
    /\ S \subseteq open
    /\ open' = open \ S
    /\ closed' = closed \cup S
    /\ contents' = [i \in Ids |-> IF i \in S THEN {} ELSE contents[i]]
    /\ UNCHANGED promised

Learn(i, found) ==
    /\ i \in open
    /\ contents' = [contents EXCEPT ![i] = @ \cup found]
    /\ UNCHANGED <<open, closed, promised>>

\* A token of an open vault is promised only if the vault knows its value.
\* Nothing is guaranteed about a vault that is closed.
Promise(i, found) ==
    /\ i \in open => found \subseteq contents[i]
    /\ i \in open \cup closed
    /\ promised' = promised \cup ({i} \X found)
    /\ UNCHANGED <<open, closed, contents>>

Next ==
    \/ \E i \in Ids : Open(i)
    \/ \E S \in SUBSET open : Close(S)
    \/ \E i \in Ids, found \in SUBSET Values : Learn(i, found) \/ Promise(i, found)

Spec == Init /\ [][Next]_storeVars
=============================================================================
