----------------------------- MODULE PortVault -----------------------------
(***************************************************************************)
(* The backend's own proxy: api/proxy.py masks each request on a worker    *)
(* thread (asyncio.to_thread) and restores answers on the event loop; all  *)
(* of them share the one VaultManager of pii/session_pool.py, which has no *)
(* lock.  An action of a thread is what it does between two accesses to    *)
(* what threads share.                                                     *)
(*                                                                         *)
(* A token is the canonical form of its surfaces.                          *)
(***************************************************************************)
EXTENDS Naturals, Sequences, FiniteSets, Functions

CONSTANTS
    PortRequests,
    PortSessions,
    PortSurfaces,  \* texts that are detected
    PortForm,      \* [surface -> its canonical form]
    PortBodies,    \* sequences of texts; a text is the sequence of surfaces in it
    PortLimit      \* _MAX_ENTRIES_HARD

\* A body with no text in it is as one with an empty text.
ASSUME PortAssumption ==
    /\ PortForm \in [PortSurfaces -> Range(PortForm)]
    /\ PortBodies \subseteq Seq(Seq(PortSurfaces)) \ {<<>>}
    /\ PortLimit \in Nat

Tokens == Range(PortForm)
NoVault == 0

VARIABLES
    vaultOf,   \* [session -> vault], VaultManager._sessions
    contents,  \* the vaults: sequence of [token -> surface]
    port,      \* the requests
    running,
    replaced,  \* history: sessions whose vault was replaced by another one
    given,     \* history: <<session, token>> that an upstream has been sent
    said       \* history: <<session, surface>> that a request has brought

portVars == <<vaultOf, contents, port, running, replaced, given, said>>

NoRequest == [pc |-> "idle", session |-> "none", body |-> <<>>, at |-> 1,
              left |-> <<>>, vault |-> NoVault, seen |-> 0, known |-> {}, sent |-> {}, shown |-> {},
              why |-> "none"]

PortInit ==
    /\ vaultOf = [s \in PortSessions |-> NoVault]
    /\ contents = <<>>
    /\ port = [r \in PortRequests |-> NoRequest]
    /\ running = TRUE
    /\ replaced = {}
    /\ given = {}
    /\ said = {}

Goes(r, pc) == port' = [port EXCEPT ![r].pc = pc]
Fails(r, why) == port' = [port EXCEPT ![r].pc = "failed", ![r].why = why]
Current(r) == port[r].body[port[r].at]
Forms(surfaces) == {PortForm[surfaces[i]] : i \in DOMAIN surfaces}
NothingShared == UNCHANGED <<vaultOf, contents, running, replaced, given, said>>

\* proxy_entrypoint and the start of _relay_masked: other paths, methods and bodies are
\* refused, or relayed as they are; for a chat the session is found, or made.
Arrive(r) ==
    /\ running /\ port[r].pc = "idle"
    /\ \/ Goes(r, "answered") /\ said' = said
       \/ \E s \in PortSessions, body \in PortBodies :
              /\ port' = [port EXCEPT ![r].pc = "detecting", ![r].session = s, ![r].body = body]
              /\ said' = said \cup ({s} \X UNION {Range(body[i]) : i \in DOMAIN body})
    /\ UNCHANGED <<vaultOf, contents, running, replaced, given>>

-----------------------------------------------------------------------------
(* The worker thread                                                       *)

\* After a text, the next one; after the last, the thread returns.
Follow(r, sent) ==
    port' = [port EXCEPT ![r].pc = IF port[r].at = Len(port[r].body) THEN "masked" ELSE "detecting",
                         ![r].at = @ + 1,
                         ![r].sent = sent]

\* VaultTokenCodec.mask: the detectors answer, or raise; an exception ends the request with
\* a 500.
Detects(r) ==
    /\ port[r].pc = "detecting"
    /\ \/ Fails(r, "detection")
       \/ Current(r) = <<>> /\ Follow(r, port[r].sent)
       \/ /\ Current(r) # <<>>
          /\ port' = [port EXCEPT ![r].pc = "assigning", ![r].left = Current(r)]
    /\ NothingShared

\* get_or_create, its test.
FindsVault(r) ==
    /\ port[r].pc = "assigning"
    /\ LET v == vaultOf[port[r].session] IN
           port' = [port EXCEPT ![r].pc = IF v = NoVault THEN "creating" ELSE "indexing",
                                ![r].vault = v]
    /\ NothingShared

\* get_or_create, its assignment: whatever the test has seen.
CreatesVault(r) ==
    LET s == port[r].session IN
    /\ port[r].pc = "creating"
    /\ contents' = Append(contents, <<>>)
    /\ vaultOf' = [vaultOf EXCEPT ![s] = Len(contents) + 1]
    /\ replaced' = IF vaultOf[s] = NoVault THEN replaced ELSE replaced \cup {s}
    /\ port' = [port EXCEPT ![r].pc = "indexing", ![r].vault = Len(contents) + 1]
    /\ UNCHANGED <<running, given, said>>

Held(r) == contents[port[r].vault]
\* A Python dict that has grown says so to whoever iterates over it.
Size(r) == Cardinality(DOMAIN Held(r))

\* The comprehension dedup_lookup begins.
IndexBegins(r) ==
    /\ port[r].pc = "indexing"
    /\ port' = [port EXCEPT ![r].pc = "iterating", ![r].seen = Size(r)]
    /\ NothingShared

\* It ends, or raises: "dictionary changed size during iteration".
IndexEnds(r) ==
    /\ port[r].pc = "iterating"
    /\ IF Size(r) = port[r].seen
       THEN port' = [port EXCEPT ![r].pc = "minting", ![r].known = DOMAIN Held(r)]
       ELSE Fails(r, "iteration")
    /\ NothingShared

\* A vault with one more entry, or with an entry overwritten.
With(entries, token, surface) ==
    [t \in DOMAIN entries \cup {token} |-> IF t = token THEN surface ELSE entries[t]]

\* Mutant of Minted: the thread writes back the entries it has seen, and its own.
MintedStale(r, surface) ==
    With([t \in port[r].known \cap DOMAIN Held(r) |-> Held(r)[t]], PortForm[surface], surface)

\* Mutant of Minted: under the token of another value.
MintedAside(r, surface) ==
    IF DOMAIN Held(r) = {} THEN With(Held(r), PortForm[surface], surface)
    ELSE With(With(Held(r), PortForm[surface], surface),
              CHOOSE t \in DOMAIN Held(r) : TRUE, surface)

\* The entry is new, or takes the place of one that another thread has made meanwhile.
Minted(r, surface) == With(Held(r), PortForm[surface], surface)

\* One round of the loop of assign.
Mints(r) ==
    LET surface == Head(port[r].left) IN
    /\ port[r].pc = "minting" /\ port[r].left # <<>>
    /\ port' = [port EXCEPT ![r].left = Tail(@), ![r].known = @ \cup {PortForm[surface]}]
    /\ contents' = IF PortForm[surface] \in port[r].known THEN contents
                   ELSE [contents EXCEPT ![port[r].vault] = Minted(r, surface)]
    /\ UNCHANGED <<vaultOf, running, replaced, given, said>>

\* _enforce_limits.
Assigned(r) ==
    /\ port[r].pc = "minting" /\ port[r].left = <<>>
    /\ IF Size(r) > PortLimit
       THEN Fails(r, "limit")
       ELSE Follow(r, port[r].sent \cup Forms(Current(r)))
    /\ NothingShared

-----------------------------------------------------------------------------
(* The event loop                                                          *)

\* Mutant of Returned: the texts so far are sent while the thread is at the others.
ReturnedEarly(r) ==
    \/ port[r].pc = "masked"
    \/ port[r].pc = "detecting" /\ port[r].at > 1

\* asyncio.to_thread has returned.
Returned(r) == port[r].pc = "masked"

\* The masked body goes upstream.
SendsUpstream(r) ==
    /\ Returned(r)
    /\ Goes(r, "asked")
    /\ given' = given \cup ({port[r].session} \X port[r].sent)
    /\ UNCHANGED <<vaultOf, contents, running, replaced, said>>

\* Mutant of Looked: any session's vault will do.
LookedAnywhere(s, token) ==
    LET with == {v \in DOMAIN contents : token \in DOMAIN contents[v]} IN
    IF with = {} THEN {} ELSE {contents[CHOOSE v \in with : TRUE][token]}

\* VaultManager.lookup: a set of one surface, or of none.
Looked(s, token) ==
    IF vaultOf[s] = NoVault \/ token \notin DOMAIN contents[vaultOf[s]] THEN {}
    ELSE {contents[vaultOf[s]][token]}

\* restore_response, or a piece of a stream: an answer names tokens that its request has
\* sent or that an earlier turn of somebody has.
Restores(r) ==
    /\ port[r].pc = "asked"
    /\ \E t \in Tokens :
           /\ t \notin {p[1] : p \in port[r].shown}
           /\ port' = [port EXCEPT ![r].shown = @ \cup {<<t, Looked(port[r].session, t)>>}]
    /\ NothingShared

\* The answer has ended, or was an error, which is passed on as it is.
Answers(r) ==
    /\ port[r].pc = "asked"
    /\ Goes(r, "answered")
    /\ NothingShared

\* The end of the lifespan: dispose_all, once no request is left.
Stops ==
    /\ running /\ \A r \in PortRequests : port[r].pc \in {"idle", "failed", "answered"}
    /\ running' = FALSE
    /\ vaultOf' = [s \in PortSessions |-> NoVault]
    /\ UNCHANGED <<contents, port, replaced, given, said>>

PortStep(r) ==
    \/ Arrive(r) \/ Detects(r) \/ FindsVault(r) \/ CreatesVault(r) \/ IndexBegins(r)
    \/ IndexEnds(r) \/ Mints(r) \/ Assigned(r) \/ SendsUpstream(r) \/ Restores(r)
    \/ Answers(r)

PortNext == Stops \/ \E r \in PortRequests : PortStep(r)

PortSpec == PortInit /\ [][PortNext]_portVars

-----------------------------------------------------------------------------
(* Properties                                                              *)

\* A token that an upstream has been sent stays in the vault of its session, whatever the
\* threads do to that vault; unless two first requests of the session have each made one.
GivenIsHeld ==
    \A p \in given :
        running /\ p[1] \notin replaced => vaultOf[p[1]] # NoVault /\ p[2] \in DOMAIN contents[vaultOf[p[1]]]

\* An entry written by the last of several threads is a spelling of the value its token
\* stands for.
EntriesKeepTheirForm == \A v \in DOMAIN contents : \A t \in DOMAIN contents[v] : PortForm[contents[v][t]] = t

\* What goes upstream has every text masked, although a thread masks it piece by piece and
\* may fail at any.
SentIsMasked ==
    \A r \in PortRequests :
        port[r].pc \in {"asked", "answered"} => port[r].sent = UNION {Forms(port[r].body[i]) : i \in DOMAIN port[r].body}

\* An answer restores a token of its own request (again, unless the vault was replaced), and
\* shows nobody what his session has not said.
ShownIsOwn ==
    \A r \in PortRequests : \A p \in port[r].shown :
        /\ \A surface \in p[2] : <<port[r].session, surface>> \in said
        /\ p[1] \in port[r].sent /\ port[r].session \notin replaced => \E surface \in p[2] : PortForm[surface] = p[1]

\* The threads of the backend's proxy keep the vault's promises without a lock
\* (pii/vault.py, pii/codec.py, api/proxy.py).
PortInv == GivenIsHeld /\ EntriesKeepTheirForm /\ SentIsMasked /\ ShownIsOwn
=============================================================================
