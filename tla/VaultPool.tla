----------------------------- MODULE VaultPool -----------------------------
(***************************************************************************)
(* The vault pool of the MCP server and the tool calls that use it         *)
(* (packages/mcp-server/src/vault-pool.ts and tools/).                     *)
(*                                                                         *)
(* A tool call runs on one JavaScript thread but is suspended at each      *)
(* await: while PIIRemover.init runs, after resolve() returned, and while  *)
(* a detection backend works on a text.  Every other call, the sweeper and *)
(* a shutdown may run in those gaps, so each stretch between two awaits is *)
(* an action.                                                              *)
(*                                                                         *)
(* A vault id stands for its remover: the pool maps the one to the other   *)
(* and never re-uses an id.  Ids are numbered in the order in which they   *)
(* enter the pool, the iteration order of the JavaScript Map.  A text is   *)
(* the set of PII values detected in it; within a vault a value and its    *)
(* token determine each other, so a token is the pair <<id, value>>.       *)
(***************************************************************************)
EXTENDS Naturals, FiniteSets, Sequences

CONSTANTS
    Requests,   \* tool calls that can be in progress at the same time
    Values,     \* PII values
    Batches,    \* the lists of texts a client may send to sanitize(_batch)
    MaxSize,    \* VaultPoolOptions.maxSize
    Ttl,        \* VaultPoolOptions.ttlMs
    MaxVaults,  \* bound: vaults created in a behaviour
    MaxTime     \* bound: clock ticks in a behaviour

ASSUME RequestsAssumption == IsFiniteSet(Requests)
ASSUME SizeAssumption == MaxSize \in Nat \ {0}
ASSUME BoundsAssumption == Ttl \in Nat /\ MaxVaults \in Nat /\ MaxTime \in Nat
ASSUME BatchAssumption == Batches \subseteq Seq(SUBSET Values)

VARIABLES
    pooled,      \* keys of the Map: the vault ids that resolve() can find
    lastAccess,  \* PoolEntry.lastAccess, meaningful for a pooled id
    retired,    \* ids whose remover has had dispose() called
    records,     \* [id -> values recorded in the vault of that remover]
    minted,      \* number of vaults created so far
    now,         \* this.now()
    shut,        \* VaultPool.disposed
    req,         \* the tool calls in progress
    known,       \* vault ids some client was given
    issued       \* tokens some client was given, as <<id, value>>

poolVars == <<pooled, lastAccess, retired, records, minted, shut>>
vaultPoolVars == <<pooled, lastAccess, retired, records, minted, now, shut, req, known, issued>>

VaultId == 1 .. MaxVaults
NoId == 0

PC == {"idle", "creating", "resolved", "masking"}
Tool == {"sanitize", "desanitize"}

IdleCall == [pc |-> "idle", tool |-> "sanitize", id |-> NoId, texts |-> <<>>, out |-> {}]

PoolTypeOK ==
    /\ pooled \subseteq VaultId
    /\ lastAccess \in [VaultId -> Nat]
    /\ retired \subseteq VaultId
    /\ records \in [VaultId -> SUBSET Values]
    /\ minted \in 0 .. MaxVaults
    /\ now \in Nat
    /\ shut \in BOOLEAN
    /\ req \in [Requests -> [pc: PC, tool: Tool, id: VaultId \cup {NoId},
                             texts: Seq(SUBSET Values), out: SUBSET Values]]
    /\ known \subseteq VaultId
    /\ issued \subseteq VaultId \X Values

PoolInit ==
    /\ pooled = {}
    /\ lastAccess = [i \in VaultId |-> 0]
    /\ retired = {}
    /\ records = [i \in VaultId |-> {}]
    /\ minted = 0
    /\ now = 0
    /\ shut = FALSE
    /\ req = [r \in Requests |-> IdleCall]
    /\ known = {}
    /\ issued = {}

-----------------------------------------------------------------------------
(* Helpers                                                                 *)

Creating == {r \in Requests : req[r].pc = "creating"}

\* Mutant of Expired: one tick too late.
ExpiredLate(i) == now - lastAccess[i] > Ttl + 1

Expired(i) == now - lastAccess[i] > Ttl

\* Mutant of Full: makes room one vault too late.
FullLate == Cardinality(pooled) > MaxSize

\* The test for room at the head of resolve().
Full == Cardinality(pooled) >= MaxSize

\* Mutant of Evict: disposes the remover and leaves it in the Map.
EvictWithoutDelete(S) ==
    /\ pooled' = pooled
    /\ lastAccess' = lastAccess
    /\ retired' = retired \cup S
    /\ records' = [i \in VaultId |-> IF i \in S THEN {} ELSE records[i]]

\* evict(): the remover is disposed, which drops its vault, and its entry leaves
\* the Map.
Evict(S) ==
    /\ pooled' = pooled \ S
    /\ lastAccess' = [i \in VaultId |-> IF i \in S THEN 0 ELSE lastAccess[i]]
    /\ retired' = retired \cup S
    /\ records' = [i \in VaultId |-> IF i \in S THEN {} ELSE records[i]]

\* Mutant of IsOldest: the first of the Map, whenever it was last used.
IsFirst(i) == i \in pooled /\ \A j \in pooled : i <= j

\* The pooled vault evictOldest() picks: least recently used, and on a tie the
\* first the Map iterates over.
IsOldest(i) ==
    /\ i \in pooled
    /\ \A j \in pooled : \/ lastAccess[i] < lastAccess[j]
                         \/ lastAccess[i] = lastAccess[j] /\ i <= j

Answer(r) == req' = [req EXCEPT ![r] = IdleCall]

-----------------------------------------------------------------------------
(* Tool calls                                                              *)

\* sanitize without a vault_id, up to the await of PIIRemover.init.  A full
\* pool gives up its oldest vault here, before the new one exists.
StartCreate(r, texts) ==
    /\ ~shut
    /\ req[r].pc = "idle"
    /\ minted + Cardinality(Creating) < MaxVaults
    /\ req' = [req EXCEPT ![r] = [IdleCall EXCEPT !.pc = "creating", !.texts = texts]]
    /\ \/ /\ Full
          /\ \E i \in pooled : IsOldest(i) /\ Evict({i})
       \/ /\ ~Full
          /\ UNCHANGED <<pooled, lastAccess, retired, records>>
    /\ UNCHANGED <<minted, now, shut, known, issued>>

\* init resolved: the remover enters the pool, whatever happened to the pool
\* in the meantime.
InitDone(r) ==
    LET i == minted + 1 IN
    /\ req[r].pc = "creating"
    /\ i \in VaultId
    /\ minted' = i
    /\ pooled' = pooled \cup {i}
    /\ lastAccess' = [lastAccess EXCEPT ![i] = now]
    /\ req' = [req EXCEPT ![r].pc = "resolved", ![r].id = i]
    /\ UNCHANGED <<retired, records, now, shut, known, issued>>

\* init rejected (unreadable configuration, an invalid backend): the call fails.
InitFail(r) ==
    /\ req[r].pc = "creating"
    /\ Answer(r)
    /\ UNCHANGED <<poolVars, now, known, issued>>

\* resolve() of a vault_id the pool holds and that is still fresh.
StartExisting(r, tool, i, texts) ==
    /\ ~shut
    /\ req[r].pc = "idle"
    /\ i \in known \cap pooled
    /\ ~Expired(i)
    /\ lastAccess' = [lastAccess EXCEPT ![i] = now]
    /\ req' = [req EXCEPT ![r] = [IdleCall EXCEPT !.pc = "resolved", !.tool = tool,
                                                  !.id = i, !.texts = texts]]
    /\ UNCHANGED <<pooled, retired, records, minted, now, shut, known, issued>>

\* resolve() of a vault_id past its TTL evicts it and throws VaultExpiredError.
\* (An id that is not pooled throws VaultNotFoundError and changes nothing.)
ResolveExpired(r, i) ==
    /\ ~shut
    /\ req[r].pc = "idle"
    /\ i \in known \cap pooled
    /\ Expired(i)
    /\ Evict({i})
    /\ UNCHANGED <<minted, now, shut, req, known, issued>>

\* PIIRemover.mask up to the await of the detector.
BeginText(r) ==
    /\ req[r].pc = "resolved"
    /\ req[r].tool = "sanitize"
    /\ req[r].texts # <<>>
    /\ req[r].id \notin retired
    /\ req' = [req EXCEPT ![r].pc = "masking"]
    /\ UNCHANGED <<poolVars, now, known, issued>>

\* assertNotDisposed() at the head of mask and restore: the vault went away
\* after resolve() returned it, the call fails.
CallOnDisposed(r) ==
    /\ req[r].pc = "resolved"
    /\ req[r].tool = "desanitize" \/ req[r].texts # <<>>
    /\ req[r].id \in retired
    /\ Answer(r)
    /\ UNCHANGED <<poolVars, now, known, issued>>

\* Mutant of EndText: writes back what this call alone recorded, losing what
\* another call on the same vault recorded during the await.
EndTextLostUpdate(r) ==
    LET i == req[r].id
        found == Head(req[r].texts) IN
    /\ req[r].pc = "masking"
    /\ records' = [records EXCEPT ![i] = req[r].out \cup found]
    /\ req' = [req EXCEPT ![r].pc = "resolved", ![r].texts = Tail(@),
                          ![r].out = @ \cup found]
    /\ UNCHANGED <<pooled, lastAccess, retired, minted, now, shut, known, issued>>

\* Mutant of EndText: refreshes lastAccess after the await by setting the entry.
EndTextRefresh(r) ==
    LET i == req[r].id
        found == Head(req[r].texts) IN
    /\ req[r].pc = "masking"
    /\ records' = [records EXCEPT ![i] = @ \cup found]
    /\ pooled' = pooled \cup {i}
    /\ lastAccess' = [lastAccess EXCEPT ![i] = now]
    /\ req' = [req EXCEPT ![r].pc = "resolved", ![r].texts = Tail(@),
                          ![r].out = @ \cup found]
    /\ UNCHANGED <<retired, minted, now, shut, known, issued>>

\* The detector answered: vault.assign records the values, in a vault that
\* getOrCreate makes anew if the remover has been disposed meanwhile.
EndText(r) ==
    LET i == req[r].id
        found == Head(req[r].texts) IN
    /\ req[r].pc = "masking"
    /\ records' = [records EXCEPT ![i] = @ \cup found]
    /\ req' = [req EXCEPT ![r].pc = "resolved", ![r].texts = Tail(@),
                          ![r].out = @ \cup found]
    /\ UNCHANGED <<pooled, lastAccess, retired, minted, now, shut, known, issued>>

\* The detector failed and failure_policy is closed: the call fails.
MaskFail(r) ==
    /\ req[r].pc = "masking"
    /\ Answer(r)
    /\ UNCHANGED <<poolVars, now, known, issued>>

\* All texts are masked: the masked texts and the vault_id go to the client.
Sanitized(r) ==
    /\ req[r].pc = "resolved"
    /\ req[r].tool = "sanitize"
    /\ req[r].texts = <<>>
    /\ known' = known \cup {req[r].id}
    /\ issued' = issued \cup ({req[r].id} \X req[r].out)
    /\ Answer(r)
    /\ UNCHANGED <<poolVars, now>>

\* desanitize(_batch) restores its texts without another await.
Desanitize(r) ==
    /\ req[r].pc = "resolved"
    /\ req[r].tool = "desanitize"
    /\ req[r].id \notin retired
    /\ Answer(r)
    /\ UNCHANGED <<poolVars, now, known, issued>>

-----------------------------------------------------------------------------
(* The pool's other entry points                                           *)

Tick ==
    /\ now < MaxTime
    /\ now' = now + 1
    /\ UNCHANGED <<poolVars, req, known, issued>>

\* One pass of the sweeper.
Sweep ==
    /\ ~shut
    /\ Evict({i \in pooled : Expired(i)})
    /\ UNCHANGED <<minted, now, shut, req, known, issued>>

\* VaultPool.dispose(vaultId), for a host that embeds the pool.
DisposeOf(i) ==
    /\ i \in pooled
    /\ Evict({i})
    /\ UNCHANGED <<minted, now, shut, req, known, issued>>

Shutdown ==
    /\ ~shut
    /\ shut' = TRUE
    /\ Evict(pooled)
    /\ UNCHANGED <<minted, now, req, known, issued>>

ToolStep(r) ==
    \/ InitDone(r) \/ InitFail(r)
    \/ BeginText(r) \/ EndText(r) \/ MaskFail(r)
    \/ CallOnDisposed(r) \/ Sanitized(r) \/ Desanitize(r)

PoolNext ==
    \/ \E r \in Requests, texts \in Batches : StartCreate(r, texts)
    \/ \E r \in Requests, i \in VaultId, texts \in Batches :
          StartExisting(r, "sanitize", i, texts)
    \/ \E r \in Requests, i \in VaultId : StartExisting(r, "desanitize", i, <<>>)
    \/ \E r \in Requests, i \in VaultId : ResolveExpired(r, i)
    \/ \E r \in Requests : ToolStep(r)
    \/ \E i \in VaultId : DisposeOf(i)
    \/ Tick \/ Sweep \/ Shutdown

PoolSpec == PoolInit /\ [][PoolNext]_vaultPoolVars

-----------------------------------------------------------------------------
(* Properties                                                              *)

\* A vault that resolve() can still hand out has not been disposed: eviction
\* disposes and unlists in one stretch, on each of its four paths.
PooledIsAlive == pooled \cap retired = {}

\* A token a client was given is restorable for as long as its vault_id
\* resolves: no interleaving of calls loses an entry of a pooled vault.
IssuedIsRestorable ==
    \A p \in issued : p[1] \in pooled => p[2] \in records[p[1]]

\* The inductive strengthening.  An id that a client knows or a call holds is one
\* that was minted; a minted vault is pooled or disposed, an unminted one has no
\* entries; and what a call recorded in a pooled vault is still there.
IdsInUse ==
    /\ known \subseteq 1 .. minted
    /\ \A r \in Requests :
        /\ req[r].pc \in {"resolved", "masking"} => req[r].id \in 1 .. minted
        /\ req[r].pc = "masking" => req[r].texts # <<>>
        /\ req[r].pc = "creating" => req[r].out = {}

Bookkeeping ==
    /\ pooled \cup retired = 1 .. minted
    /\ \A p \in issued : p[1] \in 1 .. minted
    /\ \A i \in VaultId : i \notin 1 .. minted => records[i] = {}

CallsAreRecorded ==
    \A r \in Requests :
        req[r].pc \in {"resolved", "masking"} /\ req[r].id \in pooled
        => req[r].out \subseteq records[req[r].id]

PoolInv ==
    PoolTypeOK /\ IdsInUse /\ Bookkeeping /\ PooledIsAlive /\ CallsAreRecorded /\ IssuedIsRestorable

\* A vault_id that stopped resolving never resolves again, although calls that
\* hold its remover are still running.
NoRevival ==
    [][\A i \in 1 .. minted : i \notin pooled => i \notin pooled']_vaultPoolVars

\* Room is made before an init is awaited and not re-checked after it, so
\* creations in flight together can exceed MaxSize; but by no more than the
\* number of calls in progress, less one, however long the pool runs.
Overshoot ==
    Cardinality(pooled) + Cardinality(Creating) <= (MaxSize - 1) + Cardinality(Requests)

\* Last use decides who stays, and nothing else: a creation on a full pool gives up a
\* vault only if every vault it keeps has been used since, so an active client does not
\* lose its vault to a new one; and a vault is only ever served within Ttl of its last
\* use, also by a call that comes before the sweeper found it.
LastUseDecides ==
    [][\A r \in Requests :
          /\ req[r].pc = "idle" /\ req'[r].pc = "creating" =>
                 \A i \in pooled \ pooled', j \in pooled' : lastAccess[j] >= lastAccess[i]
          /\ req[r].pc = "idle" /\ req'[r].pc = "resolved" =>
                 now - lastAccess[req'[r].id] <= Ttl]_vaultPoolVars

-----------------------------------------------------------------------------
(* The pool implements the store of VaultStore.tla: the vaults in the pool *)
(* are the open ones, and what a disposed remover still records is nobody's *)
(* any more.                                                               *)
Store == INSTANCE VaultStore WITH
    Ids <- VaultId,
    open <- pooled,
    closed <- (1 .. minted) \ pooled,
    contents <- [i \in VaultId |-> IF i \in pooled THEN records[i] ELSE {}],
    promised <- issued

\* Every behaviour of the pool and its tools is one of the abstract store.
ImplementsStore == Store!Spec
=============================================================================
