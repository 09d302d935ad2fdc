-------------------------- MODULE VaultPool_proofs --------------------------
(***************************************************************************)
(* The vaults that concurrent requests share.  The MCP server's pool, for  *)
(* any number of calls, vaults and values: type correctness, the safety    *)
(* properties that follow from the inductive invariant PoolInv, the bound  *)
(* on its size, and that it implements the abstract store.  The backend's  *)
(* proxy, for any number of requests and sessions: what its threads keep   *)
(* without a lock (ThreadsInv).                                            *)
(***************************************************************************)
EXTENDS VaultPool, PortVault, FiniteSetTheorems, TLAPS

CallType == [pc: PC, tool: Tool, id: VaultId \cup {NoId}, texts: Seq(SUBSET Values),
             out: SUBSET Values]

TypeInv == PoolTypeOK /\ IdsInUse

LEMMA IdleCallType == IdleCall \in CallType /\ IdleCall.pc = "idle"
<1>1. <<>> \in Seq(SUBSET Values)
  OBVIOUS
<1> QED BY <1>1 DEF IdleCall, CallType, PC, Tool

LEMMA EvictType ==
    ASSUME PoolTypeOK, NEW S \in SUBSET VaultId, Evict(S)
    PROVE  /\ pooled' \subseteq VaultId
           /\ lastAccess' \in [VaultId -> Nat]
           /\ retired' \subseteq VaultId
           /\ records' \in [VaultId -> SUBSET Values]
  BY DEF PoolTypeOK, Evict

LEMMA AnswerType ==
    ASSUME PoolTypeOK, NEW r \in Requests, Answer(r)
    PROVE  /\ req' \in [Requests -> CallType]
           /\ req'[r] = IdleCall
           /\ \A q \in Requests \ {r} : req'[q] = req[q]
  BY IdleCallType DEF PoolTypeOK, Answer, CallType

LEMMA TypeInit == PoolInit => TypeInv
<1> SUFFICES ASSUME PoolInit PROVE TypeInv
  OBVIOUS
<1>1. known = {} /\ req \in [Requests -> CallType] /\ \A r \in Requests : req[r].pc = "idle"
  BY IdleCallType DEF PoolInit
<1>2. minted \in 0 .. MaxVaults
  BY BoundsAssumption DEF PoolInit
<1>3. lastAccess \in [VaultId -> Nat] /\ records \in [VaultId -> SUBSET Values]
  BY DEF PoolInit
<1>4. IdsInUse
  BY <1>1 DEF IdsInUse
<1>5. /\ pooled = {} /\ retired = {} /\ issued = {} /\ now = 0 /\ shut = FALSE
  BY DEF PoolInit
<1>6. PoolTypeOK
  BY <1>1, <1>2, <1>3, <1>5 DEF PoolTypeOK, CallType
<1> QED BY <1>4, <1>6 DEF TypeInv

\* A step that changes only the calls, and leaves r idle, keeps the type.
LEMMA AnswerKeepsType ==
    ASSUME TypeInv, NEW r \in Requests, Answer(r), UNCHANGED <<minted, known>>
    PROVE  req' \in [Requests -> CallType] /\ IdsInUse'
<1>1. PoolTypeOK /\ IdsInUse
  BY DEF TypeInv
<1> QED BY <1>1, AnswerType, IdleCallType DEF IdsInUse

LEMMA TypeStep == TypeInv /\ [PoolNext]_vaultPoolVars => TypeInv'
<1> SUFFICES ASSUME TypeInv, [PoolNext]_vaultPoolVars PROVE TypeInv'
  OBVIOUS
<1> USE DEF poolVars
<1>t. PoolTypeOK /\ IdsInUse /\ req \in [Requests -> CallType] /\ minted \in Nat
  BY DEF TypeInv, PoolTypeOK, CallType
<1>1. ASSUME NEW r \in Requests, NEW texts \in Batches, StartCreate(r, texts) PROVE TypeInv'
  <2>1. texts \in Seq(SUBSET Values)
    BY BatchAssumption
  <2>2. req' \in [Requests -> CallType]
    BY <1>t, <1>1, <2>1, IdleCallType DEF StartCreate, IdleCall, CallType, PC
  <2>a. /\ req'[r].pc = "creating" /\ req'[r].out = {}
        /\ \A q \in Requests \ {r} : req'[q] = req[q]
        /\ UNCHANGED <<known, minted>>
    BY <1>t, <1>1 DEF StartCreate, IdleCall
  <2>3. IdsInUse'
    BY <1>t, <2>a DEF IdsInUse
  <2>4. CASE Full /\ \E i \in pooled : IsOldest(i) /\ Evict({i})
    <3> PICK i \in pooled : Evict({i})
      BY <2>4
    <3> i \in VaultId
      BY <1>t DEF PoolTypeOK
    <3> QED BY <1>t, <1>1, <2>2, <2>3, EvictType DEF TypeInv, PoolTypeOK, StartCreate, CallType
  <2>5. CASE UNCHANGED <<pooled, lastAccess, retired, records>>
    BY <1>t, <1>1, <2>2, <2>3, <2>5 DEF TypeInv, PoolTypeOK, StartCreate, CallType
  <2> QED BY <1>1, <2>4, <2>5 DEF StartCreate
<1>2. ASSUME NEW r \in Requests, NEW tool \in Tool, NEW i \in VaultId,
             NEW texts \in Seq(SUBSET Values), StartExisting(r, tool, i, texts)
      PROVE TypeInv'
  <2>1. req' \in [Requests -> CallType]
    BY <1>t, <1>2, IdleCallType DEF StartExisting, IdleCall, CallType, PC
  <2>2. IdsInUse'
    BY <1>t, <1>2, <2>1 DEF IdsInUse, StartExisting, CallType
  <2> QED BY <1>t, <1>2, <2>1, <2>2 DEF TypeInv, PoolTypeOK, StartExisting, CallType
<1>3. ASSUME NEW r \in Requests, NEW i \in VaultId, ResolveExpired(r, i) PROVE TypeInv'
  BY <1>t, <1>3, EvictType DEF TypeInv, PoolTypeOK, IdsInUse, ResolveExpired
<1>4. ASSUME NEW r \in Requests, InitDone(r) PROVE TypeInv'
  <2>1. /\ minted' = minted + 1
        /\ minted + 1 \in VaultId
    BY <1>4 DEF InitDone
  <2>2. minted' \in 0 .. MaxVaults
    BY <1>t, <2>1, BoundsAssumption DEF VaultId
  <2>3. req' \in [Requests -> CallType]
    BY <1>t, <1>4, <2>1 DEF InitDone, CallType, PC
  <2>4. IdsInUse'
    BY <1>t, <1>4, <2>1, <2>3 DEF IdsInUse, InitDone, CallType
  <2> QED BY <1>t, <1>4, <2>1, <2>2, <2>3, <2>4 DEF TypeInv, PoolTypeOK, InitDone, CallType
<1>5. ASSUME NEW r \in Requests, InitFail(r) PROVE TypeInv'
  BY <1>t, <1>5, AnswerKeepsType DEF TypeInv, PoolTypeOK, InitFail, CallType
<1>6. ASSUME NEW r \in Requests, BeginText(r) PROVE TypeInv'
  <2>1. req' \in [Requests -> CallType]
    BY <1>t, <1>6 DEF BeginText, CallType, PC
  <2>2. IdsInUse'
    BY <1>t, <1>6, <2>1 DEF IdsInUse, BeginText, CallType
  <2> QED BY <1>t, <1>6, <2>1, <2>2 DEF TypeInv, PoolTypeOK, BeginText, CallType
<1>7. ASSUME NEW r \in Requests, EndText(r) PROVE TypeInv'
  <2>1. /\ req[r].texts \in Seq(SUBSET Values)
        /\ req[r].texts # <<>>
    BY <1>t, <1>7 DEF IdsInUse, EndText, CallType
  <2>2. /\ Head(req[r].texts) \in SUBSET Values
        /\ Tail(req[r].texts) \in Seq(SUBSET Values)
    BY <2>1
  <2>3. req' \in [Requests -> CallType]
    BY <1>t, <1>7, <2>2 DEF EndText, CallType, PC
  <2>4. IdsInUse'
    BY <1>t, <1>7, <2>3 DEF IdsInUse, EndText, CallType
  <2>5. records' \in [VaultId -> SUBSET Values]
    BY <1>t, <1>7, <2>2 DEF EndText, PoolTypeOK
  <2> QED BY <1>t, <1>7, <2>3, <2>4, <2>5 DEF TypeInv, PoolTypeOK, EndText, CallType
<1>8. ASSUME NEW r \in Requests, MaskFail(r) PROVE TypeInv'
  BY <1>t, <1>8, AnswerKeepsType DEF TypeInv, PoolTypeOK, MaskFail, CallType
<1>9. ASSUME NEW r \in Requests, CallOnDisposed(r) PROVE TypeInv'
  BY <1>t, <1>9, AnswerKeepsType DEF TypeInv, PoolTypeOK, CallOnDisposed, CallType
<1>10. ASSUME NEW r \in Requests, Sanitized(r) PROVE TypeInv'
  <2>1. /\ req[r].id \in 1 .. minted
        /\ req[r].id \in VaultId
        /\ req[r].out \subseteq Values
    BY <1>t, <1>10, BoundsAssumption DEF IdsInUse, Sanitized, CallType, PoolTypeOK, VaultId
  <2>2. /\ known' \subseteq VaultId /\ known' \subseteq 1 .. minted
        /\ issued' \subseteq VaultId \X Values
    BY <1>t, <1>10, <2>1 DEF Sanitized, PoolTypeOK, IdsInUse
  <2>3. req' \in [Requests -> CallType] /\ req'[r] = IdleCall
        /\ \A q \in Requests \ {r} : req'[q] = req[q]
    BY <1>t, <1>10, AnswerType DEF Sanitized
  <2>4. IdsInUse'
    BY <1>t, <1>10, <2>2, <2>3, IdleCallType DEF IdsInUse, Sanitized
  <2> QED BY <1>t, <1>10, <2>2, <2>3, <2>4 DEF TypeInv, PoolTypeOK, Sanitized, CallType
<1>11. ASSUME NEW r \in Requests, Desanitize(r) PROVE TypeInv'
  BY <1>t, <1>11, AnswerKeepsType DEF TypeInv, PoolTypeOK, Desanitize, CallType
<1>12. CASE Tick
  BY <1>t, <1>12 DEF TypeInv, PoolTypeOK, IdsInUse, Tick
<1>13. CASE Sweep
  BY <1>t, <1>13, EvictType DEF TypeInv, PoolTypeOK, IdsInUse, Sweep
<1>14. ASSUME NEW i \in VaultId, DisposeOf(i) PROVE TypeInv'
  BY <1>t, <1>14, EvictType DEF TypeInv, PoolTypeOK, IdsInUse, DisposeOf
<1>15. CASE Shutdown
  BY <1>t, <1>15, EvictType DEF TypeInv, PoolTypeOK, IdsInUse, Shutdown
<1>16. CASE UNCHANGED vaultPoolVars
  BY <1>t, <1>16 DEF TypeInv, PoolTypeOK, IdsInUse, vaultPoolVars
<1>17. /\ \A texts \in Batches : texts \in Seq(SUBSET Values)
       /\ <<>> \in Seq(SUBSET Values)
       /\ "sanitize" \in Tool /\ "desanitize" \in Tool
  BY BatchAssumption DEF Tool
<1> QED
  BY <1>1, <1>2, <1>3, <1>4, <1>5, <1>6, <1>7, <1>8, <1>9, <1>10, <1>11, <1>12,
     <1>13, <1>14, <1>15, <1>16, <1>17 DEF PoolNext, ToolStep

\* Type correctness of the pool and of the calls that use it.
THEOREM TypeCorrect == PoolSpec => []PoolTypeOK
<1>1. TypeInv => PoolTypeOK
  BY DEF TypeInv
<1> QED BY <1>1, TypeInit, TypeStep, PTL DEF PoolSpec

-----------------------------------------------------------------------------
(* The inductive invariant                                                 *)

Holding == {"resolved", "masking"}

VaultInv == Bookkeeping /\ PooledIsAlive /\ CallsAreRecorded /\ IssuedIsRestorable

\* The calls that hold a remover after a step held the same one before it, with
\* the same record of what they masked.
NoNewHolder ==
    \A q \in Requests : req'[q].pc \in Holding =>
        /\ req[q].pc \in Holding
        /\ req'[q].id = req[q].id
        /\ req'[q].out = req[q].out

LEMMA EvictKeepsVaults ==
    ASSUME PoolInv, NEW S \in SUBSET pooled, Evict(S), NoNewHolder, UNCHANGED <<minted, issued>>
    PROVE  VaultInv'
<1>1. /\ pooled' = pooled \ S /\ retired' = retired \cup S
      /\ \A i \in VaultId : records'[i] = IF i \in S THEN {} ELSE records[i]
  BY DEF Evict
<1>2. pooled \subseteq VaultId
  BY DEF PoolInv, PoolTypeOK
<1>3. Bookkeeping'
  BY <1>1, <1>2 DEF PoolInv, Bookkeeping
<1>4. PooledIsAlive'
  BY <1>1 DEF PoolInv, PooledIsAlive
<1>5. CallsAreRecorded'
  BY <1>1, <1>2 DEF PoolInv, CallsAreRecorded, NoNewHolder, Holding
<1>6. IssuedIsRestorable'
  BY <1>1, <1>2 DEF PoolInv, IssuedIsRestorable
<1> QED BY <1>3, <1>4, <1>5, <1>6 DEF VaultInv

LEMMA CallsKeepVaults ==
    ASSUME PoolInv, NoNewHolder, UNCHANGED <<pooled, retired, records, minted, issued>>
    PROVE  VaultInv'
  BY DEF PoolInv, VaultInv, Bookkeeping, PooledIsAlive, CallsAreRecorded, IssuedIsRestorable,
         NoNewHolder, Holding

LEMMA AnswerIsNoHolder ==
    ASSUME PoolTypeOK, NEW r \in Requests, Answer(r)
    PROVE  NoNewHolder
  BY AnswerType, IdleCallType DEF NoNewHolder, Holding

LEMMA VaultStep ==
    ASSUME PoolInv, [PoolNext]_vaultPoolVars, TypeInv'
    PROVE  VaultInv'
<1> USE DEF poolVars
<1>t. /\ PoolTypeOK /\ req \in [Requests -> CallType] /\ minted \in Nat
      /\ pooled \subseteq VaultId
  BY DEF PoolInv, PoolTypeOK, CallType
<1>1. ASSUME NEW r \in Requests, NEW texts \in Batches, StartCreate(r, texts) PROVE VaultInv'
  <2>1. NoNewHolder
    BY <1>t, <1>1, IdleCallType DEF StartCreate, NoNewHolder, Holding, IdleCall
  <2>2. CASE Full /\ \E i \in pooled : IsOldest(i) /\ Evict({i})
    <3> PICK i \in pooled : Evict({i})
      BY <2>2
    <3> QED BY <1>1, <2>1, EvictKeepsVaults DEF StartCreate
  <2>3. CASE UNCHANGED <<pooled, lastAccess, retired, records>>
    BY <1>1, <2>1, <2>3, CallsKeepVaults DEF StartCreate
  <2> QED BY <1>1, <2>2, <2>3 DEF StartCreate
<1>2. ASSUME NEW r \in Requests, NEW tool \in Tool, NEW i \in VaultId,
             NEW texts \in Seq(SUBSET Values), StartExisting(r, tool, i, texts)
      PROVE VaultInv'
  <2>1. /\ req'[r].out = {}
        /\ \A q \in Requests \ {r} : req'[q] = req[q]
    BY <1>t, <1>2 DEF StartExisting, IdleCall
  <2>2. CallsAreRecorded'
    BY <1>2, <2>1 DEF PoolInv, StartExisting, CallsAreRecorded
  <2> QED BY <1>2, <2>2 DEF PoolInv, VaultInv, StartExisting, Bookkeeping, PooledIsAlive,
                            IssuedIsRestorable
<1>3. ASSUME NEW r \in Requests, NEW i \in VaultId, ResolveExpired(r, i) PROVE VaultInv'
  BY <1>3, EvictKeepsVaults DEF ResolveExpired, NoNewHolder
<1>4. ASSUME NEW r \in Requests, InitDone(r) PROVE VaultInv'
  <2>1. /\ minted' = minted + 1 /\ minted + 1 \in VaultId
        /\ pooled' = pooled \cup {minted + 1}
        /\ UNCHANGED <<retired, records, issued>>
    BY <1>4 DEF InitDone
  <2>2. /\ req'[r].id = minted + 1 /\ req'[r].out = req[r].out
        /\ \A q \in Requests \ {r} : req'[q] = req[q]
    BY <1>t, <1>4 DEF InitDone, CallType
  <2>3. Bookkeeping'
    BY <1>t, <2>1 DEF PoolInv, Bookkeeping
  <2>4. PooledIsAlive'
    BY <1>t, <2>1 DEF PoolInv, Bookkeeping, PooledIsAlive
  <2>5. req[r].out = {}
    BY <1>4 DEF PoolInv, IdsInUse, InitDone
  <2>6. CallsAreRecorded'
    BY <1>t, <2>1, <2>2, <2>5 DEF PoolInv, CallsAreRecorded, IdsInUse
  <2>7. IssuedIsRestorable'
    BY <1>t, <2>1 DEF PoolInv, Bookkeeping, IssuedIsRestorable
  <2> QED BY <2>3, <2>4, <2>6, <2>7 DEF VaultInv
<1>5. ASSUME NEW r \in Requests, InitFail(r) PROVE VaultInv'
  BY <1>t, <1>5, AnswerIsNoHolder, CallsKeepVaults DEF InitFail
<1>6. ASSUME NEW r \in Requests, BeginText(r) PROVE VaultInv'
  <2>1. NoNewHolder
    BY <1>t, <1>6 DEF BeginText, NoNewHolder, Holding, CallType
  <2> QED BY <1>6, <2>1, CallsKeepVaults DEF BeginText
<1>7. ASSUME NEW r \in Requests, EndText(r) PROVE VaultInv'
  <2> DEFINE i == req[r].id
             found == Head(req[r].texts)
  <2>1. /\ i \in 1 .. minted /\ i \in VaultId
        /\ UNCHANGED <<pooled, retired, minted, issued>>
    BY <1>t, <1>7, BoundsAssumption DEF PoolInv, EndText, IdsInUse, VaultId, PoolTypeOK
  <2>2. /\ records'[i] = records[i] \cup found
        /\ \A j \in VaultId \ {i} : records'[j] = records[j]
    BY <1>7, <2>1 DEF EndText, PoolInv, PoolTypeOK
  <2>3. /\ req'[r].id = i /\ req'[r].out = req[r].out \cup found
        /\ \A q \in Requests \ {r} : req'[q] = req[q]
        /\ req[r].pc = "masking"
    BY <1>t, <1>7 DEF EndText, CallType
  <2> HIDE DEF i, found
  <2>4. Bookkeeping'
    BY <2>1, <2>2 DEF PoolInv, Bookkeeping
  <2>5. CallsAreRecorded'
    <3> SUFFICES ASSUME NEW q \in Requests, req'[q].pc \in {"resolved", "masking"},
                        req'[q].id \in pooled'
                 PROVE  req'[q].out \subseteq records'[req'[q].id]
      BY DEF CallsAreRecorded
    <3>1. CASE q = r
      <4>1. req[r].out \subseteq records[i]
        BY <3>1, <2>1, <2>3 DEF PoolInv, CallsAreRecorded, i
      <4> QED BY <3>1, <4>1, <2>2, <2>3
    <3>2. CASE q # r
      <4>1. req'[q] = req[q] /\ req[q].id \in VaultId
        BY <3>2, <1>t, <2>1, <2>3
      <4>2. req[q].out \subseteq records[req[q].id]
        BY <4>1, <2>1 DEF PoolInv, CallsAreRecorded
      <4>3. records[req[q].id] \subseteq records'[req[q].id]
        BY <4>1, <2>2
      <4> QED BY <4>1, <4>2, <4>3
    <3> QED BY <3>1, <3>2
  <2>6. IssuedIsRestorable' /\ PooledIsAlive'
    BY <1>t, <2>1, <2>2 DEF PoolInv, IssuedIsRestorable, PooledIsAlive
  <2> QED BY <2>4, <2>5, <2>6 DEF VaultInv
<1>8. ASSUME NEW r \in Requests, MaskFail(r) PROVE VaultInv'
  BY <1>t, <1>8, AnswerIsNoHolder, CallsKeepVaults DEF MaskFail
<1>9. ASSUME NEW r \in Requests, CallOnDisposed(r) PROVE VaultInv'
  BY <1>t, <1>9, AnswerIsNoHolder, CallsKeepVaults DEF CallOnDisposed
<1>10. ASSUME NEW r \in Requests, Sanitized(r) PROVE VaultInv'
  <2>1. NoNewHolder
    BY <1>t, <1>10, AnswerIsNoHolder DEF Sanitized
  <2>2. /\ UNCHANGED <<pooled, retired, records, minted>>
        /\ issued' = issued \cup ({req[r].id} \X req[r].out)
        /\ req[r].pc = "resolved"
    BY <1>10 DEF Sanitized
  <2>3. req[r].id \in 1 .. minted
    BY <2>2 DEF PoolInv, IdsInUse
  <2>4. req[r].id \in pooled => req[r].out \subseteq records[req[r].id]
    BY <2>2 DEF PoolInv, CallsAreRecorded
  <2>5. \A p \in issued' : p \in issued \/ (p[1] = req[r].id /\ p[2] \in req[r].out)
    BY <2>2
  <2>6. Bookkeeping' /\ PooledIsAlive'
    BY <2>2, <2>3, <2>5 DEF PoolInv, Bookkeeping, PooledIsAlive
  <2>7. CallsAreRecorded'
    BY <2>1, <2>2 DEF PoolInv, CallsAreRecorded, NoNewHolder, Holding
  <2>8. IssuedIsRestorable'
    BY <2>2, <2>4, <2>5 DEF PoolInv, IssuedIsRestorable
  <2> QED BY <2>6, <2>7, <2>8 DEF VaultInv
<1>11. ASSUME NEW r \in Requests, Desanitize(r) PROVE VaultInv'
  BY <1>t, <1>11, AnswerIsNoHolder, CallsKeepVaults DEF Desanitize
<1>12. CASE Tick
  BY <1>12, CallsKeepVaults DEF Tick, NoNewHolder
<1>13. CASE Sweep
  BY <1>13, EvictKeepsVaults DEF Sweep, NoNewHolder
<1>14. ASSUME NEW i \in VaultId, DisposeOf(i) PROVE VaultInv'
  BY <1>14, EvictKeepsVaults DEF DisposeOf, NoNewHolder
<1>15. CASE Shutdown
  BY <1>15, EvictKeepsVaults DEF Shutdown, NoNewHolder
<1>16. CASE UNCHANGED vaultPoolVars
  BY <1>16, CallsKeepVaults DEF vaultPoolVars, NoNewHolder
<1>17. /\ \A texts \in Batches : texts \in Seq(SUBSET Values)
       /\ <<>> \in Seq(SUBSET Values)
       /\ "sanitize" \in Tool /\ "desanitize" \in Tool
  BY BatchAssumption DEF Tool
<1> QED
  BY <1>1, <1>2, <1>3, <1>4, <1>5, <1>6, <1>7, <1>8, <1>9, <1>10, <1>11, <1>12,
     <1>13, <1>14, <1>15, <1>16, <1>17 DEF PoolNext, ToolStep

LEMMA PoolInvInit == PoolInit => PoolInv
<1> SUFFICES ASSUME PoolInit PROVE PoolInv
  OBVIOUS
<1>1. PoolTypeOK /\ IdsInUse
  BY TypeInit DEF TypeInv
<1>2. /\ pooled = {} /\ retired = {} /\ issued = {} /\ minted = 0
      /\ \A i \in VaultId : records[i] = {}
  BY DEF PoolInit
<1> QED BY <1>1, <1>2 DEF PoolInv, Bookkeeping, PooledIsAlive, CallsAreRecorded, IssuedIsRestorable

LEMMA PoolInvStep == PoolInv /\ [PoolNext]_vaultPoolVars => PoolInv'
<1> SUFFICES ASSUME PoolInv, [PoolNext]_vaultPoolVars PROVE PoolInv'
  OBVIOUS
<1>1. TypeInv'
  BY TypeStep DEF PoolInv, TypeInv
<1>2. VaultInv'
  BY <1>1, VaultStep
<1> QED BY <1>1, <1>2 DEF PoolInv, TypeInv, VaultInv

THEOREM PoolSafe == PoolSpec => []PoolInv
  BY PoolInvInit, PoolInvStep, PTL DEF PoolSpec

\* A vault the pool can hand out has not been disposed.
THEOREM PooledAreAlive == PoolSpec => []PooledIsAlive
<1>1. PoolInv => PooledIsAlive
  BY DEF PoolInv
<1> QED BY <1>1, PoolSafe, PTL

\* A token given to a client is restorable while its vault_id resolves.
THEOREM IssuedAreRestorable == PoolSpec => []IssuedIsRestorable
<1>1. PoolInv => IssuedIsRestorable
  BY DEF PoolInv
<1> QED BY <1>1, PoolSafe, PTL

-----------------------------------------------------------------------------
(* No revival, and the bound on the size                                   *)

\* What a step does to the pool: it removes vaults, or adds a fresh one.
LEMMA PoolChange ==
    ASSUME [PoolNext]_vaultPoolVars
    PROVE  \/ pooled' \subseteq pooled
           \/ pooled' = pooled \cup {minted + 1}
  BY DEF PoolNext, vaultPoolVars, ToolStep, poolVars, StartCreate, StartExisting, ResolveExpired, InitDone,
         InitFail, BeginText, EndText, MaskFail, CallOnDisposed, Sanitized, Desanitize, Tick,
         Sweep, DisposeOf, Shutdown, Evict

\* A vault_id that stopped resolving never resolves again.
THEOREM NoRevivalHolds == PoolSpec => NoRevival
<1>1. PoolInv /\ [PoolNext]_vaultPoolVars =>
        [\A i \in 1 .. minted : i \notin pooled => i \notin pooled']_vaultPoolVars
  <2> SUFFICES ASSUME PoolInv, [PoolNext]_vaultPoolVars, NEW i \in 1 .. minted, i \notin pooled
               PROVE  i \notin pooled'
    OBVIOUS
  <2>1. minted \in Nat
    BY DEF PoolInv, PoolTypeOK
  <2> QED BY <2>1, PoolChange
<1> QED BY <1>1, PoolSafe, PTL DEF PoolSpec, NoRevival

LEMMA PoolFinite ==
    ASSUME PoolTypeOK
    PROVE  /\ IsFiniteSet(pooled) /\ Cardinality(pooled) \in Nat
           /\ IsFiniteSet(Creating) /\ Cardinality(Creating) \in Nat
           /\ Cardinality(Creating) <= Cardinality(Requests)
           /\ Cardinality(Requests) \in Nat
<1>1. IsFiniteSet(VaultId)
  BY FS_Interval, BoundsAssumption DEF VaultId
<1>2. pooled \in SUBSET VaultId /\ Creating \in SUBSET Requests
  BY DEF PoolTypeOK, Creating
<1>3. IsFiniteSet(pooled)
  BY <1>1, <1>2, FS_Subset
<1>4. IsFiniteSet(Creating) /\ Cardinality(Creating) <= Cardinality(Requests)
  BY <1>2, FS_Subset, RequestsAssumption
<1> QED BY <1>3, <1>4, FS_CardinalityType, RequestsAssumption

\* A step that starts or finishes no creation and adds no vault keeps the bound.
LEMMA ShrinkingKeepsBound ==
    ASSUME PoolTypeOK, Overshoot, pooled' \subseteq pooled, Creating' \subseteq Creating
    PROVE  Overshoot'
<1>1. Cardinality(pooled') <= Cardinality(pooled) /\ Cardinality(pooled') \in Nat
  BY PoolFinite, FS_Subset, FS_CardinalityType
<1>2. Cardinality(Creating') <= Cardinality(Creating) /\ Cardinality(Creating') \in Nat
  BY PoolFinite, FS_Subset, FS_CardinalityType
<1> QED BY <1>1, <1>2, PoolFinite, SizeAssumption DEF Overshoot

LEMMA OvershootStep == PoolTypeOK /\ PoolTypeOK' /\ Overshoot /\ [PoolNext]_vaultPoolVars => Overshoot'
<1> SUFFICES ASSUME PoolTypeOK, PoolTypeOK', Overshoot, [PoolNext]_vaultPoolVars PROVE Overshoot'
  OBVIOUS
<1> USE DEF poolVars
<1>t. req \in [Requests -> CallType]
  BY DEF PoolTypeOK, CallType
<1>1. ASSUME NEW r \in Requests, NEW texts \in Batches, StartCreate(r, texts) PROVE Overshoot'
  <2>1. r \notin Creating /\ Creating' = Creating \cup {r}
    BY <1>t, <1>1 DEF StartCreate, Creating, IdleCall
  <2>2. /\ Cardinality(Creating') = Cardinality(Creating) + 1
        /\ Cardinality(Creating') <= Cardinality(Requests)
    <3>1. Creating' \in SUBSET Requests
      BY DEF Creating
    <3> QED BY <2>1, <3>1, PoolFinite, FS_AddElement, FS_Subset, RequestsAssumption
  <2>3. CASE Full /\ \E i \in pooled : IsOldest(i) /\ Evict({i})
    <3> PICK i \in pooled : pooled' = pooled \ {i}
      BY <2>3 DEF Evict
    <3>1. Cardinality(pooled') = Cardinality(pooled) - 1
      BY PoolFinite, FS_RemoveElement
    <3> QED BY <2>2, <3>1, PoolFinite, SizeAssumption DEF Overshoot
  <2>4. CASE ~Full /\ pooled' = pooled
    BY <2>2, <2>4, PoolFinite, SizeAssumption DEF Overshoot, Full
  <2> QED BY <1>1, <2>3, <2>4 DEF StartCreate
<1>2. ASSUME NEW r \in Requests, InitDone(r) PROVE Overshoot'
  <2>1. r \in Creating /\ Creating' = Creating \ {r}
    BY <1>t, <1>2 DEF InitDone, Creating, CallType
  <2>2. Cardinality(Creating') = Cardinality(Creating) - 1
    BY <2>1, PoolFinite, FS_RemoveElement
  <2>3. pooled' = pooled \cup {minted + 1}
    BY <1>2 DEF InitDone
  <2>4. Cardinality(pooled') <= Cardinality(pooled) + 1 /\ Cardinality(pooled') \in Nat
    <3>1. /\ Cardinality(pooled \cup {minted + 1}) =
               IF minted + 1 \in pooled THEN Cardinality(pooled) ELSE Cardinality(pooled) + 1
      BY PoolFinite, FS_AddElement
    <3> QED BY <2>3, <3>1, PoolFinite
  <2> QED BY <2>2, <2>4, PoolFinite, SizeAssumption DEF Overshoot
<1>3. ASSUME pooled' \subseteq pooled,
             \A q \in Requests : req'[q].pc = "creating" => req[q].pc = "creating"
      PROVE  Overshoot'
  BY <1>3, ShrinkingKeepsBound DEF Creating
<1>4. ASSUME NEW r \in Requests, NEW tool \in Tool, NEW i \in VaultId, NEW texts,
             StartExisting(r, tool, i, texts)
      PROVE Overshoot'
  BY <1>t, <1>3, <1>4 DEF StartExisting, IdleCall
<1>5. ASSUME NEW r \in Requests,
             InitFail(r) \/ MaskFail(r) \/ CallOnDisposed(r) \/ Sanitized(r) \/ Desanitize(r)
      PROVE Overshoot'
  <2>1. Answer(r) /\ pooled' = pooled
    BY <1>5 DEF InitFail, MaskFail, CallOnDisposed, Sanitized, Desanitize
  <2> QED BY <2>1, <1>3, AnswerType, IdleCallType
<1>6. ASSUME NEW r \in Requests, BeginText(r) \/ EndText(r) PROVE Overshoot'
  BY <1>t, <1>3, <1>6 DEF BeginText, EndText, CallType
<1>7. ASSUME NEW r \in Requests, NEW i \in VaultId, ResolveExpired(r, i) PROVE Overshoot'
  BY <1>3, <1>7 DEF ResolveExpired, Evict
<1>8. ASSUME Tick \/ Sweep \/ (\E i \in VaultId : DisposeOf(i)) \/ Shutdown \/ UNCHANGED vaultPoolVars
      PROVE Overshoot'
  BY <1>3, <1>8 DEF Tick, Sweep, DisposeOf, Shutdown, Evict, vaultPoolVars
<1>9. "sanitize" \in Tool /\ "desanitize" \in Tool
  BY DEF Tool
<1> QED
  BY <1>1, <1>2, <1>4, <1>5, <1>6, <1>7, <1>8, <1>9 DEF PoolNext, ToolStep

\* However many creations overlap and for however long the pool runs, it holds
\* at most MaxSize - 1 vaults more than there are calls in progress.
THEOREM PoolIsBounded == PoolSpec => []Overshoot
<1>1. PoolInit => Overshoot
  <2> SUFFICES ASSUME PoolInit PROVE Overshoot
    OBVIOUS
  <2>1. pooled = {} /\ Creating = {}
    <3>1. \A r \in Requests : req[r].pc = "idle"
      BY IdleCallType DEF PoolInit
    <3> QED BY <3>1 DEF PoolInit, Creating
  <2>2. Cardinality(pooled) = 0 /\ Cardinality(Creating) = 0
    BY <2>1, FS_EmptySet
  <2>3. Cardinality(Requests) \in Nat
    BY FS_CardinalityType, RequestsAssumption
  <2> QED BY <2>2, <2>3, SizeAssumption DEF Overshoot
<1> QED BY <1>1, OvershootStep, TypeCorrect, PTL DEF PoolSpec

-----------------------------------------------------------------------------
(* Last use decides who stays                                              *)

\* A vault is given up for room only by the head of resolve(), and served only by a
\* resolve() that finds it fresh.
LEMMA OnlyResolveBegins ==
    ASSUME PoolTypeOK, PoolNext, NEW r \in Requests, req[r].pc = "idle"
    PROVE  /\ req'[r].pc = "creating" => \E texts \in Batches : StartCreate(r, texts)
           /\ req'[r].pc = "resolved" =>
                 \E tool \in Tool, i \in VaultId, texts \in Seq(SUBSET Values) :
                    StartExisting(r, tool, i, texts)
<1> DEFINE Same == req'[r].pc = "idle"
<1>1. req \in [Requests -> CallType] /\ IdleCall.pc = "idle"
  BY IdleCallType DEF PoolTypeOK, CallType
<1>2. ASSUME NEW q \in Requests, NEW texts \in Batches, StartCreate(q, texts)
      PROVE  (req'[r].pc = "creating" /\ q = r) \/ Same
  BY <1>1, <1>2 DEF StartCreate, IdleCall
<1>3. ASSUME NEW q \in Requests, NEW tool, NEW i \in VaultId, NEW texts, StartExisting(q, tool, i, texts)
      PROVE  (req'[r].pc = "resolved" /\ q = r) \/ Same
  BY <1>1, <1>3 DEF StartExisting, IdleCall
<1>4. ASSUME NEW q \in Requests, NEW i \in VaultId, ResolveExpired(q, i) PROVE Same
  BY <1>4 DEF ResolveExpired
<1>5. ASSUME NEW q \in Requests, ToolStep(q) PROVE Same
  BY <1>1, <1>5 DEF ToolStep, InitDone, InitFail, BeginText, EndText, MaskFail, CallOnDisposed, Sanitized,
                    Desanitize, Answer
<1>6. ASSUME \/ \E i \in VaultId : DisposeOf(i)
             \/ Tick \/ Sweep \/ Shutdown
      PROVE  Same
  BY <1>6 DEF DisposeOf, Tick, Sweep, Shutdown
<1>7. /\ "sanitize" \in Tool /\ "desanitize" \in Tool
      /\ <<>> \in Seq(SUBSET Values)
      /\ Batches \subseteq Seq(SUBSET Values)
  BY BatchAssumption DEF Tool
<1>8. CASE \E q \in Requests, texts \in Batches : StartCreate(q, texts)
  BY <1>2, <1>8
<1>9. CASE \E q \in Requests, i \in VaultId, texts \in Batches : StartExisting(q, "sanitize", i, texts)
  BY <1>3, <1>7, <1>9
<1>10. CASE \E q \in Requests, i \in VaultId : StartExisting(q, "desanitize", i, <<>>)
  BY <1>3, <1>7, <1>10
<1> QED BY <1>4, <1>5, <1>6, <1>8, <1>9, <1>10 DEF PoolNext

\* A creation gives up a vault only if every vault it keeps has been used since, and no
\* call is served a vault past its time, whether or not the sweeper has been there.
THEOREM LastUseDecidesAlways == PoolSpec => LastUseDecides
<1> DEFINE Decides ==
        \A r \in Requests :
          /\ req[r].pc = "idle" /\ req'[r].pc = "creating" =>
                 \A i \in pooled \ pooled', j \in pooled' : lastAccess[j] >= lastAccess[i]
          /\ req[r].pc = "idle" /\ req'[r].pc = "resolved" =>
                 now - lastAccess[req'[r].id] <= Ttl
<1>1. PoolTypeOK /\ [PoolNext]_vaultPoolVars => [Decides]_vaultPoolVars
  <2> SUFFICES ASSUME PoolTypeOK, PoolNext, NEW r \in Requests, req[r].pc = "idle"
               PROVE  /\ req'[r].pc = "creating" =>
                           \A i \in pooled \ pooled', j \in pooled' : lastAccess[j] >= lastAccess[i]
                      /\ req'[r].pc = "resolved" => now - lastAccess[req'[r].id] <= Ttl
    OBVIOUS
  <2>1. lastAccess \in [VaultId -> Nat] /\ pooled \subseteq VaultId /\ now \in Nat
        /\ req \in [Requests -> CallType]
    BY DEF PoolTypeOK, CallType
  <2>2. ASSUME NEW texts \in Batches, StartCreate(r, texts), NEW i \in pooled \ pooled', NEW j \in pooled'
        PROVE  lastAccess[j] >= lastAccess[i]
    <3>1. PICK k \in pooled : IsOldest(k) /\ pooled' = pooled \ {k}
      BY <2>2 DEF StartCreate, Evict
    <3>2. i = k /\ j \in pooled
      BY <3>1, <2>2
    <3>3. lastAccess[i] \in Nat /\ lastAccess[j] \in Nat
      BY <2>1, <3>2
    <3> QED BY <3>1, <3>2, <3>3 DEF IsOldest
  <2>3. ASSUME NEW tool \in Tool, NEW i \in VaultId, NEW texts \in Seq(SUBSET Values),
               StartExisting(r, tool, i, texts)
        PROVE  now - lastAccess[req'[r].id] <= Ttl
    <3>1. req'[r].id = i
      BY <2>1, <2>3 DEF StartExisting, IdleCall
    <3>2. ~ (now - lastAccess[i] > Ttl)
      BY <2>3 DEF StartExisting, Expired
    <3>3. lastAccess[i] \in Nat /\ Ttl \in Nat
      BY <2>1, BoundsAssumption
    <3> QED BY <2>1, <3>1, <3>2, <3>3
  <2> QED BY <2>2, <2>3, OnlyResolveBegins
<1> QED BY <1>1, TypeCorrect, PTL DEF PoolSpec, LastUseDecides

-----------------------------------------------------------------------------
(* The pool implements the abstract store                                  *)

Contents == [i \in VaultId |-> IF i \in pooled THEN records[i] ELSE {}]

LEMMA EvictIsClose ==
    ASSUME PoolInv, NEW S \in SUBSET pooled, Evict(S), UNCHANGED <<minted, issued>>
    PROVE  Store!Close(S)
<1>1. /\ pooled' = pooled \ S
      /\ records' = [i \in VaultId |-> IF i \in S THEN {} ELSE records[i]]
  BY DEF Evict
<1>2. pooled \subseteq 1 .. minted /\ pooled \subseteq VaultId
  BY DEF PoolInv, Bookkeeping, PoolTypeOK
<1>3. ((1 .. minted) \ pooled)' = ((1 .. minted) \ pooled) \cup S
  BY <1>1, <1>2
<1>4. Contents' = [i \in VaultId |-> IF i \in S THEN {} ELSE Contents[i]]
  BY <1>1, <1>2 DEF Contents
<1> QED BY <1>1, <1>3, <1>4 DEF Store!Close, Contents

LEMMA PoolImplementsStep ==
    ASSUME PoolInv, [PoolNext]_vaultPoolVars
    PROVE  [Store!Next]_(Store!storeVars)
<1> USE DEF poolVars
<1>t. /\ PoolTypeOK /\ minted \in Nat /\ pooled \subseteq 1 .. minted /\ pooled \subseteq VaultId
      /\ 1 .. minted \subseteq VaultId
      /\ records \in [VaultId -> SUBSET Values]
  <2>1. PoolTypeOK /\ Bookkeeping
    BY DEF PoolInv
  <2> QED BY <2>1, BoundsAssumption DEF PoolTypeOK, VaultId, Bookkeeping
<1>s. ASSUME UNCHANGED <<pooled, records, minted, issued>>
      PROVE  UNCHANGED Store!storeVars
  BY <1>s DEF Store!storeVars
<1>c. ASSUME NEW S \in SUBSET pooled, Evict(S), UNCHANGED <<minted, issued>>
      PROVE  Store!Next
  BY <1>c, EvictIsClose DEF Store!Next
<1>1. ASSUME NEW r \in Requests, NEW texts \in Batches, StartCreate(r, texts)
      PROVE  [Store!Next]_(Store!storeVars)
  <2>1. CASE \E i \in pooled : Evict({i})
    BY <1>1, <1>c, <2>1 DEF StartCreate
  <2>2. CASE UNCHANGED <<pooled, lastAccess, retired, records>>
    BY <1>1, <1>s, <2>2 DEF StartCreate
  <2> QED BY <1>1, <2>1, <2>2 DEF StartCreate
<1>2. ASSUME NEW r \in Requests, InitDone(r)
      PROVE  [Store!Next]_(Store!storeVars)
  <2> DEFINE i == minted + 1
  <2>1. /\ minted' = i /\ i \in VaultId /\ pooled' = pooled \cup {i}
        /\ UNCHANGED <<records, issued>>
    BY <1>2 DEF InitDone
  <2>2. i \notin pooled /\ i \notin 1 .. minted
    BY <1>t
  <2>3. records[i] = {}
    BY <2>1, <2>2 DEF PoolInv, Bookkeeping
  <2>4. ((1 .. minted) \ pooled)' = (1 .. minted) \ pooled
    BY <1>t, <2>1
  <2>5. Contents' = Contents
    BY <1>t, <2>1, <2>3 DEF Contents
  <2>6. Store!Open(i)
    BY <2>1, <2>2, <2>4, <2>5 DEF Store!Open, Contents
  <2> QED BY <2>1, <2>6 DEF Store!Next
<1>3. ASSUME NEW r \in Requests, EndText(r)
      PROVE  [Store!Next]_(Store!storeVars)
  <2> DEFINE i == req[r].id
             found == Head(req[r].texts)
  <2>1. /\ records' = [records EXCEPT ![i] = @ \cup found]
        /\ UNCHANGED <<pooled, minted, issued>>
        /\ i \in VaultId
    BY <1>3, <1>t DEF EndText, PoolInv, IdsInUse
  <2>2. found \in SUBSET Values
    <3>1. req[r].texts \in Seq(SUBSET Values) /\ req[r].texts # <<>>
      BY <1>3 DEF PoolInv, PoolTypeOK, IdsInUse, EndText
    <3> QED BY <3>1
  <2> HIDE DEF i, found
  <2>3. CASE i \in pooled
    <3>1. Contents' = [Contents EXCEPT ![i] = @ \cup found]
      BY <1>t, <2>1, <2>3 DEF Contents
    <3>2. Store!Learn(i, found)
      BY <2>1, <2>3, <3>1 DEF Store!Learn, Contents
    <3>3. \E j \in VaultId, f \in SUBSET Values : Store!Learn(j, f)
      BY <2>1, <2>2, <3>2 DEF Store!Learn
    <3> QED BY <3>3 DEF Store!Next
  <2>4. CASE i \notin pooled
    <3>1. Contents' = Contents
      BY <1>t, <2>1, <2>4 DEF Contents
    <3> QED BY <2>1, <3>1 DEF Store!storeVars, Contents
  <2> QED BY <2>3, <2>4
<1>4. ASSUME NEW r \in Requests, Sanitized(r)
      PROVE  [Store!Next]_(Store!storeVars)
  <2> DEFINE i == req[r].id
             found == req[r].out
  <2>1. /\ UNCHANGED <<pooled, records, minted>>
        /\ issued' = issued \cup ({i} \X found)
        /\ req[r].pc = "resolved"
    BY <1>4 DEF Sanitized
  <2>2. /\ i \in 1 .. minted /\ i \in VaultId /\ found \in SUBSET Values
        /\ i \in pooled => found \subseteq records[i]
    BY <1>t, <2>1 DEF PoolInv, IdsInUse, CallsAreRecorded, PoolTypeOK
  <2> HIDE DEF i, found
  <2>3. Store!Promise(i, found)
    BY <1>t, <2>1, <2>2 DEF Store!Promise
  <2> QED BY <2>2, <2>3 DEF Store!Next
<1>5. ASSUME NEW r \in Requests, NEW tool, NEW i, NEW texts, StartExisting(r, tool, i, texts)
      PROVE  UNCHANGED Store!storeVars
  BY <1>5, <1>s DEF StartExisting
<1>6. ASSUME NEW r \in Requests,
             \/ InitFail(r) \/ MaskFail(r) \/ CallOnDisposed(r) \/ Desanitize(r) \/ BeginText(r)
      PROVE  UNCHANGED Store!storeVars
  BY <1>6, <1>s DEF InitFail, MaskFail, CallOnDisposed, Desanitize, BeginText
<1>7. ASSUME NEW r \in Requests, NEW i \in VaultId, ResolveExpired(r, i) PROVE Store!Next
  BY <1>7, <1>c DEF ResolveExpired
<1>8. ASSUME Sweep \/ Shutdown \/ \E i \in VaultId : DisposeOf(i) PROVE Store!Next
  BY <1>8, <1>c DEF Sweep, Shutdown, DisposeOf
<1>9. ASSUME Tick \/ UNCHANGED vaultPoolVars PROVE UNCHANGED Store!storeVars
  BY <1>9, <1>s DEF Tick, vaultPoolVars
<1> QED
  BY <1>1, <1>2, <1>3, <1>4, <1>5, <1>6, <1>7, <1>8, <1>9 DEF PoolNext, ToolStep

\* The pool and its tools implement the abstract store of vaults.
THEOREM PoolImplementsStore == PoolSpec => ImplementsStore
<1>1. PoolInit => Store!Init
  <2> SUFFICES ASSUME PoolInit PROVE Store!Init
    OBVIOUS
  <2>1. pooled = {} /\ issued = {} /\ minted = 0
    BY DEF PoolInit
  <2>2. (1 .. minted) \ pooled = {}
    BY <2>1
  <2>3. [i \in VaultId |-> IF i \in pooled THEN records[i] ELSE {}] = [i \in VaultId |-> {}]
    BY <2>1
  <2> QED BY <2>1, <2>2, <2>3 DEF Store!Init
<1>2. PoolInv /\ [PoolNext]_vaultPoolVars => [Store!Next]_(Store!storeVars)
  BY PoolImplementsStep
<1> QED BY <1>1, <1>2, PoolSafe, PTL DEF PoolSpec, ImplementsStore, Store!Spec

-----------------------------------------------------------------------------
(* The threads of the backend's proxy                                      *)

\* Where a thread works on a text; where it has a vault; where nothing goes on.
Filling == {"indexing", "iterating", "minting"}
Masking == {"detecting", "assigning", "creating"} \cup Filling
AtRest == {"idle", "failed", "answered"}

Entries == UNION {[tokens -> PortSurfaces] : tokens \in SUBSET Tokens}

PortRecords ==
    [pc : Masking \cup {"masked", "asked"} \cup AtRest,
     session : PortSessions \cup {"none"}, body : Seq(Seq(PortSurfaces)),
     at : Nat, left : Seq(PortSurfaces), vault : Nat, seen : Nat, known : SUBSET Tokens,
     sent : SUBSET Tokens, shown : SUBSET (Tokens \X SUBSET PortSurfaces),
     why : {"none", "detection", "iteration", "limit"}]

PortTypeOK ==
    /\ vaultOf \in [PortSessions -> Nat]
    /\ contents \in Seq(Entries)
    /\ \A v \in DOMAIN contents : IsFiniteSet(DOMAIN contents[v])
    /\ port \in [PortRequests -> PortRecords]
    /\ running \in BOOLEAN
    /\ given \subseteq PortSessions \X Tokens

\* A vault is of one session at most, and its entries say what that session has said.
VaultsInv ==
    /\ \A s \in PortSessions : vaultOf[s] = NoVault \/ vaultOf[s] \in DOMAIN contents
    /\ \A s, t \in PortSessions : vaultOf[s] = vaultOf[t] /\ vaultOf[s] # NoVault => s = t
    /\ \A s \in PortSessions : vaultOf[s] # NoVault =>
           \A t \in DOMAIN contents[vaultOf[s]] : <<s, contents[vaultOf[s]][t]>> \in said
    /\ EntriesKeepTheirForm

IsHeld(s, t) == vaultOf[s] # NoVault /\ t \in DOMAIN contents[vaultOf[s]]

FormsTo(n, body) == UNION {Forms(body[i]) : i \in 1 .. n}

\* What has been masked of a request: nothing, the texts before the present one, or all.
TextInv(r) ==
    /\ port[r].pc = "idle" => port[r] = NoRequest
    /\ port[r].pc \notin {"idle", "answered"} => port[r].session \in PortSessions
    /\ port[r].pc \in Masking =>
           /\ port[r].at \in 1 .. Len(port[r].body)
           /\ port[r].sent = FormsTo(port[r].at - 1, port[r].body)
    /\ port[r].pc \in {"masked", "asked", "answered"} =>
           port[r].sent = FormsTo(Len(port[r].body), port[r].body)
    /\ port[r].pc \notin {"asked", "answered"} => port[r].shown = {}
    /\ \A i \in DOMAIN port[r].body : \A j \in DOMAIN port[r].body[i] :
           <<port[r].session, port[r].body[i][j]>> \in said

\* The vault a thread is at is its session's, unless another thread has replaced it.
HoldInv(r) ==
    port[r].pc \in Filling =>
        /\ port[r].vault \in DOMAIN contents
        /\ port[r].session \notin replaced => vaultOf[port[r].session] = port[r].vault
        /\ \A s \in PortSessions : vaultOf[s] = port[r].vault => s = port[r].session

\* What is not entered yet of a text is still to be.
MintInv(r) ==
    /\ port[r].pc \in Masking \ {"detecting", "minting"} => port[r].left = Current(r)
    /\ port[r].pc = "minting" =>
           /\ port[r].known \subseteq DOMAIN contents[port[r].vault]
           /\ Forms(Current(r)) \subseteq port[r].known \cup Forms(port[r].left)
           /\ \A j \in DOMAIN port[r].left : <<port[r].session, port[r].left[j]>> \in said

\* What is masked is in the vault until the request ends.
SentInv(r) ==
    port[r].pc \notin AtRest /\ port[r].session \notin replaced =>
        \A t \in port[r].sent : IsHeld(port[r].session, t)

ShownInv(r) ==
    \A p \in port[r].shown :
        /\ \A surface \in p[2] : <<port[r].session, surface>> \in said
        /\ p[1] \in port[r].sent /\ port[r].session \notin replaced =>
               \E surface \in p[2] : PortForm[surface] = p[1]

RequestInv(r) == TextInv(r) /\ HoldInv(r) /\ MintInv(r) /\ SentInv(r) /\ ShownInv(r)

ThreadsInv ==
    /\ PortTypeOK
    /\ VaultsInv
    /\ GivenIsHeld
    /\ \A r \in PortRequests : RequestInv(r)
    /\ running \/ \A r \in PortRequests : port[r].pc \in AtRest

\* What a thread may do to what threads share: vaults grow, and a session that gets a
\* new one had none, or is known to have lost it.
Grows ==
    /\ DOMAIN contents \subseteq DOMAIN contents'
    /\ \A v \in DOMAIN contents : DOMAIN contents[v] \subseteq DOMAIN contents'[v]
    /\ said \subseteq said' /\ replaced \subseteq replaced'
    /\ \A s \in PortSessions :
           \/ vaultOf'[s] = vaultOf[s]
           \/ /\ vaultOf'[s] \notin DOMAIN contents
              /\ vaultOf[s] = NoVault \/ s \in replaced'

LEMMA NoVaultIsNone == ASSUME PortTypeOK PROVE NoVault \notin DOMAIN contents
  BY DEF PortTypeOK, NoVault

\* A request keeps what it has, whatever another thread does.
LEMMA OthersKeep ==
    ASSUME PortTypeOK, VaultsInv, Grows, NEW r \in PortRequests, port'[r] = port[r], RequestInv(r)
    PROVE  RequestInv(r)'
<1>1. TextInv(r)'
  BY DEF RequestInv, TextInv, Grows, Forms, FormsTo
<1>2. HoldInv(r)'
  <2> SUFFICES ASSUME port[r].pc \in Filling
               PROVE  /\ port[r].vault \in DOMAIN contents'
                      /\ port[r].session \notin replaced' => vaultOf'[port[r].session] = port[r].vault
                      /\ \A s \in PortSessions : vaultOf'[s] = port[r].vault => s = port[r].session
    BY DEF HoldInv
  <2>1. /\ port[r].vault \in DOMAIN contents
        /\ port[r].session \notin replaced => vaultOf[port[r].session] = port[r].vault
        /\ \A s \in PortSessions : vaultOf[s] = port[r].vault => s = port[r].session
    BY DEF RequestInv, HoldInv
  <2>2. port[r].session \in PortSessions
    BY DEF RequestInv, TextInv, Filling
  <2> QED BY <2>1, <2>2, NoVaultIsNone DEF Grows
<1>3. MintInv(r)'
  <2>1. port[r].pc = "minting" => port[r].vault \in DOMAIN contents
    BY DEF RequestInv, HoldInv, Filling
  <2> QED BY <2>1 DEF RequestInv, MintInv, Grows, Forms, Current
<1>4. SentInv(r)'
  <2> SUFFICES ASSUME port[r].pc \notin AtRest, port[r].session \notin replaced', NEW t \in port[r].sent
               PROVE  vaultOf'[port[r].session] # NoVault /\ t \in DOMAIN contents'[vaultOf'[port[r].session]]
    BY DEF SentInv, IsHeld
  <2>1. port[r].session \in PortSessions
    BY DEF RequestInv, TextInv, AtRest
  <2>2. vaultOf[port[r].session] # NoVault /\ t \in DOMAIN contents[vaultOf[port[r].session]]
    BY DEF RequestInv, SentInv, IsHeld, Grows
  <2> QED BY <2>1, <2>2 DEF Grows, VaultsInv
<1>5. ShownInv(r)'
  BY DEF RequestInv, ShownInv, Grows
<1> QED BY <1>1, <1>2, <1>3, <1>4, <1>5 DEF RequestInv

\* What an upstream was sent stays held.
LEMMA GivenStaysHeld ==
    ASSUME PortTypeOK, VaultsInv, Grows, GivenIsHeld, given' = given, running' = running
    PROVE  GivenIsHeld'
<1> SUFFICES ASSUME NEW p \in given, running, p[1] \notin replaced'
             PROVE  vaultOf'[p[1]] # NoVault /\ p[2] \in DOMAIN contents'[vaultOf'[p[1]]]
  BY DEF GivenIsHeld
<1>1. p[1] \in PortSessions
  BY DEF PortTypeOK
<1>2. vaultOf[p[1]] # NoVault /\ p[2] \in DOMAIN contents[vaultOf[p[1]]]
  BY DEF GivenIsHeld, Grows
<1> QED BY <1>1, <1>2 DEF Grows, VaultsInv

\* Most steps of a thread leave alone what threads share.
LEMMA NothingSharedGrows ==
    ASSUME PortTypeOK, VaultsInv, NothingShared
    PROVE  Grows /\ VaultsInv'
<1>1. Grows
  BY DEF NothingShared, Grows
<1>2. VaultsInv'
  BY DEF NothingShared, VaultsInv, EntriesKeepTheirForm
<1> QED BY <1>1, <1>2

\* An entry more, of the right form, keeps the entries sound.
LEMMA WithType ==
    ASSUME NEW entries \in Entries, IsFiniteSet(DOMAIN entries), NEW surface \in PortSurfaces
    PROVE  LET more == With(entries, PortForm[surface], surface) IN
           /\ more \in Entries /\ IsFiniteSet(DOMAIN more)
           /\ DOMAIN more = DOMAIN entries \cup {PortForm[surface]}
           /\ \A t \in DOMAIN more : more[t] = IF t = PortForm[surface] THEN surface ELSE entries[t]
<1> DEFINE more == With(entries, PortForm[surface], surface)
<1>1. PortForm[surface] \in Tokens
  BY PortAssumption DEF Tokens, Range
<1>2. DOMAIN more = DOMAIN entries \cup {PortForm[surface]}
  BY DEF With
<1>3. IsFiniteSet(DOMAIN more)
  BY <1>2, FS_AddElement
<1>4. more \in [DOMAIN more -> PortSurfaces]
  BY <1>2 DEF With, Entries
<1>5. DOMAIN more \in SUBSET Tokens
  BY <1>1, <1>2 DEF Entries
<1>6. more \in Entries
  BY <1>4, <1>5 DEF Entries
<1>7. \A t \in DOMAIN more : more[t] = IF t = PortForm[surface] THEN surface ELSE entries[t]
  BY <1>2 DEF With
<1> QED BY <1>2, <1>3, <1>6, <1>7

\* A new vault is empty.
LEMMA NewVaultType ==
    /\ <<>> \in Entries /\ DOMAIN <<>> = {} /\ IsFiniteSet(DOMAIN <<>>)
<1>1. DOMAIN <<>> = {}
  OBVIOUS
<1>2. <<>> \in [{} -> PortSurfaces]
  OBVIOUS
<1> QED BY <1>1, <1>2, FS_EmptySet DEF Entries

\* The forms of a text are tokens.
LEMMA FormsType == ASSUME NEW text \in Seq(PortSurfaces) PROVE Forms(text) \subseteq Tokens
  BY PortAssumption DEF Forms, Tokens, Range

LEMMA LookedType ==
    ASSUME PortTypeOK, NEW s \in PortSessions, vaultOf[s] = NoVault \/ vaultOf[s] \in DOMAIN contents, NEW t
    PROVE  Looked(s, t) \subseteq PortSurfaces
  BY DEF Looked, PortTypeOK, Entries

\* What a thread reads when it works on a text.
LEMMA AtWork ==
    ASSUME PortTypeOK, NEW r \in PortRequests, RequestInv(r), port[r].pc \in Masking
    PROVE  /\ port[r].session \in PortSessions
           /\ port[r].at \in DOMAIN port[r].body
           /\ Current(r) \in Seq(PortSurfaces)
           /\ port[r].pc \in Filling => /\ port[r].vault \in DOMAIN contents
                                        /\ Held(r) \in Entries /\ Size(r) \in Nat
<1>1. port[r] \in PortRecords
  BY DEF PortTypeOK
<1>2. port[r].session \in PortSessions /\ port[r].at \in DOMAIN port[r].body
  BY <1>1 DEF RequestInv, TextInv, PortRecords, Masking, Filling
<1>3. Current(r) \in Seq(PortSurfaces)
  BY <1>1, <1>2 DEF Current, PortRecords
<1>4. ASSUME port[r].pc \in Filling
      PROVE  port[r].vault \in DOMAIN contents /\ Held(r) \in Entries /\ Size(r) \in Nat
  <2>1. port[r].vault \in DOMAIN contents
    BY <1>4 DEF RequestInv, HoldInv
  <2>2. Held(r) \in Entries /\ IsFiniteSet(DOMAIN Held(r))
    BY <2>1 DEF Held, PortTypeOK
  <2> QED BY <2>1, <2>2, FS_CardinalityType DEF Size
<1> QED BY <1>2, <1>3, <1>4

LEMMA FailsType ==
    ASSUME PortTypeOK, NEW r \in PortRequests, NEW why \in {"detection", "iteration", "limit"}, Fails(r, why)
    PROVE  port' \in [PortRequests -> PortRecords]
<1>1. port[r] \in PortRecords
  BY DEF PortTypeOK
<1> QED BY <1>1 DEF Fails, PortTypeOK, PortRecords, AtRest

LEMMA FollowType ==
    ASSUME PortTypeOK, NEW r \in PortRequests, NEW sent \in SUBSET Tokens, Follow(r, sent)
    PROVE  port' \in [PortRequests -> PortRecords]
<1>1. port[r].at + 1 \in Nat
  BY DEF PortTypeOK, PortRecords
<1> QED BY <1>1 DEF Follow, PortTypeOK, PortRecords, Masking

LEMMA PortTypeStep ==
    ASSUME PortTypeOK, VaultsInv, NEW r \in PortRequests, RequestInv(r), PortStep(r)
    PROVE  PortTypeOK'
<1>1. port[r] \in PortRecords
  BY DEF PortTypeOK
<1>2. ASSUME port' \in [PortRequests -> PortRecords], UNCHANGED <<vaultOf, contents, running>>,
             given' \subseteq PortSessions \X Tokens
      PROVE  PortTypeOK'
  BY <1>2 DEF PortTypeOK
<1>3. CASE Arrive(r)
  <2>1. CASE Goes(r, "answered")
    <3>1. port' \in [PortRequests -> PortRecords]
      BY <1>1, <2>1 DEF Goes, PortTypeOK, PortRecords, AtRest
    <3> QED BY <1>2, <1>3, <3>1 DEF Arrive, PortTypeOK
  <2>2. ASSUME NEW s \in PortSessions, NEW body \in PortBodies,
               port' = [port EXCEPT ![r].pc = "detecting", ![r].session = s, ![r].body = body]
        PROVE  PortTypeOK'
    <3>1. body \in Seq(Seq(PortSurfaces))
      BY PortAssumption
    <3>2. port' \in [PortRequests -> PortRecords]
      BY <1>1, <2>2, <3>1 DEF PortTypeOK, PortRecords, Masking
    <3> QED BY <1>2, <1>3, <3>2 DEF Arrive, PortTypeOK
  <2> QED BY <1>3, <2>1, <2>2 DEF Arrive
<1>4. CASE Detects(r)
  <2>1. port[r].pc \in Masking
    BY <1>4 DEF Detects, Masking
  <2>2. Current(r) \in Seq(PortSurfaces) /\ port[r].sent \subseteq Tokens
    BY <1>1, <2>1, AtWork DEF PortRecords
  <2>3. port' \in [PortRequests -> PortRecords]
    <3>1. CASE Fails(r, "detection")
      BY <3>1, FailsType
    <3>2. CASE Follow(r, port[r].sent)
      BY <2>2, <3>2, FollowType
    <3>3. CASE port' = [port EXCEPT ![r].pc = "assigning", ![r].left = Current(r)]
      BY <1>1, <2>2, <3>3 DEF PortTypeOK, PortRecords, Masking
    <3> QED BY <1>4, <3>1, <3>2, <3>3 DEF Detects
  <2> QED BY <1>2, <1>4, <2>3 DEF Detects, NothingShared, PortTypeOK
<1>5. CASE FindsVault(r)
  <2>1. port[r].session \in PortSessions
    BY <1>5, AtWork DEF FindsVault, Masking
  <2>2. vaultOf[port[r].session] \in Nat
    BY <2>1 DEF PortTypeOK
  <2>3. port' \in [PortRequests -> PortRecords]
    BY <1>1, <1>5, <2>2 DEF FindsVault, PortTypeOK, PortRecords, Masking, Filling
  <2> QED BY <1>2, <1>5, <2>3 DEF FindsVault, NothingShared, PortTypeOK
<1>6. CASE CreatesVault(r)
  <2>1. /\ Len(contents) \in Nat
        /\ contents' \in Seq(Entries)
        /\ DOMAIN contents' = 1 .. Len(contents) + 1
        /\ \A v \in DOMAIN contents : contents'[v] = contents[v]
        /\ contents'[Len(contents) + 1] = <<>>
    BY <1>6, NewVaultType DEF CreatesVault, PortTypeOK
  <2>2. \A v \in DOMAIN contents' : IsFiniteSet(DOMAIN contents'[v])
    BY <2>1, NewVaultType DEF PortTypeOK
  <2>3. port' \in [PortRequests -> PortRecords]
    <3>1. port' = [port EXCEPT ![r].pc = "indexing", ![r].vault = Len(contents) + 1]
      BY <1>6 DEF CreatesVault
    <3>2. Len(contents) + 1 \in Nat
      BY <2>1
    <3> QED BY <1>1, <3>1, <3>2 DEF PortTypeOK, PortRecords, Masking, Filling
  <2>4. vaultOf' \in [PortSessions -> Nat]
    <3>1. vaultOf' = [vaultOf EXCEPT ![port[r].session] = Len(contents) + 1]
      BY <1>6 DEF CreatesVault
    <3>2. Len(contents) + 1 \in Nat
      BY <2>1
    <3> QED BY <3>1, <3>2 DEF PortTypeOK
  <2>5. running' = running /\ given' = given
    BY <1>6 DEF CreatesVault
  <2> QED BY <2>1, <2>2, <2>3, <2>4, <2>5 DEF PortTypeOK
<1>7. CASE IndexBegins(r)
  <2>1. Size(r) \in Nat
    BY <1>7, AtWork DEF IndexBegins, Masking, Filling
  <2>2. port' \in [PortRequests -> PortRecords]
    BY <1>1, <1>7, <2>1 DEF IndexBegins, PortTypeOK, PortRecords, Masking, Filling
  <2> QED BY <1>2, <1>7, <2>2 DEF IndexBegins, NothingShared, PortTypeOK
<1>8. CASE IndexEnds(r)
  <2>1. port[r].pc \in Masking /\ port[r].pc \in Filling
    BY <1>8 DEF IndexEnds, Masking, Filling
  <2>2. DOMAIN Held(r) \subseteq Tokens
    BY <2>1, AtWork DEF Entries
  <2>3. port' \in [PortRequests -> PortRecords]
    <3>1. CASE Fails(r, "iteration")
      BY <3>1, FailsType
    <3>2. CASE port' = [port EXCEPT ![r].pc = "minting", ![r].known = DOMAIN Held(r)]
      BY <1>1, <2>2, <3>2 DEF PortTypeOK, PortRecords, Masking, Filling
    <3> QED BY <1>8, <3>1, <3>2 DEF IndexEnds
  <2> QED BY <1>2, <1>8, <2>3 DEF IndexEnds, NothingShared, PortTypeOK
<1>9. CASE Mints(r)
  <2> DEFINE surface == Head(port[r].left)
  <2>1. port[r].pc \in Masking /\ port[r].pc \in Filling
    BY <1>9 DEF Mints, Masking, Filling
  <2>2. surface \in PortSurfaces /\ Tail(port[r].left) \in Seq(PortSurfaces)
    BY <1>1, <1>9 DEF Mints, PortRecords
  <2>3. PortForm[surface] \in Tokens
    BY <2>2, PortAssumption DEF Tokens, Range
  <2>4. port' \in [PortRequests -> PortRecords]
    <3>1. port' = [port EXCEPT ![r].left = Tail(@), ![r].known = @ \cup {PortForm[surface]}]
      BY <1>9 DEF Mints
    <3> HIDE DEF surface
    <3> QED BY <1>1, <2>2, <2>3, <3>1 DEF PortTypeOK, PortRecords
  <2>5. port[r].vault \in DOMAIN contents /\ Held(r) \in Entries /\ IsFiniteSet(DOMAIN Held(r))
    BY <2>1, AtWork DEF PortTypeOK, Held
  <2>6. Minted(r, surface) \in Entries /\ IsFiniteSet(DOMAIN Minted(r, surface))
    BY <2>2, <2>5, WithType DEF Minted
  <2>7. /\ contents' \in Seq(Entries)
        /\ \A v \in DOMAIN contents' : IsFiniteSet(DOMAIN contents'[v])
    BY <1>9, <2>5, <2>6 DEF Mints, PortTypeOK
  <2> QED BY <1>9, <2>4, <2>7 DEF Mints, PortTypeOK
<1>10. CASE Assigned(r)
  <2>1. port[r].pc \in Masking
    BY <1>10 DEF Assigned, Masking, Filling
  <2>2. Forms(Current(r)) \subseteq Tokens
    BY <2>1, AtWork, FormsType
  <2>3. port' \in [PortRequests -> PortRecords]
    <3>1. CASE Fails(r, "limit")
      BY <3>1, FailsType
    <3>2. CASE Follow(r, port[r].sent \cup Forms(Current(r)))
      <4>1. port[r].sent \cup Forms(Current(r)) \in SUBSET Tokens
        BY <1>1, <2>2 DEF PortRecords
      <4> QED BY <3>2, <4>1, FollowType
    <3> QED BY <1>10, <3>1, <3>2 DEF Assigned
  <2> QED BY <1>2, <1>10, <2>3 DEF Assigned, NothingShared, PortTypeOK
<1>11. CASE SendsUpstream(r)
  <2>1. port' \in [PortRequests -> PortRecords]
    BY <1>1, <1>11 DEF SendsUpstream, Goes, PortTypeOK, PortRecords
  <2>2. port[r].session \in PortSessions /\ port[r].sent \subseteq Tokens
    BY <1>1, <1>11 DEF SendsUpstream, Returned, RequestInv, TextInv, PortRecords
  <2> QED BY <1>2, <1>11, <2>1, <2>2 DEF SendsUpstream, PortTypeOK
<1>12. CASE Restores(r)
  <2>1. port[r].session \in PortSessions
    BY <1>12 DEF Restores, RequestInv, TextInv
  <2>2. \A t : Looked(port[r].session, t) \subseteq PortSurfaces
    BY <2>1, LookedType DEF VaultsInv
  <2>3. PICK t \in Tokens :
            port' = [port EXCEPT ![r].shown = @ \cup {<<t, Looked(port[r].session, t)>>}]
    BY <1>12 DEF Restores
  <2>4. port[r].shown \cup {<<t, Looked(port[r].session, t)>>} \subseteq Tokens \X SUBSET PortSurfaces
    BY <1>1, <2>2 DEF PortRecords
  <2>5. port' \in [PortRequests -> PortRecords]
    BY <1>1, <2>3, <2>4 DEF PortTypeOK, PortRecords
  <2> QED BY <1>2, <1>12, <2>5 DEF Restores, NothingShared, PortTypeOK
<1>13. CASE Answers(r)
  <2>1. port' \in [PortRequests -> PortRecords]
    BY <1>1, <1>13 DEF Answers, Goes, PortTypeOK, PortRecords, AtRest
  <2> QED BY <1>2, <1>13, <2>1 DEF Answers, NothingShared, PortTypeOK
<1> QED BY <1>3, <1>4, <1>5, <1>6, <1>7, <1>8, <1>9, <1>10, <1>11, <1>12, <1>13 DEF PortStep

LEMMA OthersUntouched ==
    ASSUME PortTypeOK, NEW r \in PortRequests, PortStep(r), NEW q \in PortRequests, q # r
    PROVE  port'[q] = port[q]
  BY DEF PortStep, Arrive, Detects, FindsVault, CreatesVault, IndexBegins, IndexEnds, Mints,
         Assigned, SendsUpstream, Restores, Answers, Goes, Fails, Follow, PortTypeOK

\* The texts masked so far, and one more.
LEMMA FormsToNext ==
    ASSUME NEW body, NEW n \in Nat \ {0}
    PROVE  FormsTo(n, body) = FormsTo(n - 1, body) \cup Forms(body[n])
<1>1. 1 .. n = (1 .. n - 1) \cup {n}
  OBVIOUS
<1> QED BY <1>1 DEF FormsTo

LEMMA FormsToNone == ASSUME NEW body PROVE FormsTo(0, body) = {}
  BY DEF FormsTo

\* A request that fails has shown nothing and holds nothing.
LEMMA FailsKeeps ==
    ASSUME PortTypeOK, NEW r \in PortRequests, RequestInv(r), port[r].pc \in Masking, NEW why,
           Fails(r, why), NothingShared
    PROVE  RequestInv(r)'
<1>1. port[r] \in PortRecords
  BY DEF PortTypeOK
<1>2. port'[r] = [port[r] EXCEPT !.pc = "failed", !.why = why]
  BY DEF Fails, PortTypeOK
<1>3. /\ port'[r].pc = "failed" /\ port'[r].shown = port[r].shown
      /\ port'[r].session = port[r].session /\ port'[r].body = port[r].body
  BY <1>1, <1>2 DEF PortRecords
<1>4. /\ port[r].session \in PortSessions /\ port[r].shown = {}
      /\ \A i \in DOMAIN port[r].body : \A j \in DOMAIN port[r].body[i] :
             <<port[r].session, port[r].body[i][j]>> \in said
  BY DEF RequestInv, TextInv, Masking, Filling
<1>5. TextInv(r)'
  BY <1>3, <1>4 DEF TextInv, NothingShared, Masking, Filling
<1>6. HoldInv(r)' /\ MintInv(r)' /\ SentInv(r)' /\ ShownInv(r)'
  BY <1>3, <1>4 DEF HoldInv, MintInv, SentInv, ShownInv, Masking, Filling, AtRest
<1> QED BY <1>5, <1>6 DEF RequestInv

\* A thread that is done with a text goes on to the next, or ends.
LEMMA FollowKeeps ==
    ASSUME PortTypeOK, NEW r \in PortRequests, RequestInv(r), port[r].pc \in Masking, NEW sent,
           Follow(r, sent), NothingShared,
           sent = port[r].sent \cup Forms(Current(r)),
           port[r].session \notin replaced => \A t \in sent : IsHeld(port[r].session, t)
    PROVE  RequestInv(r)'
<1>1. port[r] \in PortRecords
  BY DEF PortTypeOK
<1>2. port'[r] = [port[r] EXCEPT !.pc = IF port[r].at = Len(port[r].body) THEN "masked" ELSE "detecting",
                                 !.at = port[r].at + 1, !.sent = sent]
  BY DEF Follow, PortTypeOK
<1>3. /\ port'[r].pc = IF port[r].at = Len(port[r].body) THEN "masked" ELSE "detecting"
      /\ port'[r].at = port[r].at + 1 /\ port'[r].sent = sent
      /\ port'[r].session = port[r].session /\ port'[r].body = port[r].body
      /\ port'[r].shown = port[r].shown
  BY <1>1, <1>2 DEF PortRecords
<1>4. /\ port[r].session \in PortSessions /\ port[r].shown = {}
      /\ port[r].at \in 1 .. Len(port[r].body)
      /\ port[r].sent = FormsTo(port[r].at - 1, port[r].body)
      /\ \A i \in DOMAIN port[r].body : \A j \in DOMAIN port[r].body[i] :
             <<port[r].session, port[r].body[i][j]>> \in said
  BY DEF RequestInv, TextInv, Masking, Filling
<1>5. Len(port[r].body) \in Nat /\ port[r].at \in Nat \ {0}
  BY <1>1, <1>4 DEF PortRecords
<1>6. sent = FormsTo(port[r].at, port[r].body)
  BY <1>4, <1>5, FormsToNext DEF Current
<1>7. TextInv(r)'
  <2>1. port[r].at = Len(port[r].body) \/ port[r].at + 1 \in 1 .. Len(port[r].body)
    BY <1>4, <1>5
  <2>2. (port[r].at + 1) - 1 = port[r].at
    BY <1>5
  <2> QED BY <1>3, <1>4, <1>6, <2>1, <2>2 DEF TextInv, NothingShared, Masking, Filling
<1>8. HoldInv(r)' /\ MintInv(r)' /\ ShownInv(r)'
  BY <1>3, <1>4 DEF HoldInv, MintInv, ShownInv, Masking, Filling
<1>9. SentInv(r)'
  BY <1>3 DEF SentInv, IsHeld, NothingShared
<1> QED BY <1>7, <1>8, <1>9 DEF RequestInv

LEMMA ArriveKeeps ==
    ASSUME PortTypeOK, VaultsInv, NEW r \in PortRequests, RequestInv(r), Arrive(r)
    PROVE  RequestInv(r)' /\ Grows /\ VaultsInv' /\ given' = given /\ running' = running
<1>1. port[r] = NoRequest /\ port[r] \in PortRecords
  BY DEF Arrive, RequestInv, TextInv, PortTypeOK
<1>2. Grows
  BY DEF Arrive, Grows
<1>3. VaultsInv'
  BY DEF Arrive, VaultsInv, EntriesKeepTheirForm
<1>4. CASE Goes(r, "answered")
  <2>1. port'[r] = [NoRequest EXCEPT !.pc = "answered"]
    BY <1>1, <1>4 DEF Goes, PortTypeOK
  <2>2. /\ port'[r].pc = "answered" /\ port'[r].body = <<>> /\ port'[r].sent = {}
        /\ port'[r].shown = {}
    BY <2>1 DEF NoRequest
  <2>3. Len(port'[r].body) = 0 /\ DOMAIN port'[r].body = {}
    BY <2>2
  <2>4. TextInv(r)'
    BY <2>2, <2>3, FormsToNone DEF TextInv, Masking, Filling
  <2>5. HoldInv(r)' /\ MintInv(r)'
    BY <2>2 DEF HoldInv, MintInv, Masking, Filling
  <2>6. SentInv(r)' /\ ShownInv(r)'
    BY <2>2 DEF SentInv, ShownInv, AtRest
  <2> QED BY <1>2, <1>3, <2>4, <2>5, <2>6 DEF Arrive, RequestInv
<1>5. ASSUME NEW s \in PortSessions, NEW body \in PortBodies,
             port' = [port EXCEPT ![r].pc = "detecting", ![r].session = s, ![r].body = body],
             said' = said \cup ({s} \X UNION {Range(body[i]) : i \in DOMAIN body})
      PROVE  RequestInv(r)'
  <2>1. port'[r] = [NoRequest EXCEPT !.pc = "detecting", !.session = s, !.body = body]
    BY <1>1, <1>5 DEF PortTypeOK
  <2>2. /\ port'[r].pc = "detecting" /\ port'[r].session = s /\ port'[r].body = body
        /\ port'[r].at = 1 /\ port'[r].sent = {} /\ port'[r].shown = {}
    BY <2>1 DEF NoRequest
  <2>3. body \in Seq(Seq(PortSurfaces)) /\ 1 \in 1 .. Len(body)
    BY PortAssumption
  <2>4. \A i \in DOMAIN body : \A j \in DOMAIN body[i] : <<s, body[i][j]>> \in said'
    BY <1>5 DEF Range
  <2>5. TextInv(r)'
    BY <2>2, <2>3, <2>4, FormsToNone DEF TextInv, Masking, Filling
  <2> QED BY <2>2, <2>5 DEF RequestInv, HoldInv, MintInv, SentInv, ShownInv, Masking, Filling
<1> QED BY <1>2, <1>3, <1>4, <1>5 DEF Arrive

LEMMA DetectsKeeps ==
    ASSUME PortTypeOK, VaultsInv, NEW r \in PortRequests, RequestInv(r), Detects(r)
    PROVE  RequestInv(r)'
<1>1. port[r] \in PortRecords /\ port[r].pc \in Masking /\ NothingShared
  BY DEF Detects, PortTypeOK, Masking
<1>2. CASE Fails(r, "detection")
  BY <1>1, <1>2, FailsKeeps
<1>3. CASE Current(r) = <<>> /\ Follow(r, port[r].sent)
  <2>1. Forms(Current(r)) = {}
    BY <1>3 DEF Forms
  <2>2. port[r].session \notin replaced => \A t \in port[r].sent : IsHeld(port[r].session, t)
    BY DEF Detects, RequestInv, SentInv, AtRest
  <2> QED BY <1>1, <1>3, <2>1, <2>2, FollowKeeps
<1>4. CASE port' = [port EXCEPT ![r].pc = "assigning", ![r].left = Current(r)]
  <2>1. port'[r] = [port[r] EXCEPT !.pc = "assigning", !.left = Current(r)]
    BY <1>4 DEF PortTypeOK
  <2>2. /\ port'[r].pc = "assigning" /\ port'[r].left = Current(r)
        /\ port'[r].session = port[r].session /\ port'[r].body = port[r].body
        /\ port'[r].at = port[r].at /\ port'[r].sent = port[r].sent /\ port'[r].shown = port[r].shown
    BY <1>1, <2>1 DEF PortRecords
  <2>3. TextInv(r)'
    BY <1>1, <2>2 DEF RequestInv, TextInv, NothingShared, Masking, Filling
  <2>4. HoldInv(r)' /\ MintInv(r)' /\ ShownInv(r)'
    BY <1>1, <2>2 DEF RequestInv, TextInv, HoldInv, MintInv, ShownInv, Current, Masking, Filling
  <2>5. SentInv(r)'
    BY <1>1, <2>2 DEF Detects, RequestInv, SentInv, IsHeld, NothingShared, AtRest
  <2> QED BY <2>3, <2>4, <2>5 DEF RequestInv
<1> QED BY <1>2, <1>3, <1>4 DEF Detects

LEMMA FindsVaultKeeps ==
    ASSUME PortTypeOK, VaultsInv, NEW r \in PortRequests, RequestInv(r), FindsVault(r)
    PROVE  RequestInv(r)'
<1> DEFINE v == vaultOf[port[r].session]
<1>1. port[r] \in PortRecords /\ port[r].pc \in Masking /\ NothingShared
  BY DEF FindsVault, PortTypeOK, Masking
<1>2. port'[r] = [port[r] EXCEPT !.pc = IF v = NoVault THEN "creating" ELSE "indexing", !.vault = v]
  BY DEF FindsVault, PortTypeOK
<1>3. /\ port'[r].pc = IF v = NoVault THEN "creating" ELSE "indexing"
      /\ port'[r].vault = v /\ port'[r].left = port[r].left
      /\ port'[r].session = port[r].session /\ port'[r].body = port[r].body
      /\ port'[r].at = port[r].at /\ port'[r].sent = port[r].sent /\ port'[r].shown = port[r].shown
  BY <1>1, <1>2 DEF PortRecords
<1>4. port[r].session \in PortSessions
  BY <1>1, AtWork
<1>5. TextInv(r)'
  BY <1>1, <1>3 DEF RequestInv, TextInv, NothingShared, Masking, Filling
<1>6. HoldInv(r)'
  BY <1>1, <1>3, <1>4 DEF HoldInv, VaultsInv, NothingShared, Filling
<1>7. MintInv(r)' /\ ShownInv(r)'
  <2>1. port'[r].pc \in {"creating", "indexing"}
    BY <1>3
  <2>2. port[r].left = Current(r) /\ port[r].shown = {}
    BY DEF FindsVault, RequestInv, TextInv, MintInv, Masking
  <2> QED BY <1>3, <2>1, <2>2 DEF MintInv, ShownInv, Current
<1>8. SentInv(r)'
  BY <1>1, <1>3 DEF FindsVault, RequestInv, SentInv, IsHeld, NothingShared, AtRest
<1> QED BY <1>5, <1>6, <1>7, <1>8 DEF RequestInv

\* A vault is new to every session but its own; the old one, if there is one, is lost.
LEMMA CreatesVaultKeeps ==
    ASSUME PortTypeOK, VaultsInv, NEW r \in PortRequests, RequestInv(r), CreatesVault(r)
    PROVE  RequestInv(r)' /\ Grows /\ VaultsInv'
<1> DEFINE s == port[r].session
           v == Len(contents) + 1
<1>1. port[r] \in PortRecords /\ port[r].pc \in Masking
  BY DEF CreatesVault, PortTypeOK, Masking
<1>2. /\ s \in PortSessions /\ v \in Nat \ {0} /\ v \notin DOMAIN contents
      /\ vaultOf' = [vaultOf EXCEPT ![s] = v]
      /\ replaced' = IF vaultOf[s] = NoVault THEN replaced ELSE replaced \cup {s}
      /\ said' = said
  BY <1>1, AtWork DEF CreatesVault, PortTypeOK
<1>3. /\ DOMAIN contents' = DOMAIN contents \cup {v}
      /\ \A w \in DOMAIN contents : contents'[w] = contents[w]
      /\ DOMAIN contents'[v] = {}
  BY DEF CreatesVault, PortTypeOK
<1>4. \A t \in PortSessions : vaultOf'[t] = IF t = s THEN v ELSE vaultOf[t]
  BY <1>2 DEF PortTypeOK
<1>5. port'[r] = [port[r] EXCEPT !.pc = "indexing", !.vault = v]
  BY DEF CreatesVault, PortTypeOK
<1>6. /\ port'[r].pc = "indexing" /\ port'[r].vault = v /\ port'[r].left = port[r].left
      /\ port'[r].session = port[r].session /\ port'[r].body = port[r].body
      /\ port'[r].at = port[r].at /\ port'[r].sent = port[r].sent /\ port'[r].shown = port[r].shown
  BY <1>1, <1>5 DEF PortRecords
<1> HIDE DEF v
<1>7. Grows
  BY <1>2, <1>3, <1>4 DEF Grows
<1>8. VaultsInv'
  BY <1>2, <1>3, <1>4 DEF VaultsInv, EntriesKeepTheirForm, NoVault
<1>9. TextInv(r)'
  BY <1>1, <1>2, <1>6 DEF RequestInv, TextInv, Masking, Filling
<1>10. HoldInv(r)'
  BY <1>2, <1>3, <1>4, <1>6 DEF HoldInv, VaultsInv, NoVault
<1>11. MintInv(r)' /\ ShownInv(r)'
  BY <1>6 DEF CreatesVault, RequestInv, TextInv, MintInv, ShownInv, Current, Masking, Filling
<1>12. SentInv(r)'
  <2> SUFFICES ASSUME s \notin replaced', NEW t \in port[r].sent PROVE FALSE
    BY <1>6 DEF SentInv
  <2>1. vaultOf[s] = NoVault /\ s \notin replaced
    BY <1>2
  <2> QED BY <2>1 DEF CreatesVault, RequestInv, SentInv, IsHeld, AtRest
<1> QED BY <1>7, <1>8, <1>9, <1>10, <1>11, <1>12 DEF RequestInv

LEMMA IndexBeginsKeeps ==
    ASSUME PortTypeOK, VaultsInv, NEW r \in PortRequests, RequestInv(r), IndexBegins(r)
    PROVE  RequestInv(r)'
<1>1. port[r] \in PortRecords /\ NothingShared
  BY DEF IndexBegins, PortTypeOK
<1>2. port'[r] = [port[r] EXCEPT !.pc = "iterating", !.seen = Size(r)]
  BY DEF IndexBegins, PortTypeOK
<1>3. /\ port'[r].pc = "iterating"
      /\ port'[r].vault = port[r].vault /\ port'[r].left = port[r].left
      /\ port'[r].session = port[r].session /\ port'[r].body = port[r].body
      /\ port'[r].at = port[r].at /\ port'[r].sent = port[r].sent /\ port'[r].shown = port[r].shown
  BY <1>1, <1>2 DEF PortRecords
<1>4. TextInv(r)' /\ HoldInv(r)'
  BY <1>1, <1>3 DEF IndexBegins, RequestInv, TextInv, HoldInv, NothingShared, Masking, Filling
<1>5. MintInv(r)' /\ ShownInv(r)'
  BY <1>1, <1>3 DEF IndexBegins, RequestInv, TextInv, MintInv, ShownInv, Current, Masking, Filling
<1>6. SentInv(r)'
  BY <1>1, <1>3 DEF IndexBegins, RequestInv, SentInv, IsHeld, NothingShared, AtRest
<1> QED BY <1>4, <1>5, <1>6 DEF RequestInv

LEMMA IndexEndsKeeps ==
    ASSUME PortTypeOK, VaultsInv, NEW r \in PortRequests, RequestInv(r), IndexEnds(r)
    PROVE  RequestInv(r)'
<1>1. port[r] \in PortRecords /\ port[r].pc \in Masking /\ NothingShared
  BY DEF IndexEnds, PortTypeOK, Masking, Filling
<1>2. CASE Fails(r, "iteration")
  BY <1>1, <1>2, FailsKeeps
<1>3. CASE port' = [port EXCEPT ![r].pc = "minting", ![r].known = DOMAIN Held(r)]
  <2>1. port'[r] = [port[r] EXCEPT !.pc = "minting", !.known = DOMAIN Held(r)]
    BY <1>3 DEF PortTypeOK
  <2>2. /\ port'[r].pc = "minting" /\ port'[r].known = DOMAIN contents[port[r].vault]
        /\ port'[r].vault = port[r].vault /\ port'[r].left = port[r].left
        /\ port'[r].session = port[r].session /\ port'[r].body = port[r].body
        /\ port'[r].at = port[r].at /\ port'[r].sent = port[r].sent /\ port'[r].shown = port[r].shown
    BY <1>1, <2>1 DEF PortRecords, Held
  <2>3. TextInv(r)' /\ HoldInv(r)'
    BY <1>1, <2>2 DEF IndexEnds, RequestInv, TextInv, HoldInv, NothingShared, Masking, Filling
  <2>4. port[r].left = port[r].body[port[r].at] /\ port[r].at \in DOMAIN port[r].body
    BY <1>1, AtWork DEF IndexEnds, RequestInv, MintInv, Current, Masking, Filling
  <2>5. MintInv(r)' /\ ShownInv(r)'
    BY <1>1, <2>2, <2>4 DEF RequestInv, TextInv, MintInv, ShownInv, Current, NothingShared, Masking, Filling
  <2>6. SentInv(r)'
    BY <1>1, <2>2 DEF IndexEnds, RequestInv, SentInv, IsHeld, NothingShared, AtRest
  <2> QED BY <2>3, <2>5, <2>6 DEF RequestInv
<1> QED BY <1>2, <1>3 DEF IndexEnds

\* A round of the loop enters a surface under its own token, or finds it there.
LEMMA MintsKeeps ==
    ASSUME PortTypeOK, VaultsInv, NEW r \in PortRequests, RequestInv(r), Mints(r)
    PROVE  RequestInv(r)' /\ Grows /\ VaultsInv'
<1> DEFINE surface == Head(port[r].left)
           token == PortForm[surface]
           v == port[r].vault
           s == port[r].session
<1>1. port[r] \in PortRecords /\ port[r].pc = "minting" /\ port[r].left # <<>>
  BY DEF Mints, PortTypeOK
<1>2. /\ port[r].left \in Seq(PortSurfaces) /\ surface \in PortSurfaces
      /\ surface = port[r].left[1] /\ 1 \in DOMAIN port[r].left
      /\ DOMAIN Tail(port[r].left) = 1 .. Len(port[r].left) - 1
      /\ \A j \in 1 .. Len(port[r].left) - 1 : Tail(port[r].left)[j] = port[r].left[j + 1]
      /\ DOMAIN port[r].left = 1 .. Len(port[r].left) /\ Len(port[r].left) \in Nat
  BY <1>1 DEF PortRecords
<1>3. /\ s \in PortSessions /\ v \in DOMAIN contents /\ Held(r) \in Entries
      /\ IsFiniteSet(DOMAIN Held(r)) /\ contents[v] = Held(r)
  BY <1>1, AtWork DEF Masking, Filling, PortTypeOK, Held
<1>4. <<s, surface>> \in said
  BY <1>1, <1>2 DEF RequestInv, MintInv
<1>5. /\ DOMAIN Minted(r, surface) = DOMAIN Held(r) \cup {token}
      /\ \A t \in DOMAIN Minted(r, surface) :
             Minted(r, surface)[t] = IF t = token THEN surface ELSE Held(r)[t]
  BY <1>2, <1>3, WithType DEF Minted
<1>6. port'[r] = [port[r] EXCEPT !.left = Tail(port[r].left), !.known = port[r].known \cup {token}]
  BY DEF Mints, PortTypeOK
<1>7. /\ port'[r].pc = "minting" /\ port'[r].left = Tail(port[r].left)
      /\ port'[r].known = port[r].known \cup {token} /\ port'[r].vault = v
      /\ port'[r].session = s /\ port'[r].body = port[r].body
      /\ port'[r].at = port[r].at /\ port'[r].sent = port[r].sent /\ port'[r].shown = port[r].shown
  BY <1>1, <1>6 DEF PortRecords
<1>8. /\ contents' = IF token \in port[r].known THEN contents ELSE [contents EXCEPT ![v] = Minted(r, surface)]
      /\ UNCHANGED <<vaultOf, running, replaced, given, said>>
  BY DEF Mints
<1>9. port[r].known \subseteq DOMAIN contents[v]
  BY <1>1 DEF RequestInv, MintInv
<1>10. /\ DOMAIN contents' = DOMAIN contents
       /\ \A w \in DOMAIN contents : w # v => contents'[w] = contents[w]
       /\ DOMAIN contents'[v] = DOMAIN contents[v] \cup {token}
       /\ \A t \in DOMAIN contents'[v] :
              \/ t \in DOMAIN contents[v] /\ contents'[v][t] = contents[v][t]
              \/ t = token /\ contents'[v][t] = surface
  <2>1. CASE token \in port[r].known
    BY <1>8, <1>9, <2>1
  <2>2. CASE token \notin port[r].known
    <3>1. contents'[v] = Minted(r, surface) /\ DOMAIN contents' = DOMAIN contents
      BY <1>3, <1>8, <2>2 DEF PortTypeOK
    <3>2. \A w \in DOMAIN contents : w # v => contents'[w] = contents[w]
      BY <1>8, <2>2 DEF PortTypeOK
    <3> HIDE DEF token, surface
    <3> QED BY <1>3, <1>5, <3>1, <3>2
  <2> QED BY <2>1, <2>2
<1> HIDE DEF surface, token, v, s
<1>11. Grows
  BY <1>3, <1>8, <1>10 DEF Grows
<1>12. VaultsInv'
  <2>1. \A q \in PortSessions : vaultOf[q] = v => q = s
    BY <1>1 DEF RequestInv, HoldInv, Filling, v, s
  <2>2. \A q \in PortSessions : vaultOf[q] # NoVault =>
            \A t \in DOMAIN contents'[vaultOf[q]] : <<q, contents'[vaultOf[q]][t]>> \in said
    <3> SUFFICES ASSUME NEW q \in PortSessions, vaultOf[q] # NoVault, NEW t \in DOMAIN contents'[vaultOf[q]]
                 PROVE  <<q, contents'[vaultOf[q]][t]>> \in said
      OBVIOUS
    <3>1. CASE vaultOf[q] = v
      BY <1>4, <1>10, <2>1, <3>1 DEF VaultsInv
    <3>2. CASE vaultOf[q] # v
      BY <1>10, <3>2 DEF VaultsInv
    <3> QED BY <3>1, <3>2
  <2>3. \A w \in DOMAIN contents' : \A t \in DOMAIN contents'[w] : PortForm[contents'[w][t]] = t
    <3> SUFFICES ASSUME NEW w \in DOMAIN contents, NEW t \in DOMAIN contents'[w]
                 PROVE  PortForm[contents'[w][t]] = t
      BY <1>10
    <3>1. CASE w = v
      BY <1>10, <3>1 DEF VaultsInv, EntriesKeepTheirForm, token
    <3>2. CASE w # v
      BY <1>10, <3>2 DEF VaultsInv, EntriesKeepTheirForm
    <3> QED BY <3>1, <3>2
  <2> QED BY <1>8, <1>10, <2>2, <2>3 DEF VaultsInv, EntriesKeepTheirForm
<1>13. TextInv(r)'
  BY <1>1, <1>7, <1>8 DEF RequestInv, TextInv, Masking, Filling, s
<1>14. HoldInv(r)'
  BY <1>1, <1>7, <1>8, <1>10 DEF RequestInv, HoldInv, Filling, v, s
<1>15. MintInv(r)'
  <2>1. port'[r].known \subseteq DOMAIN contents'[v]
    BY <1>7, <1>9, <1>10
  <2>2. Forms(port[r].left) \subseteq {token} \cup Forms(Tail(port[r].left))
    <3> SUFFICES ASSUME NEW i \in DOMAIN port[r].left, i # 1
                 PROVE  PortForm[port[r].left[i]] \in Forms(Tail(port[r].left))
      BY <1>2 DEF Forms, token
    <3>1. i - 1 \in 1 .. Len(port[r].left) - 1
      BY <1>2
    <3>2. Tail(port[r].left)[i - 1] = port[r].left[(i - 1) + 1] /\ (i - 1) + 1 = i
      BY <1>2, <3>1
    <3> QED BY <1>2, <3>1, <3>2 DEF Forms
  <2>3. Forms(Current(r)) \subseteq port[r].known \cup Forms(port[r].left)
    BY <1>1 DEF RequestInv, MintInv
  <2>4. \A j \in DOMAIN Tail(port[r].left) : <<s, Tail(port[r].left)[j]>> \in said
    <3> SUFFICES ASSUME NEW j \in 1 .. Len(port[r].left) - 1
                 PROVE  <<s, Tail(port[r].left)[j]>> \in said
      BY <1>2
    <3>1. j + 1 \in DOMAIN port[r].left
      BY <1>2
    <3> QED BY <1>1, <1>2, <3>1 DEF RequestInv, MintInv, s
  <2>5. Current(r)' = Current(r)
    BY <1>7 DEF Current
  <2> QED BY <1>7, <1>8, <2>1, <2>2, <2>3, <2>4, <2>5 DEF MintInv
<1>16. SentInv(r)'
  <2> SUFFICES ASSUME s \notin replaced, NEW t \in port[r].sent
               PROVE  vaultOf[s] # NoVault /\ t \in DOMAIN contents'[vaultOf[s]]
    BY <1>7, <1>8 DEF SentInv, IsHeld
  <2>1. IsHeld(s, t)
    BY <1>1 DEF RequestInv, SentInv, AtRest, s
  <2>2. vaultOf[s] \in DOMAIN contents
    BY <1>3, <2>1 DEF VaultsInv, IsHeld
  <2> QED BY <1>8, <1>10, <2>1, <2>2 DEF IsHeld
<1>17. ShownInv(r)'
  BY <1>1, <1>7 DEF RequestInv, TextInv, ShownInv
<1> QED BY <1>11, <1>12, <1>13, <1>14, <1>15, <1>16, <1>17 DEF RequestInv

LEMMA AssignedKeeps ==
    ASSUME PortTypeOK, VaultsInv, NEW r \in PortRequests, RequestInv(r), Assigned(r)
    PROVE  RequestInv(r)'
<1>1. port[r] \in PortRecords /\ port[r].pc \in Masking /\ NothingShared
  BY DEF Assigned, PortTypeOK, Masking, Filling
<1>2. CASE Fails(r, "limit")
  BY <1>1, <1>2, FailsKeeps
<1>3. CASE Follow(r, port[r].sent \cup Forms(Current(r)))
  <2>1. Forms(Current(r)) \subseteq DOMAIN contents[port[r].vault]
    BY DEF Assigned, RequestInv, MintInv, Forms
  <2>2. ASSUME port[r].session \notin replaced, NEW t \in port[r].sent \cup Forms(Current(r))
        PROVE  IsHeld(port[r].session, t)
    <3>1. vaultOf[port[r].session] = port[r].vault /\ port[r].vault # NoVault
      BY <2>2, NoVaultIsNone DEF Assigned, RequestInv, HoldInv, Filling
    <3>2. \A u \in port[r].sent : IsHeld(port[r].session, u)
      BY <2>2 DEF Assigned, RequestInv, SentInv, AtRest
    <3> QED BY <2>1, <2>2, <3>1, <3>2 DEF IsHeld
  <2> QED BY <1>1, <1>3, <2>2, FollowKeeps
<1> QED BY <1>2, <1>3 DEF Assigned

LEMMA SendsUpstreamKeeps ==
    ASSUME PortTypeOK, VaultsInv, GivenIsHeld, NEW r \in PortRequests, RequestInv(r), SendsUpstream(r)
    PROVE  RequestInv(r)' /\ Grows /\ VaultsInv' /\ GivenIsHeld'
<1>1. port[r] \in PortRecords /\ port[r].pc = "masked"
  BY DEF SendsUpstream, Returned, PortTypeOK
<1>2. port'[r] = [port[r] EXCEPT !.pc = "asked"]
  BY DEF SendsUpstream, Goes, PortTypeOK
<1>3. /\ port'[r].pc = "asked"
      /\ port'[r].session = port[r].session /\ port'[r].body = port[r].body
      /\ port'[r].sent = port[r].sent /\ port'[r].shown = port[r].shown
  BY <1>1, <1>2 DEF PortRecords
<1>4. UNCHANGED <<vaultOf, contents, running, replaced, said>>
  BY DEF SendsUpstream
<1>5. Grows /\ VaultsInv'
  BY <1>4 DEF Grows, VaultsInv, EntriesKeepTheirForm
<1>6. SentInv(r)'
  BY <1>1, <1>3, <1>4 DEF RequestInv, SentInv, IsHeld, AtRest
<1>7. GivenIsHeld'
  <2> SUFFICES ASSUME NEW p \in given', p \notin given, running, p[1] \notin replaced
               PROVE  vaultOf[p[1]] # NoVault /\ p[2] \in DOMAIN contents[vaultOf[p[1]]]
    BY <1>4 DEF GivenIsHeld
  <2>1. p[1] = port[r].session /\ p[2] \in port[r].sent
    BY DEF SendsUpstream
  <2> QED BY <1>1, <2>1 DEF RequestInv, SentInv, IsHeld, AtRest
<1>8. TextInv(r)' /\ HoldInv(r)' /\ MintInv(r)' /\ ShownInv(r)'
  BY <1>1, <1>3, <1>4 DEF RequestInv, TextInv, HoldInv, MintInv, ShownInv, Masking, Filling
<1> QED BY <1>5, <1>6, <1>7, <1>8 DEF RequestInv

\* A token restores to what its session has said, and one of the request's own to its form.
LEMMA RestoresKeeps ==
    ASSUME PortTypeOK, VaultsInv, NEW r \in PortRequests, RequestInv(r), Restores(r)
    PROVE  RequestInv(r)'
<1>1. port[r] \in PortRecords /\ port[r].pc = "asked" /\ NothingShared
  BY DEF Restores, PortTypeOK
<1>2. PICK t \in Tokens :
          port' = [port EXCEPT ![r].shown = @ \cup {<<t, Looked(port[r].session, t)>>}]
  BY DEF Restores
<1>3. port'[r] = [port[r] EXCEPT !.shown = port[r].shown \cup {<<t, Looked(port[r].session, t)>>}]
  BY <1>2 DEF PortTypeOK
<1>4. /\ port'[r].shown = port[r].shown \cup {<<t, Looked(port[r].session, t)>>}
      /\ port'[r].pc = "asked"
      /\ port'[r].session = port[r].session /\ port'[r].body = port[r].body
      /\ port'[r].sent = port[r].sent
  BY <1>1, <1>3 DEF PortRecords
<1>5. port[r].session \in PortSessions
  BY <1>1 DEF RequestInv, TextInv
<1>6. TextInv(r)' /\ HoldInv(r)' /\ MintInv(r)'
  BY <1>1, <1>4 DEF RequestInv, TextInv, HoldInv, MintInv, NothingShared, Masking, Filling
<1>7. SentInv(r)'
  BY <1>1, <1>4 DEF RequestInv, SentInv, IsHeld, NothingShared, AtRest
<1>8. ShownInv(r)'
  <2> DEFINE looked == Looked(port[r].session, t)
  <2>1. \A surface \in looked : <<port[r].session, surface>> \in said
    BY <1>5 DEF Looked, VaultsInv
  <2>2. ASSUME t \in port[r].sent, port[r].session \notin replaced
        PROVE  \E surface \in looked : PortForm[surface] = t
    <3>1. IsHeld(port[r].session, t)
      BY <1>1, <2>2 DEF RequestInv, SentInv, AtRest
    <3>2. looked = {contents[vaultOf[port[r].session]][t]}
      BY <3>1 DEF Looked, IsHeld
    <3> QED BY <1>5, <3>1, <3>2 DEF IsHeld, VaultsInv, EntriesKeepTheirForm
  <2> HIDE DEF looked
  <2>3. port'[r].shown = port[r].shown \cup {<<t, looked>>}
    BY <1>4 DEF looked
  <2> QED BY <1>1, <1>4, <2>1, <2>2, <2>3 DEF RequestInv, ShownInv, NothingShared
<1> QED BY <1>6, <1>7, <1>8 DEF RequestInv

LEMMA AnswersKeeps ==
    ASSUME PortTypeOK, VaultsInv, NEW r \in PortRequests, RequestInv(r), Answers(r)
    PROVE  RequestInv(r)'
<1>1. port[r] \in PortRecords /\ port[r].pc = "asked" /\ NothingShared
  BY DEF Answers, PortTypeOK
<1>2. port'[r] = [port[r] EXCEPT !.pc = "answered"]
  BY DEF Answers, Goes, PortTypeOK
<1>3. /\ port'[r].pc = "answered"
      /\ port'[r].session = port[r].session /\ port'[r].body = port[r].body
      /\ port'[r].sent = port[r].sent /\ port'[r].shown = port[r].shown
  BY <1>1, <1>2 DEF PortRecords
<1>4. TextInv(r)' /\ HoldInv(r)' /\ MintInv(r)'
  BY <1>1, <1>3 DEF RequestInv, TextInv, HoldInv, MintInv, NothingShared, Masking, Filling
<1>5. SentInv(r)' /\ ShownInv(r)'
  BY <1>1, <1>3 DEF RequestInv, SentInv, ShownInv, NothingShared, AtRest
<1> QED BY <1>4, <1>5 DEF RequestInv

LEMMA ThreadKeeps ==
    ASSUME ThreadsInv, NEW r \in PortRequests, PortStep(r)
    PROVE  RequestInv(r)' /\ Grows /\ VaultsInv' /\ GivenIsHeld'
<1>1. PortTypeOK /\ VaultsInv /\ GivenIsHeld /\ RequestInv(r)
  BY DEF ThreadsInv
<1>2. ASSUME NothingShared, RequestInv(r)'
      PROVE  RequestInv(r)' /\ Grows /\ VaultsInv' /\ GivenIsHeld'
  <2>1. Grows /\ VaultsInv'
    BY <1>1, <1>2, NothingSharedGrows
  <2>2. given' = given /\ running' = running
    BY <1>2 DEF NothingShared
  <2> QED BY <1>1, <1>2, <2>1, <2>2, GivenStaysHeld
<1>3. CASE Arrive(r)
  BY <1>1, <1>3, ArriveKeeps, GivenStaysHeld
<1>4. CASE Detects(r)
  BY <1>1, <1>2, <1>4, DetectsKeeps DEF Detects
<1>5. CASE FindsVault(r)
  BY <1>1, <1>2, <1>5, FindsVaultKeeps DEF FindsVault
<1>6. CASE CreatesVault(r)
  <2>1. given' = given /\ running' = running
    BY <1>6 DEF CreatesVault
  <2> QED BY <1>1, <1>6, <2>1, CreatesVaultKeeps, GivenStaysHeld
<1>7. CASE IndexBegins(r)
  BY <1>1, <1>2, <1>7, IndexBeginsKeeps DEF IndexBegins
<1>8. CASE IndexEnds(r)
  BY <1>1, <1>2, <1>8, IndexEndsKeeps DEF IndexEnds
<1>9. CASE Mints(r)
  <2>1. given' = given /\ running' = running
    BY <1>9 DEF Mints
  <2> QED BY <1>1, <1>9, <2>1, MintsKeeps, GivenStaysHeld
<1>10. CASE Assigned(r)
  BY <1>1, <1>2, <1>10, AssignedKeeps DEF Assigned
<1>11. CASE SendsUpstream(r)
  BY <1>1, <1>11, SendsUpstreamKeeps
<1>12. CASE Restores(r)
  BY <1>1, <1>2, <1>12, RestoresKeeps DEF Restores
<1>13. CASE Answers(r)
  BY <1>1, <1>2, <1>13, AnswersKeeps DEF Answers
<1> QED BY <1>3, <1>4, <1>5, <1>6, <1>7, <1>8, <1>9, <1>10, <1>11, <1>12, <1>13 DEF PortStep

LEMMA PortStepKeeps ==
    ASSUME ThreadsInv, NEW r \in PortRequests, PortStep(r)
    PROVE  ThreadsInv'
<1>1. PortTypeOK /\ VaultsInv /\ RequestInv(r)
  BY DEF ThreadsInv
<1>2. PortTypeOK'
  BY <1>1, PortTypeStep
<1>3. RequestInv(r)' /\ Grows /\ VaultsInv' /\ GivenIsHeld'
  BY ThreadKeeps
<1>4. ASSUME NEW q \in PortRequests PROVE RequestInv(q)'
  <2>1. CASE q = r
    BY <1>3, <2>1
  <2>2. CASE q # r
    <3>1. port'[q] = port[q] /\ RequestInv(q)
      BY <1>1, <2>2, OthersUntouched DEF ThreadsInv
    <3> QED BY <1>1, <1>3, <3>1, OthersKeep
  <2> QED BY <2>1, <2>2
<1>5. running'
  <2>1. running' = running
    BY DEF PortStep, Arrive, Detects, FindsVault, CreatesVault, IndexBegins, IndexEnds, Mints,
           Assigned, SendsUpstream, Restores, Answers, NothingShared
  <2>2. port[r].pc \in AtRest => Arrive(r)
    BY DEF PortStep, Detects, FindsVault, CreatesVault, IndexBegins, IndexEnds, Mints, Assigned,
           SendsUpstream, Returned, Restores, Answers, AtRest
  <2>3. running
    BY <2>2 DEF ThreadsInv, Arrive
  <2> QED BY <2>1, <2>3
<1> QED BY <1>2, <1>3, <1>4, <1>5 DEF ThreadsInv

\* At the end no request is left, and all vaults go.
LEMMA StopsKeeps == ASSUME ThreadsInv, Stops PROVE ThreadsInv'
<1>1. /\ UNCHANGED <<contents, port, replaced, given, said>> /\ running' = FALSE
      /\ vaultOf' = [s \in PortSessions |-> NoVault]
      /\ \A r \in PortRequests : port[r].pc \in AtRest
  BY DEF Stops, AtRest
<1>2. PortTypeOK'
  BY <1>1 DEF ThreadsInv, PortTypeOK, NoVault
<1>3. VaultsInv' /\ GivenIsHeld'
  BY <1>1 DEF ThreadsInv, VaultsInv, EntriesKeepTheirForm, GivenIsHeld
<1>4. ASSUME NEW r \in PortRequests PROVE RequestInv(r)'
  <2>1. RequestInv(r) /\ port'[r] = port[r] /\ port[r].pc \in AtRest
    BY <1>1 DEF ThreadsInv
  <2>2. TextInv(r)' /\ ShownInv(r)'
    BY <1>1, <2>1 DEF RequestInv, TextInv, ShownInv
  <2>3. HoldInv(r)' /\ MintInv(r)' /\ SentInv(r)'
    BY <2>1 DEF HoldInv, MintInv, SentInv, AtRest, Masking, Filling
  <2> QED BY <2>2, <2>3 DEF RequestInv
<1>5. \A r \in PortRequests : port'[r].pc \in AtRest
  BY <1>1
<1> QED BY <1>2, <1>3, <1>4, <1>5 DEF ThreadsInv

LEMMA PortBegins == PortInit => ThreadsInv
<1> SUFFICES ASSUME PortInit PROVE ThreadsInv
  OBVIOUS
<1>1. NoRequest \in PortRecords
  BY DEF NoRequest, PortRecords, AtRest, NoVault
<1>2. PortTypeOK
  <2>1. contents \in Seq(Entries) /\ DOMAIN contents = {}
    BY DEF PortInit
  <2> QED BY <1>1, <2>1 DEF PortInit, PortTypeOK, NoVault
<1>3. VaultsInv /\ GivenIsHeld
  <2>1. DOMAIN contents = {}
    BY DEF PortInit
  <2> QED BY <2>1 DEF PortInit, VaultsInv, EntriesKeepTheirForm, GivenIsHeld
<1>4. ASSUME NEW r \in PortRequests PROVE RequestInv(r)
  <2>1. port[r] = NoRequest
    BY DEF PortInit
  <2>2. /\ port[r].pc = "idle" /\ port[r].sent = {} /\ port[r].shown = {}
        /\ DOMAIN port[r].body = {}
    BY <2>1 DEF NoRequest
  <2>3. TextInv(r) /\ ShownInv(r)
    BY <2>1, <2>2 DEF TextInv, ShownInv, Masking, Filling
  <2>4. HoldInv(r) /\ MintInv(r) /\ SentInv(r)
    BY <2>2 DEF HoldInv, MintInv, SentInv, Masking, Filling, AtRest
  <2> QED BY <2>3, <2>4 DEF RequestInv
<1> QED BY <1>2, <1>3, <1>4 DEF PortInit, ThreadsInv

\* The invariant of the threads that mask over one VaultManager without a lock: a thread
\* is at its session's vault or at one that was replaced, and vaults only grow.
THEOREM ThreadsStayApart == PortSpec => []ThreadsInv
<1>1. ThreadsInv /\ [PortNext]_portVars => ThreadsInv'
  <2> SUFFICES ASSUME ThreadsInv, [PortNext]_portVars PROVE ThreadsInv'
    OBVIOUS
  <2>1. CASE UNCHANGED portVars
    <3>1. UNCHANGED <<vaultOf, contents, port, running, replaced, given, said>>
      BY <2>1 DEF portVars
    <3>2. PortTypeOK'
      BY <3>1 DEF ThreadsInv, PortTypeOK
    <3>3. VaultsInv' /\ GivenIsHeld' /\ Grows
      BY <3>1 DEF ThreadsInv, VaultsInv, EntriesKeepTheirForm, GivenIsHeld, Grows
    <3>4. \A r \in PortRequests : RequestInv(r)'
      BY <3>1, <3>3, OthersKeep DEF ThreadsInv
    <3> QED BY <3>1, <3>2, <3>3, <3>4 DEF ThreadsInv
  <2>2. CASE Stops
    BY <2>2, StopsKeeps
  <2>3. CASE \E r \in PortRequests : PortStep(r)
    BY <2>3, PortStepKeeps
  <2> QED BY <2>1, <2>2, <2>3 DEF PortNext
<1> QED BY <1>1, PortBegins, PTL DEF PortSpec

\* pii/vault.py, pii/codec.py, api/proxy.py: a token that was sent stays restorable, an
\* answer shows a session nothing but its own, and what goes upstream is masked in every
\* text, however the threads interleave; a session whose vault two first requests made
\* twice is the one exception.
THEOREM ThreadsAreSafe == PortSpec => []PortInv
<1>1. ThreadsInv => PortInv
  <2> SUFFICES ASSUME ThreadsInv PROVE PortInv
    OBVIOUS
  <2>1. GivenIsHeld /\ EntriesKeepTheirForm
    BY DEF ThreadsInv, VaultsInv
  <2>2. SentIsMasked
    <3> SUFFICES ASSUME NEW r \in PortRequests, port[r].pc \in {"asked", "answered"}
                 PROVE  port[r].sent = UNION {Forms(port[r].body[i]) : i \in DOMAIN port[r].body}
      BY DEF SentIsMasked
    <3>1. DOMAIN port[r].body = 1 .. Len(port[r].body)
      BY DEF ThreadsInv, PortTypeOK, PortRecords
    <3> QED BY <3>1 DEF ThreadsInv, RequestInv, TextInv, FormsTo
  <2>3. ShownIsOwn
    BY DEF ThreadsInv, RequestInv, ShownInv, ShownIsOwn
  <2> QED BY <2>1, <2>2, <2>3 DEF PortInv
<1> QED BY <1>1, ThreadsStayApart, PTL
=============================================================================
