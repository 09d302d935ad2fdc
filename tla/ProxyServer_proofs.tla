------------------------ MODULE ProxyServer_proofs -------------------------
(***************************************************************************)
(* The proxy, for any requests, sessions and bodies: the sessions keep     *)
(* apart, a client gets only values of its own session, and a good answer  *)
(* has every token of its session restored.  And the buffer of a streamed  *)
(* answer cuts no token, for any text, any window that holds the longest   *)
(* token, and any split into chunks; its pump, for any number of chunks,   *)
(* brings all of it to a client that stays; and the transformer of each    *)
(* provider, for any number of blocks, choices or items of any length,     *)
(* shows each one restored, whole and once.                                *)
(***************************************************************************)
EXTENDS ProxyServer, StreamBuffer, StreamPump, StreamTransformers, SequenceTheorems, TLAPS

\* No remover serves two sessions, and a request in progress has the one that the pool
\* holds for its session, until stop() clears the pool.
Dedicated ==
    /\ \A s, t \in Sessions : entry[s] = entry[t] /\ entry[s] # 0 => s = t
    /\ \A r \in Requests : InProgress(r) =>
         /\ req[r].remover # 0
         /\ \A s \in Sessions :
              entry[s] # 0 => (req[r].session = s <=> req[r].remover = entry[s])
         /\ stop # "done" => entry[req[r].session] # 0

\* What a vault knows has come from clients of the session it serves.
VaultsAreSaid ==
    /\ \A s \in Sessions : entry[s] # 0 => vault[entry[s]] \subseteq said[s]
    /\ \A m \in Removers : m > made => vault[m] = {}
    /\ \A r \in Requests : InProgress(r) =>
         /\ vault[req[r].remover] \subseteq said[req[r].session]
         /\ \A i \in DOMAIN req[r].body : req[r].body[i] \subseteq said[req[r].session]

\* A session's vault knows every token that went upstream for it, and those of the request
\* that is being masked, as long as it is not disposed.
SentIsKnown ==
    /\ stop # "done" =>
         /\ disposed = {}
         /\ \A s \in Sessions :
              sent[s] \subseteq (IF entry[s] = 0 THEN {} ELSE vault[entry[s]])
    /\ \A r \in Requests :
         InProgress(r) /\ req[r].remover \notin disposed
         => req[r].tokens \cup sent[req[r].session] \subseteq vault[req[r].remover]

DetectHasText == \A r \in Requests : req[r].pc = "detect" => req[r].body # <<>>

SessionsInv ==
    /\ ServerInv /\ Dedicated /\ VaultsAreSaid /\ SentIsKnown /\ DetectHasText

-----------------------------------------------------------------------------
(* What a step does to the handlers                                        *)

\* What a handler holds on to from step to step: it may end, but not change its session.
Holds(q) ==
    InProgress(q)' =>
        /\ InProgress(q)
        /\ req'[q].session = req[q].session /\ req'[q].remover = req[q].remover
        /\ req'[q].body = req[q].body /\ req'[q].tokens = req[q].tokens

LEMMA GotoMoves ==
    ASSUME ServerTypeOK, made' = made, NEW r \in Requests, InProgress(r),
           NEW pc \in PCs, Goto(r, pc)
    PROVE  /\ req' \in [Requests -> Handlers']
           /\ \A q \in Requests : Holds(q)
           /\ req'[r].pc = pc /\ \A q \in Requests \ {r} : req'[q] = req[q]
  BY DEF ServerTypeOK, Goto, Handlers, Holds, InProgress

LEMMA ReplyMoves ==
    ASSUME ServerTypeOK, made' = made, NEW r \in Requests, NEW status \in Statuses,
           NEW left \in SUBSET Values, Reply(r, status, left)
    PROVE  /\ req' \in [Requests -> Handlers'] /\ answer' \in [Requests -> Answers']
           /\ \A q \in Requests : Holds(q)
           /\ req'[r].pc = "idle" /\ \A q \in Requests \ {r} : req'[q] = req[q]
<1>1. made \in Nat
  BY ProxyAssumption DEF ServerTypeOK
<1>2. Idle \in Handlers /\ Idle.pc = "idle"
  BY <1>1, ProxyAssumption DEF Idle, Handlers, PCs
<1>3. Handlers' = Handlers /\ Answers' = Answers
  BY DEF Handlers, Answers
<1>4. [status |-> status, left |-> left] \in Answers
  BY DEF Answers
<1> QED BY <1>2, <1>3, <1>4 DEF ServerTypeOK, Reply, Holds, InProgress

LEMMA RemoversAreMade ==
    ASSUME SessionsInv
    PROVE  /\ made \in Nat
           /\ \A s \in Sessions : entry[s] # 0 => entry[s] \in Removers /\ entry[s] <= made
           /\ \A r \in Requests :
                InProgress(r) => req[r].remover \in Removers /\ req[r].remover <= made
<1> USE ProxyAssumption DEF SessionsInv, ServerInv, ServerTypeOK, Removers
<1>1. \A r \in Requests : req[r].remover \in 0 .. made
  BY DEF Handlers
<1> QED BY <1>1 DEF Dedicated

\* A step on which every handler holds and which leaves the vaults keeps the sessions apart.
LEMMA HoldingKeeps ==
    ASSUME SessionsInv, \A q \in Requests : Holds(q),
           UNCHANGED <<entry, made, vault, disposed, said, sent>>,
           stop = "done" <=> stop' = "done"
    PROVE  OneRemoverPerSession' /\ Dedicated' /\ VaultsAreSaid' /\ SentIsKnown'
<1> USE DEF SessionsInv, ServerInv, Holds
<1>1. OneRemoverPerSession'
  BY DEF OneRemoverPerSession, InProgress
<1>2. Dedicated'
  BY DEF Dedicated, InProgress
<1>3. VaultsAreSaid'
  BY DEF VaultsAreSaid, InProgress, Removers
<1>4. SentIsKnown'
  BY DEF SentIsKnown, InProgress
<1> QED BY <1>1, <1>2, <1>3, <1>4


\* A handler goes on to its next await, replies, or passes on a piece of its answer.
Moves(r) ==
    \/ \E pc \in PCs : /\ pc = "detect" => req[r].body # <<>>
                       /\ Goto(r, pc) /\ UNCHANGED answer
    \/ \E status \in Statuses, left \in SUBSET Values : Reply(r, status, left)
    \/ UNCHANGED req /\ \E left \in SUBSET Values : answer' = [answer EXCEPT ![r].left = left]

LEMMA MovesKeep ==
    ASSUME SessionsInv, NEW r \in Requests, InProgress(r), Moves(r),
           UNCHANGED <<serverVars, vault, disposed, stopVars, said, sent>>,
           shown' \in [Sessions -> SUBSET Values],
           \A s \in Sessions : shown'[s] \subseteq said[s]
    PROVE  SessionsInv'
<1> USE DEF SessionsInv, ServerInv, serverVars, stopVars
<1>1. /\ req' \in [Requests -> Handlers'] /\ answer' \in [Requests -> Answers']
      /\ \A q \in Requests : Holds(q)
      /\ \A q \in Requests : req'[q] # req[q] /\ req'[q].pc = "detect"
                             => req'[q].body # <<>>
  <2>0. Answers' = Answers /\ Handlers' = Handlers /\ answer \in [Requests -> Answers]
        /\ req \in [Requests -> Handlers]
    BY DEF Answers, Handlers, ServerTypeOK
  <2>1. CASE \E pc \in PCs : /\ pc = "detect" => req[r].body # <<>>
                             /\ Goto(r, pc) /\ UNCHANGED answer
    BY <2>0, <2>1, GotoMoves DEF Holds, InProgress
  <2>2. CASE \E status \in Statuses, left \in SUBSET Values : Reply(r, status, left)
    BY <2>0, <2>2, ReplyMoves
  <2>3. CASE /\ UNCHANGED req
             /\ \E left \in SUBSET Values : answer' = [answer EXCEPT ![r].left = left]
    BY <2>0, <2>3 DEF Holds, InProgress, Answers
  <2> QED BY <2>1, <2>2, <2>3 DEF Moves
<1>2. ServerTypeOK'
  BY <1>1 DEF ServerTypeOK
<1>3. OneRemoverPerSession' /\ Dedicated' /\ VaultsAreSaid' /\ SentIsKnown'
  BY <1>1, HoldingKeeps
<1>4. OnlyOwnValues'
  BY DEF OnlyOwnValues
<1>5. DetectHasText'
  BY <1>1 DEF DetectHasText
<1> QED BY <1>2, <1>3, <1>4, <1>5

\* What the model says is made of tokens the proxy knows; what of it is shown in clear is
\* in the vault of the session.
LEMMA ShowIsOwn ==
    ASSUME SessionsInv, NEW r \in Requests, InProgress(r), UNCHANGED said,
           NEW tokens \in Tokens, Show(r, tokens)
    PROVE  /\ tokens \subseteq Values
           /\ shown' \in [Sessions -> SUBSET Values]
           /\ \A s \in Sessions : shown'[s] \subseteq said[s]
<1> USE DEF SessionsInv, ServerInv, ServerTypeOK
<1>1. tokens \subseteq Values
  BY DEF Tokens
<1>2. req[r].session \in Sessions /\ vault[req[r].remover] \subseteq said[req[r].session]
  BY DEF VaultsAreSaid, Handlers
<1>3. shown' \in [Sessions -> SUBSET Values]
  BY <1>1, <1>2 DEF Show
<1>4. \A s \in Sessions : shown'[s] \subseteq said[s]
  BY <1>2 DEF Show, OnlyOwnValues
<1> QED BY <1>1, <1>3, <1>4

-----------------------------------------------------------------------------
(* The steps                                                               *)

LEMMA HandlerMovesKeep ==
    ASSUME SessionsInv, NEW r \in Requests,
           Resume(r) \/ Body(r) \/ MaskStarts(r) \/ StreamEnds(r)
    PROVE  SessionsInv'
<1>1. /\ shown \in [Sessions -> SUBSET Values] /\ answer \in [Requests -> Answers]
      /\ \A s \in Sessions : shown[s] \subseteq said[s]
  BY DEF SessionsInv, ServerInv, ServerTypeOK, OnlyOwnValues
<1>2. {"error", "bad request", "ok"} \subseteq Statuses /\ {} \in SUBSET Values
  BY DEF Statuses
<1>3. {"body", "mask", "detect"} \subseteq PCs
  BY DEF PCs
<1>4. InProgress(r) /\ shown' = shown
      /\ UNCHANGED <<serverVars, vault, disposed, stopVars, said, sent>>
  BY DEF Resume, Body, MaskStarts, StreamEnds, InProgress, historyVars
<1>5. CASE Resume(r)
  <2>1. Moves(r)
    BY <1>2, <1>3, <1>5 DEF Resume, Moves
  <2> QED BY <1>1, <1>4, <2>1, MovesKeep
<1>6. CASE Body(r)
  <2>1. Moves(r)
    BY <1>2, <1>3, <1>6 DEF Body, Moves
  <2> QED BY <1>1, <1>4, <2>1, MovesKeep
<1>7. CASE MaskStarts(r)
  <2>1. Moves(r)
    BY <1>2, <1>3, <1>7 DEF MaskStarts, Moves
  <2> QED BY <1>1, <1>4, <2>1, MovesKeep
<1>8. CASE StreamEnds(r)
  <2>0. answer[r] \in Answers
    BY <1>1
  <2>1. answer[r].left \in SUBSET Values
    BY <2>0 DEF Answers
  <2>2. Moves(r)
    BY <1>2, <2>1, <1>8 DEF StreamEnds, Moves
  <2> QED BY <1>1, <1>4, <2>2, MovesKeep
<1> QED BY <1>5, <1>6, <1>7, <1>8


LEMMA AnswersKeep ==
    ASSUME SessionsInv, NEW r \in Requests, Answered(r) \/ Chunk(r)
    PROVE  SessionsInv'
<1>1. /\ shown \in [Sessions -> SUBSET Values] /\ answer \in [Requests -> Answers]
      /\ \A s \in Sessions : shown[s] \subseteq said[s]
  BY DEF SessionsInv, ServerInv, ServerTypeOK, OnlyOwnValues
<1>2. {"error", "relayed", "broken", "ok"} \subseteq Statuses /\ {} \in SUBSET Values
      /\ "stream" \in PCs /\ "stream" # "detect"
  BY DEF Statuses, PCs
<1>3. InProgress(r) /\ UNCHANGED <<serverVars, vault, disposed, stopVars, said, sent>>
  BY DEF Answered, Chunk, InProgress
<1>4. Moves(r) /\ (UNCHANGED shown \/ \E tokens \in Tokens : Show(r, tokens))
  <2>1. ASSUME NEW tokens \in Tokens, Show(r, tokens)
        PROVE  tokens \ vault[req[r].remover] \in SUBSET Values
    BY <1>3, <2>1, ShowIsOwn
  <2>2. CASE Answered(r)
    <3>1. CASE Reply(r, "error", {}) /\ UNCHANGED shown
      BY <1>2, <3>1 DEF Moves
    <3>2. CASE Reply(r, "relayed", {}) /\ UNCHANGED shown
      BY <1>2, <3>2 DEF Moves
    <3>3. CASE Goto(r, "stream") /\ UNCHANGED <<answer, shown>>
      BY <1>2, <3>3 DEF Moves
    <3>4. CASE \E tokens \in Tokens :
                 Reply(r, "ok", tokens \ vault[req[r].remover]) /\ Show(r, tokens)
      BY <1>2, <2>1, <3>4 DEF Moves
    <3> QED BY <2>2, <3>1, <3>2, <3>3, <3>4 DEF Answered
  <2>3. CASE Chunk(r)
    <3>1. CASE Reply(r, "broken", {}) /\ UNCHANGED shown
      BY <1>2, <3>1 DEF Moves
    <3>2. ASSUME NEW tokens \in Tokens, Show(r, tokens), NEW left,
                 left = answer[r].left \cup (tokens \ vault[req[r].remover]),
                 \/ Reply(r, "ok", left)
                 \/ UNCHANGED req /\ answer' = [answer EXCEPT ![r].left = left]
          PROVE  Moves(r) /\ \E t \in Tokens : Show(r, t)
      <4>1. answer[r] \in Answers
        BY <1>1
      <4>2. left \in SUBSET Values
        BY <2>1, <3>2, <4>1 DEF Answers
      <4> QED BY <1>2, <3>2, <4>2 DEF Moves
    <3> QED BY <2>3, <3>1, <3>2 DEF Chunk
  <2> QED BY <2>2, <2>3
<1> QED BY <1>1, <1>3, <1>4, ShowIsOwn, MovesKeep

LEMMA SendKeeps ==
    ASSUME SessionsInv, NEW r \in Requests, Send(r)
    PROVE  SessionsInv'
<1> USE DEF SessionsInv, ServerInv, Send, serverVars, stopVars
<1>1. /\ req' \in [Requests -> Handlers'] /\ \A q \in Requests : Holds(q)
      /\ req'[r].pc = "upstream" /\ \A q \in Requests \ {r} : req'[q] = req[q]
      /\ InProgress(r)
  BY GotoMoves DEF PCs, InProgress
<1>2. /\ req[r] \in Handlers
      /\ sent' = [sent EXCEPT ![req[r].session] = @ \cup req[r].tokens]
  BY DEF ServerTypeOK
<1>3. ServerTypeOK'
  BY <1>1, <1>2 DEF ServerTypeOK, Handlers, Answers
<1>4. OneRemoverPerSession' /\ Dedicated' /\ VaultsAreSaid'
  <2>1. OneRemoverPerSession'
    BY <1>1 DEF OneRemoverPerSession, InProgress, Holds
  <2>2. Dedicated'
    BY <1>1 DEF Dedicated, InProgress, Holds
  <2>3. VaultsAreSaid'
    BY <1>1 DEF VaultsAreSaid, InProgress, Holds, Removers
  <2> QED BY <2>1, <2>2, <2>3
<1>5. SentIsKnown'
  <2>1. \A s \in Sessions :
          s # req[r].session => sent'[s] = sent[s]
    BY <1>2 DEF ServerTypeOK
  <2>2. sent'[req[r].session] = sent[req[r].session] \cup req[r].tokens
    BY <1>2 DEF ServerTypeOK, Handlers
  <2>3. ASSUME stop # "done", NEW s \in Sessions
        PROVE  sent'[s] \subseteq (IF entry[s] = 0 THEN {} ELSE vault[entry[s]])
    <3>1. CASE s = req[r].session
      BY <1>1, <2>2, <2>3, <3>1 DEF SentIsKnown, Dedicated
    <3>2. CASE s # req[r].session
      BY <2>1, <2>3, <3>2 DEF SentIsKnown
    <3> QED BY <3>1, <3>2
  <2>4. ASSUME NEW q \in Requests, InProgress(q)', req'[q].remover \notin disposed
        PROVE  req'[q].tokens \cup sent'[req'[q].session] \subseteq vault[req'[q].remover]
    <3>1. InProgress(q) /\ req'[q].session = req[q].session
          /\ req'[q].remover = req[q].remover /\ req'[q].tokens = req[q].tokens
      BY <1>1, <2>4 DEF Holds
    <3>2. CASE req[q].session = req[r].session
      <4>1. req[q].remover = req[r].remover
        BY <1>1, <3>1, <3>2 DEF OneRemoverPerSession
      <4> QED BY <1>1, <2>2, <2>4, <3>1, <3>2, <4>1 DEF SentIsKnown
    <3>3. CASE req[q].session # req[r].session
      <4>1. req[q].session \in Sessions
        BY DEF ServerTypeOK, Handlers
      <4> QED BY <2>1, <2>4, <3>1, <3>3, <4>1 DEF SentIsKnown
    <3> QED BY <3>2, <3>3
  <2> QED BY <2>3, <2>4 DEF SentIsKnown
<1>6. OnlyOwnValues' /\ DetectHasText'
  BY <1>1 DEF OnlyOwnValues, DetectHasText
<1> QED BY <1>3, <1>4, <1>5, <1>6


\* The rest of mask(): the vault and the request learn a value its session has sent.
LEMMA MaskEndsKeeps ==
    ASSUME SessionsInv, NEW r \in Requests, MaskEnds(r)
    PROVE  SessionsInv'
<1> USE DEF SessionsInv, ServerInv
<1>0. /\ InProgress(r) /\ req[r].body # <<>> /\ req[r] \in Handlers
      /\ req[r].remover \in Removers /\ "error" \in Statuses
  BY RemoversAreMade DEF MaskEnds, InProgress, DetectHasText, ServerTypeOK, Statuses
<1>1. CASE Reply(r, "error", {}) /\ UNCHANGED vault
  <2>1. Moves(r)
    BY <1>0, <1>1 DEF Moves
  <2>2. UNCHANGED <<serverVars, vault, disposed, stopVars, said, sent, shown>>
    BY <1>1 DEF MaskEnds, historyVars
  <2> QED BY <1>0, <2>1, <2>2, MovesKeep DEF ServerTypeOK, OnlyOwnValues
<1>2. CASE ~(Reply(r, "error", {}) /\ UNCHANGED vault)
  <2> DEFINE m == req[r].remover
             found == Head(req[r].body)
             s == req[r].session
  <2>1. /\ vault' = [vault EXCEPT ![m] = @ \cup found]
        /\ req' = [req EXCEPT ![r].pc = "mask", ![r].body = Tail(@),
                              ![r].tokens = @ \cup found]
        /\ UNCHANGED <<serverVars, disposed, stopVars, historyVars, answer>>
    BY <1>2 DEF MaskEnds
  <2>2. /\ found \in SUBSET Values /\ found \subseteq said[s]
        /\ Tail(req[r].body) \in Seq(SUBSET Values)
        /\ \A i \in DOMAIN Tail(req[r].body) : Tail(req[r].body)[i] \subseteq said[s]
    <3>1. req[r].body \in Seq(SUBSET Values)
          /\ \A i \in DOMAIN req[r].body : req[r].body[i] \subseteq said[s]
      BY <1>0 DEF Handlers, VaultsAreSaid
    <3> QED BY <1>0, <3>1
  <2>3. /\ req' \in [Requests -> Handlers']
        /\ \A q \in Requests \ {r} : req'[q] = req[q]
        /\ req'[r].pc = "mask" /\ req'[r].session = s /\ req'[r].remover = m
        /\ req'[r].body = Tail(req[r].body) /\ req'[r].tokens = req[r].tokens \cup found
    BY <1>0, <2>1, <2>2 DEF ServerTypeOK, Handlers, PCs, serverVars
  <2>4. /\ vault' \in [Removers -> SUBSET Values]
        /\ \A n \in Removers \ {m} : vault'[n] = vault[n]
        /\ vault'[m] = vault[m] \cup found
    BY <1>0, <2>1, <2>2 DEF ServerTypeOK
  <2>5. \A q \in Requests : InProgress(q)' =>
          /\ InProgress(q) /\ req'[q].session = req[q].session
          /\ req'[q].remover = req[q].remover
          /\ req[q].remover = m <=> req[q].session = s
    BY <1>0, <2>3 DEF InProgress, OneRemoverPerSession
  <2>6. UNCHANGED <<entry, made, stop, disposed, said, sent, shown>>
    BY <2>1 DEF serverVars, stopVars, historyVars
  <2>7. ServerTypeOK'
    BY <2>1, <2>3, <2>4 DEF ServerTypeOK, Answers, serverVars, stopVars, historyVars
  <2>8. OneRemoverPerSession' /\ Dedicated'
    <3>1. OneRemoverPerSession'
      BY <2>5 DEF OneRemoverPerSession
    <3>2. Dedicated'
      BY <2>5, <2>6 DEF Dedicated
    <3> QED BY <3>1, <3>2
  <2>9. VaultsAreSaid'
    <3>1. ASSUME NEW t \in Sessions, entry[t] # 0
          PROVE  vault'[entry[t]] \subseteq said[t]
      <4>1. entry[t] \in Removers /\ vault[entry[t]] \subseteq said[t]
        BY <3>1, RemoversAreMade DEF VaultsAreSaid
      <4>2. entry[t] = m => t = s
        BY <1>0, <3>1 DEF Dedicated
      <4> QED BY <2>2, <2>4, <4>1, <4>2
    <3>2. ASSUME NEW n \in Removers, n > made PROVE vault'[n] = {}
      <4>1. m # n
        BY <1>0, <3>2, RemoversAreMade DEF Removers
      <4> QED BY <2>4, <3>2, <4>1 DEF VaultsAreSaid
    <3>3. ASSUME NEW q \in Requests, InProgress(q)'
          PROVE  /\ vault'[req'[q].remover] \subseteq said[req'[q].session]
                 /\ \A i \in DOMAIN req'[q].body :
                      req'[q].body[i] \subseteq said[req'[q].session]
      <4>1. vault[req[q].remover] \subseteq said[req[q].session]
        BY <2>5, <3>3 DEF VaultsAreSaid
      <4>2. req[q].remover \in Removers
        BY <2>5, <3>3, RemoversAreMade
      <4>3. vault'[req'[q].remover] \subseteq said[req'[q].session]
        BY <2>2, <2>4, <2>5, <3>3, <4>1, <4>2
      <4>4. CASE q = r
        BY <2>2, <2>3, <4>3, <4>4
      <4>5. CASE q # r
        BY <2>3, <2>5, <3>3, <4>3, <4>5 DEF VaultsAreSaid
      <4> QED BY <4>4, <4>5
    <3> QED BY <2>6, <3>1, <3>2, <3>3 DEF VaultsAreSaid, Removers
  <2>10. SentIsKnown'
    <3>1. ASSUME NEW t \in Sessions, stop # "done"
          PROVE  sent[t] \subseteq (IF entry[t] = 0 THEN {} ELSE vault'[entry[t]])
      <4>1. entry[t] # 0 => entry[t] \in Removers
        BY RemoversAreMade
      <4> QED BY <2>4, <3>1, <4>1 DEF SentIsKnown
    <3>2. ASSUME NEW q \in Requests, InProgress(q)', req'[q].remover \notin disposed
          PROVE  req'[q].tokens \cup sent[req'[q].session] \subseteq vault'[req'[q].remover]
      <4>1. req[q].tokens \cup sent[req[q].session] \subseteq vault[req[q].remover]
        BY <2>5, <3>2 DEF SentIsKnown
      <4>2. req[q].remover \in Removers
        BY <2>5, <3>2, RemoversAreMade
      <4>3. vault[req[q].remover] \subseteq vault'[req[q].remover]
        BY <2>4, <4>2
      <4>4. CASE q = r
        BY <2>3, <2>4, <4>1, <4>3, <4>4
      <4>5. CASE q # r
        BY <2>3, <4>1, <4>3, <4>5
      <4> QED BY <4>4, <4>5
    <3> QED BY <2>6, <3>1, <3>2 DEF SentIsKnown
  <2>11. OnlyOwnValues' /\ DetectHasText'
    BY <2>1, <2>3 DEF OnlyOwnValues, DetectHasText, historyVars
  <2> QED BY <2>7, <2>8, <2>9, <2>10, <2>11
<1> QED BY <1>1, <1>2


\* A request of a session the pool knows joins it; a new session gets the next remover,
\* which nobody has and whose vault is empty.
LEMMA ArriveKeeps ==
    ASSUME SessionsInv, NEW r \in Requests, NEW s \in Sessions, NEW body \in Bodies[s],
           Arrive(r, s, body)
    PROVE  SessionsInv'
<1> USE DEF SessionsInv, ServerInv
<1>1. PICK m \in IF Existing(s) # {} THEN Existing(s) ELSE {made + 1} :
        /\ m \in Removers
        /\ made' = IF m > made THEN m ELSE made
        /\ entry' = [entry EXCEPT ![s] = m]
        /\ req' = [req EXCEPT ![r] = [pc |-> "session", session |-> s, remover |-> m,
                                      body |-> body, tokens |-> {}]]
  BY DEF Arrive
<1>2. /\ stop = "no" /\ ~InProgress(r) /\ disposed = {}
      /\ said' = [said EXCEPT ![s] = @ \cup UNION {body[i] : i \in DOMAIN body}]
      /\ answer' = [answer EXCEPT ![r] = NoAnswer]
      /\ UNCHANGED <<promise, vault, disposed, stop, awaited, sent, shown>>
  BY DEF Arrive, InProgress, SentIsKnown, stopVars
<1>3. body \in Seq(SUBSET Values) /\ made \in Nat /\ MaxRemovers \in Nat
  BY ProxyAssumption, RemoversAreMade
<1>4. \/ m = entry[s] /\ m # 0 /\ m <= made /\ made' = made
      \/ entry[s] = 0 /\ m = made + 1 /\ made' = m
  BY <1>1, <1>3, RemoversAreMade DEF Existing, Removers
<1>5. /\ made' \in 0 .. MaxRemovers /\ made <= made' /\ m <= made' /\ m \in 1 .. made'
      /\ \A q \in Requests : InProgress(q) /\ req[q].remover = m => entry[s] = m
      /\ \A t \in Sessions : entry[t] = m => t = s
  <2>1. made' \in 0 .. MaxRemovers /\ made <= made' /\ m <= made' /\ m \in 1 .. made'
    BY <1>1, <1>3, <1>4 DEF Removers, ServerTypeOK
  <2>2. \A q \in Requests : InProgress(q) /\ req[q].remover = m => entry[s] = m
    BY <1>3, <1>4, RemoversAreMade
  <2>3. \A t \in Sessions : entry[t] = m => t = s
    BY <1>1, <1>3, <1>4, RemoversAreMade DEF Dedicated, Removers
  <2> QED BY <2>1, <2>2, <2>3
<1>6. /\ \A t \in Sessions : entry'[t] = IF t = s THEN m ELSE entry[t]
      /\ \A q \in Requests \ {r} : req'[q] = req[q]
      /\ req'[r].pc = "session" /\ req'[r].session = s /\ req'[r].remover = m
      /\ req'[r].body = body /\ req'[r].tokens = {}
      /\ \A t \in Sessions \ {s} : said'[t] = said[t]
      /\ said'[s] = said[s] \cup UNION {body[i] : i \in DOMAIN body}
  BY <1>1, <1>2 DEF ServerTypeOK
<1>7. \A q \in Requests \ {r} : InProgress(q)' =>
        InProgress(q) /\ (req[q].session = s <=> req[q].remover = m)
  <2>1. ASSUME NEW q \in Requests \ {r}, InProgress(q)'
        PROVE  InProgress(q) /\ (req[q].session = s <=> req[q].remover = m)
    <3>1. InProgress(q)
      BY <1>6, <2>1 DEF InProgress
    <3>2. req[q].session = s => entry[s] # 0
      BY <1>2, <3>1 DEF Dedicated
    <3> QED BY <1>4, <1>5, <3>1, <3>2 DEF Dedicated
  <2> QED BY <2>1
<1>8. ServerTypeOK'
  <2>1. \A q \in Requests : req'[q] \in Handlers'
    <3>1. ASSUME NEW q \in Requests \ {r} PROVE req'[q] \in Handlers'
      <4>1. req[q] \in Handlers
        BY DEF ServerTypeOK
      <4>2. req[q].remover \in 0 .. made'
        BY <1>3, <1>5, <4>1 DEF Handlers
      <4> QED BY <1>6, <4>1, <4>2 DEF Handlers
    <3>2. req'[r] \in Handlers'
      <4>1. req'[r] = [pc |-> "session", session |-> s, remover |-> m,
                       body |-> body, tokens |-> {}]
        BY <1>1 DEF ServerTypeOK
      <4>2. m \in 0 .. made'
        BY <1>5
      <4> QED BY <1>3, <4>1, <4>2 DEF Handlers, PCs
    <3> QED BY <3>1, <3>2
  <2>2. req' \in [Requests -> Handlers']
    BY <1>1, <2>1 DEF ServerTypeOK
  <2>3. answer' \in [Requests -> Answers']
    BY <1>2 DEF ServerTypeOK, Answers, Statuses, NoAnswer
  <2>4. entry' \in [Sessions -> 0 .. made'] /\ disposed' \subseteq 1 .. made'
        /\ awaited' \subseteq 1 .. made'
    BY <1>1, <1>2, <1>3, <1>5 DEF ServerTypeOK
  <2>5. said' \in [Sessions -> SUBSET Values]
    <3>1. UNION {body[i] : i \in DOMAIN body} \in SUBSET Values
      BY <1>3
    <3> QED BY <1>2, <3>1 DEF ServerTypeOK
  <2> QED BY <1>2, <1>5, <2>2, <2>3, <2>4, <2>5 DEF ServerTypeOK
<1>9. OneRemoverPerSession'
  BY <1>6, <1>7 DEF OneRemoverPerSession, InProgress
<1>10. Dedicated'
  <2>1. \A t, u \in Sessions : entry'[t] = entry'[u] /\ entry'[t] # 0 => t = u
    BY <1>5, <1>6 DEF Dedicated
  <2>2. ASSUME NEW q \in Requests, InProgress(q)'
        PROVE  /\ req'[q].remover # 0
               /\ \A t \in Sessions :
                    entry'[t] # 0 => (req'[q].session = t <=> req'[q].remover = entry'[t])
               /\ entry'[req'[q].session] # 0
    <3>1. CASE q = r
      BY <1>5, <1>6, <3>1
    <3>2. CASE q # r
      <4>1. req[q].session \in Sessions
        BY DEF ServerTypeOK, Handlers
      <4>2. InProgress(q) /\ req'[q] = req[q] /\ (req[q].session = s <=> req[q].remover = m)
        BY <1>6, <1>7, <2>2, <3>2
      <4>3. ASSUME NEW t \in Sessions, entry'[t] # 0
            PROVE  req[q].session = t <=> req[q].remover = entry'[t]
        BY <1>6, <4>2, <4>3 DEF Dedicated
      <4>4. req[q].remover # 0 /\ entry[req[q].session] # 0
        BY <1>2, <4>2 DEF Dedicated
      <4> QED BY <1>5, <1>6, <4>1, <4>2, <4>3, <4>4
    <3> QED BY <3>1, <3>2
  <2> QED BY <1>2, <2>1, <2>2 DEF Dedicated
<1>11. VaultsAreSaid'
  <2>1. vault[m] \subseteq said[s]
    BY <1>1, <1>3, <1>4 DEF VaultsAreSaid
  <2>2. ASSUME NEW t \in Sessions, entry'[t] # 0 PROVE vault[entry'[t]] \subseteq said'[t]
    <3>1. said[t] \subseteq said'[t]
      BY <1>6
    <3> QED BY <1>6, <2>1, <2>2, <3>1 DEF VaultsAreSaid
  <2>3. \A n \in Removers : n > made' => vault[n] = {}
    BY <1>3, <1>5 DEF VaultsAreSaid, Removers
  <2>4. ASSUME NEW q \in Requests, InProgress(q)'
        PROVE  /\ vault[req'[q].remover] \subseteq said'[req'[q].session]
               /\ \A i \in DOMAIN req'[q].body :
                    req'[q].body[i] \subseteq said'[req'[q].session]
    <3>1. CASE q = r
      <4>1. \A i \in DOMAIN body : body[i] \subseteq said'[s]
        BY <1>6
      <4> QED BY <1>6, <2>1, <3>1, <4>1
    <3>2. CASE q # r
      <4>1. req[q].session \in Sessions /\ said[req[q].session] \subseteq said'[req[q].session]
        BY <1>6 DEF ServerTypeOK, Handlers
      <4> QED BY <1>6, <1>7, <2>4, <3>2, <4>1 DEF VaultsAreSaid
    <3> QED BY <3>1, <3>2
  <2> QED BY <1>2, <2>2, <2>3, <2>4 DEF VaultsAreSaid, Removers
<1>12. SentIsKnown'
  <2>1. sent[s] \subseteq vault[m]
    BY <1>2, <1>4 DEF SentIsKnown
  <2>2. \A t \in Sessions :
          sent[t] \subseteq (IF entry'[t] = 0 THEN {} ELSE vault[entry'[t]])
    BY <1>2, <1>5, <1>6, <2>1 DEF SentIsKnown, Removers
  <2>3. ASSUME NEW q \in Requests, InProgress(q)'
        PROVE  req'[q].tokens \cup sent[req'[q].session] \subseteq vault[req'[q].remover]
    <3>1. CASE q = r
      BY <1>6, <2>1, <3>1
    <3>2. CASE q # r
      BY <1>2, <1>6, <1>7, <2>3, <3>2 DEF SentIsKnown
    <3> QED BY <3>1, <3>2
  <2> QED BY <1>2, <2>2, <2>3 DEF SentIsKnown
<1>13. OnlyOwnValues'
  BY <1>2, <1>6 DEF OnlyOwnValues
<1>14. DetectHasText'
  BY <1>6 DEF DetectHasText
<1> QED BY <1>8, <1>9, <1>10, <1>11, <1>12, <1>13, <1>14


\* init ends, or stop() begins or fails: nothing a handler or a session has is touched.
LEMMA OthersKeep ==
    ASSUME SessionsInv, (\E m \in Removers : InitEnds(m)) \/ Stop \/ StopFails
    PROVE  SessionsInv'
<1> USE DEF SessionsInv, ServerInv
<1>1. UNCHANGED <<entry, made, vault, disposed, req, answer, said, sent, shown>>
  BY DEF InitEnds, Stop, StopFails, serverVars, stopVars, historyVars
<1>2. stop = "done" <=> stop' = "done"
  BY DEF InitEnds, Stop, StopFails, stopVars
<1>3. ServerTypeOK'
  <2>1. promise' \in [Removers -> {"pending", "ready", "failed"}]
    BY DEF ServerTypeOK, InitEnds, Stop, StopFails, serverVars
  <2>2. stop' \in {"no", "waiting", "done", "failed"}
    BY DEF ServerTypeOK, InitEnds, Stop, StopFails, stopVars
  <2>3. awaited' \subseteq 1 .. made
    <3>1. {entry[s] : s \in Sessions} \ {0} \subseteq 1 .. made
      BY RemoversAreMade DEF Removers
    <3> QED BY <3>1 DEF ServerTypeOK, InitEnds, Stop, StopFails, stopVars
  <2> QED BY <1>1, <2>1, <2>2, <2>3 DEF ServerTypeOK, Handlers, Answers
<1>4. OneRemoverPerSession' /\ Dedicated' /\ VaultsAreSaid' /\ SentIsKnown'
  BY <1>1, <1>2, HoldingKeeps DEF Holds, InProgress
<1>5. OnlyOwnValues' /\ DetectHasText'
  BY <1>1 DEF OnlyOwnValues, DetectHasText
<1> QED BY <1>3, <1>4, <1>5

\* disposeAll empties the vaults of the sessions and forgets them, while their requests go
\* on with disposed removers.
LEMMA DrainKeeps ==
    ASSUME SessionsInv, Drain
    PROVE  SessionsInv'
<1> USE DEF SessionsInv, ServerInv
<1>1. /\ stop' = "done" /\ disposed' = disposed \cup awaited
      /\ vault' = [m \in Removers |-> IF m \in awaited THEN {} ELSE vault[m]]
      /\ entry' = [s \in Sessions |-> 0]
      /\ UNCHANGED <<made, promise, req, answer, awaited, said, sent, shown>>
  BY DEF Drain, historyVars
<1>2. \A m \in Removers : vault'[m] \subseteq vault[m] /\ (m \notin awaited => vault'[m] = vault[m])
  BY <1>1
<1>3. ServerTypeOK'
  BY <1>1 DEF ServerTypeOK, Handlers, Answers
<1>4. OneRemoverPerSession'
  BY <1>1 DEF OneRemoverPerSession, InProgress
<1>5. Dedicated'
  BY <1>1 DEF Dedicated, InProgress
<1>6. VaultsAreSaid'
  <2>1. \A m \in Removers : m > made => vault'[m] = {}
    BY <1>1 DEF VaultsAreSaid
  <2>2. ASSUME NEW r \in Requests, InProgress(r)
        PROVE  vault'[req[r].remover] \subseteq said[req[r].session]
    BY <1>2, <2>2, RemoversAreMade DEF VaultsAreSaid
  <2> QED BY <1>1, <2>1, <2>2 DEF VaultsAreSaid, InProgress, Removers
<1>7. SentIsKnown'
  <2>1. ASSUME NEW r \in Requests, InProgress(r), req[r].remover \notin disposed'
        PROVE  req[r].tokens \cup sent[req[r].session] \subseteq vault'[req[r].remover]
    <3>1. req[r].remover \notin disposed /\ req[r].remover \notin awaited
      BY <1>1, <2>1
    <3> QED BY <1>2, <2>1, <3>1, RemoversAreMade DEF SentIsKnown
  <2> QED BY <1>1, <2>1 DEF SentIsKnown, InProgress
<1>8. OnlyOwnValues' /\ DetectHasText'
  BY <1>1 DEF OnlyOwnValues, DetectHasText
<1> QED BY <1>3, <1>4, <1>5, <1>6, <1>7, <1>8

-----------------------------------------------------------------------------
(* The theorems                                                            *)

LEMMA SessionsInvInit ==
    ASSUME ServerInit
    PROVE  SessionsInv
<1> USE ProxyAssumption DEF ServerInit, InProgress, NoAnswer
<1>1. \A r \in Requests : req[r] = Idle /\ req[r].pc = "idle"
  BY DEF Idle
<1>2. ServerTypeOK
  <2>1. Idle \in Handlers
    BY DEF Idle, Handlers, PCs
  <2>2. NoAnswer \in Answers
    BY DEF Answers, Statuses
  <2> QED BY <2>1, <2>2 DEF ServerTypeOK
<1>3. OneRemoverPerSession /\ OnlyOwnValues
  BY <1>1 DEF OneRemoverPerSession, OnlyOwnValues
<1>4. Dedicated /\ VaultsAreSaid /\ SentIsKnown /\ DetectHasText
  BY <1>1 DEF Dedicated, VaultsAreSaid, SentIsKnown, DetectHasText
<1> QED BY <1>2, <1>3, <1>4 DEF SessionsInv, ServerInv

\* For any number of sessions and requests, and whenever init, detection, the upstream or
\* stop() fails or ends: the sessions' removers and vaults stay apart.
THEOREM SessionsStayApart == ServerSpec => []SessionsInv
<1>1. ASSUME SessionsInv, [ServerNext]_proxyVars PROVE SessionsInv'
  <2>1. ASSUME NEW r \in Requests,
               \/ \E s \in Sessions : \E body \in Bodies[s] : Arrive(r, s, body)
               \/ Handle(r)
        PROVE  SessionsInv'
    BY <1>1, <2>1, ArriveKeeps, HandlerMovesKeep, MaskEndsKeeps, SendKeeps, AnswersKeep
       DEF Handle
  <2>2. CASE UNCHANGED proxyVars
    BY <1>1, <2>2 DEF proxyVars, serverVars, stopVars, historyVars, SessionsInv, ServerInv,
       ServerTypeOK, Handlers, Answers, OneRemoverPerSession, OnlyOwnValues, InProgress,
       Dedicated, VaultsAreSaid, SentIsKnown, DetectHasText
  <2> QED BY <1>1, <2>1, <2>2, OthersKeep, DrainKeeps DEF ServerNext
<1> QED BY <1>1, SessionsInvInit, PTL DEF ServerSpec

\* session.ts:22,38: requests share a remover exactly when they share a session, and a
\* client never gets in clear what only other sessions have sent.
THEOREM ProxyIsSafe == ServerSpec => []ServerInv
<1>1. SessionsInv => ServerInv
  BY DEF SessionsInv
<1> QED BY <1>1, SessionsStayApart, PTL

\* A good answer has every token of its session restored, or its remover was disposed and
\* the answer is not a good one.
THEOREM AnswersAreComplete == ServerSpec => AnswerIsComplete
<1> DEFINE Complete(r) ==
      answer'[r] # answer[r] /\ answer'[r].status \in {"none", "ok"} /\ InProgress(r)
      => answer'[r].left \cap sent[req[r].session] \subseteq answer[r].left
<1>1. ASSUME SessionsInv, [ServerNext]_proxyVars, NEW r \in Requests PROVE Complete(r)
  <2> SUFFICES ASSUME answer'[r] # answer[r], answer'[r].status \in {"none", "ok"},
                      InProgress(r)
               PROVE  answer'[r].left \cap sent[req[r].session] \subseteq answer[r].left
    OBVIOUS
  <2>1. answer \in [Requests -> Answers]
    BY <1>1 DEF SessionsInv, ServerInv, ServerTypeOK
  <2>2. Usable(req[r].remover) => sent[req[r].session] \subseteq vault[req[r].remover]
    BY <1>1 DEF SessionsInv, SentIsKnown, Usable
  <2>3. Handle(r)
    <3>1. ASSUME NEW q \in Requests \ {r}, Handle(q) PROVE FALSE
      BY <2>1, <3>1 DEF Handle, Resume, Body, MaskStarts, MaskEnds, Send, Answered, Chunk,
         StreamEnds, Reply, historyVars
    <3>2. ASSUME NEW q \in Requests, NEW s \in Sessions, NEW body \in Bodies[s],
                 Arrive(q, s, body)
          PROVE  FALSE
      BY <2>1, <3>2 DEF Arrive, InProgress
    <3>3. ~(\E m \in Removers : InitEnds(m)) /\ ~Stop /\ ~Drain /\ ~StopFails
      BY DEF InitEnds, Stop, Drain, StopFails
    <3>4. ServerNext
      BY <1>1 DEF proxyVars
    <3> QED BY <3>1, <3>2, <3>3, <3>4 DEF ServerNext
  <2>4. ASSUME NEW status, NEW left, Reply(r, status, left)
        PROVE  answer'[r].status = status /\ answer'[r].left = left
    BY <2>1, <2>4 DEF Reply
  <2>5. ~Resume(r) /\ ~Body(r) /\ ~MaskStarts(r) /\ ~MaskEnds(r) /\ ~Send(r)
    <3>1. ~Reply(r, "error", {}) /\ ~Reply(r, "bad request", {}) /\ ~UNCHANGED answer
      <4>1. answer'[r].status # "error" /\ answer'[r].status # "bad request"
        OBVIOUS
      <4> QED BY <2>4, <4>1, Zenon
    <3>2. ~Resume(r) /\ ~Body(r) /\ ~MaskStarts(r)
      BY <3>1, Zenon DEF Resume, Body, MaskStarts
    <3>3. ~MaskEnds(r) /\ ~Send(r)
      BY <3>1 DEF MaskEnds, Send
    <3> QED BY <3>2, <3>3
  <2>6. CASE Answered(r)
    <3>1. ASSUME NEW tokens \in Tokens, Usable(req[r].remover),
                 Reply(r, "ok", tokens \ vault[req[r].remover])
          PROVE  answer'[r].left \cap sent[req[r].session] \subseteq answer[r].left
      <4>1. answer'[r].left = tokens \ vault[req[r].remover]
        BY <2>4, <3>1
      <4> QED BY <2>2, <3>1, <4>1
    <3> QED BY <2>4, <2>6, <3>1 DEF Answered
  <2>7. CASE Chunk(r)
    <3>1. ASSUME NEW tokens \in Tokens, Usable(req[r].remover), NEW left,
                 left = answer[r].left \cup (tokens \ vault[req[r].remover]),
                 Reply(r, "ok", left) \/ answer' = [answer EXCEPT ![r].left = left]
          PROVE  answer'[r].left \cap sent[req[r].session] \subseteq answer[r].left
      <4>1. answer'[r].left = left
        BY <2>1, <2>4, <3>1 DEF Answers
      <4> QED BY <2>2, <3>1, <4>1
    <3> QED BY <2>4, <2>7, <3>1 DEF Chunk
  <2>8. CASE StreamEnds(r)
    BY <2>4, <2>8 DEF StreamEnds
  <2> QED BY <2>3, <2>5, <2>6, <2>7, <2>8 DEF Handle
<1>2. SessionsInv /\ [ServerNext]_proxyVars => [\A r \in Requests : Complete(r)]_proxyVars
  BY <1>1
<1> QED BY <1>2, SessionsStayApart, PTL DEF ServerSpec, AnswerIsComplete

-----------------------------------------------------------------------------
(* The buffer of a stream                                                  *)

\* What has been handed on ends outside of every token.
BufferInv ==
    /\ BufferTypeOK
    /\ runs \in Texts
    /\ NoTokenIsCut
    /\ ~closed => released = 0 \/ released \in cuts

\* The boundary lies between what was handed on and the end of the buffer, and not
\* more than a window before that end.
LEMMA BoundaryRange ==
    ASSUME BufferInv, NEW end \in Nat, received <= end, end <= N,
           NEW b \in 0 .. N, Boundary(end, b)
    PROVE  released <= b /\ b <= end /\ end <= b + Window
  <1>1. CASE b = end
    BY <1>1, TextsAssumption DEF BufferInv, BufferTypeOK
  <1>2. CASE \E r \in Unfinished(end) : b = r.start
    BY <1>2, TextsAssumption DEF BufferInv, BufferTypeOK, Unfinished, InSight
  <1> QED
    BY <1>1, <1>2 DEF Boundary

\* The boundary is in no token.
LEMMA BoundaryCutsNothing ==
    ASSUME BufferInv, ~closed, NEW end \in Nat, received < end, end <= N,
           NEW b \in 0 .. N, Boundary(end, b), NEW t \in runs, t.whole
    PROVE  b <= t.start \/ End(t) <= b
  <1>0. /\ t.start \in Nat /\ t.length \in Nat /\ 0 < t.length /\ t.length <= Window
        /\ released \in Nat /\ received \in Nat /\ released <= received
        /\ N \in Nat /\ Window \in Nat
    BY TextsAssumption DEF BufferInv, BufferTypeOK
  <1>1. released <= t.start \/ End(t) <= released
    BY <1>0 DEF BufferInv, NoTokenIsCut, BufferTypeOK, End
  <1>2. CASE b = end /\ CompleteAt(end)
    <2>1. PICK u \in runs : u.whole /\ end = End(u) /\ InSight(u, end)
      BY <1>2 DEF CompleteAt
    <2>2. u.start \in Nat /\ u.length \in Nat /\ 0 < u.length
      BY <2>1, TextsAssumption DEF BufferInv
    <2>3. u = t \/ End(t) <= u.start \/ End(u) <= t.start
      BY <2>1, TextsAssumption DEF BufferInv, End
    <2> QED
      BY <1>0, <1>2, <2>1, <2>2, <2>3 DEF End
  <1>3. CASE b = end /\ Unfinished(end) = {}
    <2>1. ~(released <= t.start /\ end <= t.start + Window /\ t.start < end /\ end <= End(t))
      BY <1>3 DEF Unfinished, InSight
    <2> QED
      BY <1>0, <1>1, <1>3, <2>1 DEF End
  <1>4. ASSUME ~CompleteAt(end), NEW r \in Unfinished(end), b = r.start,
               \A q \in Unfinished(end) : r.start <= q.start
        PROVE  b <= t.start \/ End(t) <= b
    <2>1. r \in runs /\ r.start \in Nat /\ r.start < end
      BY <1>4, TextsAssumption DEF Unfinished, BufferInv
    <2>2. CASE t \in Unfinished(end)
      BY <1>4, <2>2
    <2>3. CASE t \notin Unfinished(end)
      <3>1. ~(released <= t.start /\ end <= t.start + Window /\ t.start < end /\ end <= End(t))
        BY <2>3 DEF Unfinished, InSight
      <3>2. released <= b /\ end <= End(r) /\ r.length \in Nat
        BY <1>4, <2>1, TextsAssumption DEF Unfinished, InSight, BufferInv
      <3>3. r # t
        BY <1>4, <2>3
      <3>4. End(t) <= r.start \/ End(r) <= End(t)
        BY <2>1, <3>3, TextsAssumption DEF BufferInv, End
      <3> QED
        BY <1>0, <1>1, <1>4, <2>1, <3>1, <3>2, <3>4 DEF End
    <2> QED
      BY <2>2, <2>3
  <1> QED
    BY <1>2, <1>3, <1>4 DEF Boundary

\* The invariant of every reachable state.
THEOREM BufferSafe == BufferSpec => []BufferInv
  <1>1. BufferInit => BufferInv
    <2> SUFFICES ASSUME BufferInit PROVE BufferInv
      OBVIOUS
    <2>1. BufferTypeOK
      <3>1. N \in Nat
        BY TextsAssumption
      <3>2. 0 \in 0 .. N /\ 0 \in 0 .. 0
        BY <3>1
      <3> QED
        BY <3>2 DEF BufferInit, BufferTypeOK
    <2>2. NoTokenIsCut
      BY DEF BufferInit, NoTokenIsCut
    <2> QED
      BY <2>1, <2>2 DEF BufferInit, BufferInv
  <1>2. BufferInv /\ [BufferNext]_bufferVars => BufferInv'
    <2> SUFFICES ASSUME BufferInv, [BufferNext]_bufferVars PROVE BufferInv'
      OBVIOUS
    <2>0. runs' = runs /\ NoTokenIsCut /\ BufferTypeOK
      BY DEF BufferInv, BufferNext, Push, Flush, bufferVars
    <2>1. CASE Push
      <3>1. PICK end \in (received + 1) .. N, b \in 0 .. N :
              /\ Boundary(end, b)
              /\ received' = end
              /\ released' = b
              /\ cuts' = IF b = released THEN cuts ELSE cuts \cup {b}
        BY <2>1 DEF Push
      <3>2. ~closed /\ ~closed' /\ received < end /\ end \in Nat /\ end <= N
        BY <2>1, <2>0, TextsAssumption DEF Push, BufferTypeOK
      <3>3. released <= b /\ b <= end
        BY <3>1, <3>2, <2>0, BoundaryRange DEF BufferTypeOK
      <3>4. \A t \in runs : t.whole => b <= t.start \/ End(t) <= b
        BY <3>1, <3>2, BoundaryCutsNothing
      <3>5. BufferTypeOK'
        <4>1. received' \in 0 .. N /\ released' \in 0 .. received'
          BY <3>1, <3>2, <3>3, <2>0, TextsAssumption DEF BufferTypeOK
        <4>2. cuts' \subseteq 0 .. released'
          BY <3>1, <3>3, <2>0, TextsAssumption DEF BufferTypeOK
        <4> QED
          BY <4>1, <4>2, <2>0, <2>1 DEF BufferTypeOK, Push
      <3>6. NoTokenIsCut'
        BY <3>1, <3>4, <2>0 DEF NoTokenIsCut, End
      <3>7. released' = 0 \/ released' \in cuts'
        BY <3>1, <3>2 DEF BufferInv
      <3> QED
        BY <3>5, <3>6, <3>7, <2>0 DEF BufferInv
    <2>2. CASE Flush
      <3>1. BufferTypeOK'
        BY <2>2, <2>0, TextsAssumption DEF Flush, BufferTypeOK
      <3>2. NoTokenIsCut'
        BY <2>2, <2>0 DEF Flush, NoTokenIsCut, End
      <3> QED
        BY <2>2, <3>1, <3>2, <2>0 DEF Flush, BufferInv
    <2>3. CASE UNCHANGED bufferVars
      BY <2>3 DEF bufferVars, BufferInv, BufferTypeOK, NoTokenIsCut, End
    <2> QED
      BY <2>1, <2>2, <2>3 DEF BufferNext
  <1> QED
    BY <1>1, <1>2, PTL DEF BufferSpec

\* buffer.ts:41: no slice boundary inside of a token, however the stream was split
\* into chunks.
THEOREM TokensStayInOnePiece == BufferSpec => []NoTokenIsCut
  BY BufferSafe, PTL DEF BufferInv

\* A token that ends where the buffer ends is seen as complete: none of it was handed on.
LEMMA CompleteIsSeen ==
    ASSUME BufferInv, ~closed, NEW end \in Nat, received < end, end <= N,
           NEW b \in 0 .. N, Boundary(end, b),
           NEW t \in runs, t.whole, end = End(t)
    PROVE  b = end
  <1>1. /\ t.start \in Nat /\ t.length \in Nat /\ t.length <= Window
        /\ released \in Nat /\ received \in Nat /\ released <= received
        /\ N \in Nat /\ Window \in Nat
    BY TextsAssumption DEF BufferInv, BufferTypeOK
  <1>2. released = 0 \/ released <= t.start \/ End(t) <= released
    BY <1>1 DEF BufferInv, NoTokenIsCut, BufferTypeOK, End
  <1>3. released <= t.start /\ end <= t.start + Window
    BY <1>1, <1>2 DEF End
  <1>4. CompleteAt(end)
    BY <1>3 DEF CompleteAt, InSight
  <1> QED
    BY <1>4 DEF Boundary

\* At most a window's worth of text is withheld, and no token that is complete.
THEOREM BufferHoldsAWindowAtMost == BufferSpec => []HeldIsBounded
  <1>1. BufferInv /\ BufferInit => HeldIsBounded
    <2> SUFFICES ASSUME BufferInv, BufferInit PROVE HeldIsBounded
      OBVIOUS
    <2> QED
      BY TextsAssumption DEF BufferInit, HeldIsBounded
  <1>2. BufferInv /\ HeldIsBounded /\ [BufferNext]_bufferVars => HeldIsBounded'
    <2> SUFFICES ASSUME BufferInv, HeldIsBounded, [BufferNext]_bufferVars PROVE HeldIsBounded'
      OBVIOUS
    <2>1. CASE Push
      <3>1. PICK end \in (received + 1) .. N, b \in 0 .. N :
              Boundary(end, b) /\ received' = end /\ released' = b
        BY <2>1 DEF Push
      <3>2. received < end /\ end \in Nat /\ end <= N /\ ~closed /\ runs' = runs
        BY <2>1, TextsAssumption DEF BufferInv, BufferTypeOK, Push
      <3>3. end <= b + Window
        BY <3>1, <3>2, BoundaryRange DEF BufferInv, BufferTypeOK
      <3>4. \A r \in runs : r.whole /\ end = End(r) => b = end
        BY <3>1, <3>2, CompleteIsSeen
      <3>5. received' - released' <= Window
        BY <3>1, <3>2, <3>3, TextsAssumption
      <3> QED
        BY <3>1, <3>2, <3>4, <3>5 DEF HeldIsBounded, End
    <2>2. CASE Flush
      BY <2>2, TextsAssumption DEF Flush, HeldIsBounded, BufferInv, BufferTypeOK
    <2>3. CASE UNCHANGED bufferVars
      BY <2>3 DEF bufferVars, HeldIsBounded, End
    <2> QED
      BY <2>1, <2>2, <2>3 DEF BufferNext
  <1> QED
    BY <1>1, <1>2, BufferSafe, PTL DEF BufferSpec

\* Nothing is handed on twice, and the flush leaves nothing behind.
THEOREM BufferLosesNothing == BufferSpec => EverythingComesOut
  <1>1. BufferInv /\ [BufferNext]_bufferVars =>
          [released <= released' /\ (closed' => released' = received')]_bufferVars
    <2> SUFFICES ASSUME BufferInv, BufferNext
                 PROVE  released <= released' /\ (closed' => released' = received')
      BY DEF bufferVars
    <2>1. CASE Push
      <3>1. PICK end \in (received + 1) .. N, b \in 0 .. N :
              Boundary(end, b) /\ received' = end /\ released' = b
        BY <2>1 DEF Push
      <3>2. received <= end /\ end \in Nat /\ end <= N
        BY TextsAssumption DEF BufferInv, BufferTypeOK
      <3> QED
        BY <2>1, <3>1, <3>2, BoundaryRange DEF Push
    <2>2. CASE Flush
      BY <2>2, TextsAssumption DEF Flush, BufferInv, BufferTypeOK
    <2> QED
      BY <2>1, <2>2 DEF BufferNext
  <1> QED
    BY <1>1, BufferSafe, PTL DEF BufferSpec, EverythingComesOut

-----------------------------------------------------------------------------
(* The pump of a streamed answer                                           *)

\* Until an abort what was read was enqueued, but for a chunk that the loop has not come
\* to yet; only an abort cancels the body, and only the end of the body ends the loop well.
PumpInv ==
    /\ PumpTypeOK
    /\ pump # "reading" => result = "none"
    /\ flushed => pump = "closed" /\ ~aborted
    /\ upstream = "cancelled" => aborted
    /\ ~aborted =>
         /\ enqueued = IF result = "chunk" THEN read - 1 ELSE read
         /\ result = "done" \/ pump = "closed" => upstream = "ended" /\ read = arrived
         /\ pump = "closed" => flushed

LEMMA PumpStays == PumpSpec => []PumpInv
<1>1. PumpInit => PumpInv
  <2> SUFFICES ASSUME PumpInit PROVE PumpInv
    OBVIOUS
  <2>1. PumpTypeOK
    <3>1. upstream \in {"sending", "ended", "broken", "cancelled"}
      BY DEF PumpInit
    <3>2. listening \in BOOLEAN /\ aborted \in BOOLEAN
      BY DEF PumpInit
    <3>3. arrived \in 0 .. MaxChunks /\ read \in 0 .. arrived /\ enqueued \in 0 .. read
      <4>1. arrived = 0 /\ read = 0 /\ enqueued = 0
        BY DEF PumpInit
      <4> QED BY <4>1, PumpAssumption
    <3>4. result = "none" /\ pump = "reading" /\ flushed = FALSE
      BY DEF PumpInit
    <3> QED BY <3>1, <3>2, <3>3, <3>4 DEF PumpTypeOK
  <2>2. upstream = "cancelled" => aborted
    BY DEF PumpInit
  <2> QED BY <2>1, <2>2 DEF PumpInit, PumpInv
<1>2. PumpInv /\ [PumpNext]_pumpVars => PumpInv'
  <2> SUFFICES ASSUME PumpInv, [PumpNext]_pumpVars PROVE PumpInv'
    OBVIOUS
  <2> USE PumpAssumption DEF PumpInv, PumpTypeOK
  <2>1. CASE Sends
    BY <2>1 DEF Sends
  <2>2. CASE Finish
    BY <2>2 DEF Finish
  <2>3. CASE Resolve
    BY <2>3 DEF Resolve
  <2>4. CASE Continue
    <3>1. CASE result = "chunk" /\ ~aborted
      BY <2>4, <3>1 DEF Continue
    <3>2. CASE ~(result = "chunk" /\ ~aborted)
      BY <2>4, <3>2 DEF Continue
    <3> QED BY <3>1, <3>2
  <2>5. CASE Abort
    BY <2>5 DEF Abort, Cancelled
  <2>6. CASE UNCHANGED pumpVars
    BY <2>6 DEF pumpVars
  <2> QED BY <2>1, <2>2, <2>3, <2>4, <2>5, <2>6 DEF PumpNext
<1> QED BY <1>1, <1>2, PTL DEF PumpSpec

\* A stream that was closed for a client that stayed has brought everything, the tail of the
\* transformer included (streamingResponse in server.ts).
THEOREM PumpIsComplete == PumpSpec => []ClosedIsComplete
<1>1. PumpInv => ClosedIsComplete
  BY DEF PumpInv, PumpTypeOK, ClosedIsComplete
<1> QED BY <1>1, PumpStays, PTL

\* A client that has gone is sent nothing, although a chunk may be on its way.
THEOREM AbortEndsAll == PumpSpec => NothingAfterAbort
<1>1. PumpInv /\ [PumpNext]_pumpVars => [aborted => enqueued' = enqueued /\ ~flushed']_pumpVars
  <2> SUFFICES ASSUME PumpInv, PumpNext, aborted PROVE enqueued' = enqueued /\ ~flushed'
    BY DEF pumpVars
  <2>0. ~flushed
    BY DEF PumpInv
  <2>1. CASE Sends \/ Finish \/ Resolve
    <3>1. UNCHANGED <<enqueued, flushed>>
      BY <2>1 DEF Sends, Finish, Resolve
    <3> QED BY <2>0, <3>1
  <2>2. CASE Continue
    BY <2>2 DEF Continue
  <2>3. CASE Abort
    BY <2>3 DEF Abort
  <2> QED BY <2>1, <2>2, <2>3 DEF PumpNext
<1> QED BY <1>1, PumpStays, PTL DEF PumpSpec, NothingAfterAbort

-----------------------------------------------------------------------------
(* The texts of a streamed answer: what a buffer holds of one, what is     *)
(* handed on, and what becomes of it when it is restored in slices.        *)


\* What concatenation does to sequences over one set.
LEMMA ConcatTexts ==
    ASSUME NEW S, NEW s \in Seq(S), NEW t \in Seq(S)
    PROVE  /\ s \o t \in Seq(S) /\ s \o <<>> = s /\ <<>> \o s = s
           /\ \A u \in Seq(S) : (s \o t) \o u = s \o (t \o u)
  BY ConcatProperties, ConcatEmptySeq, ConcatAssociative

\* What is restored has as many pieces as the text.
LEMMA RestoredText ==
    ASSUME NEW t \in Seq(Pieces)
    PROVE  Restored(t) \in Seq(Shown) /\ Len(Restored(t)) = Len(t)
<1> DEFINE piece(i) == CASE t[i] = "head" /\ i < Len(t) /\ t[i + 1] = "rest" -> "value"
                         [] t[i] = "rest" /\ i > 1 /\ t[i - 1] = "head" -> "value's rest"
                         [] OTHER -> t[i]
<1>1. ASSUME NEW i \in 1 .. Len(t) PROVE piece(i) \in Shown
  <2>1. t[i] \in Shown /\ "value" \in Shown /\ "value's rest" \in Shown
    BY ElementOfSeq DEF Shown
  <2>2. CASE t[i] = "head" /\ i < Len(t) /\ t[i + 1] = "rest"
    BY <2>1, <2>2
  <2>3. CASE t[i] = "rest" /\ i > 1 /\ t[i - 1] = "head"
    BY <2>1, <2>3
  <2>4. CASE /\ ~(t[i] = "head" /\ i < Len(t) /\ t[i + 1] = "rest")
             /\ ~(t[i] = "rest" /\ i > 1 /\ t[i - 1] = "head")
    BY <2>1, <2>4
  <2> QED BY <2>2, <2>3, <2>4
<1>2. Len(t) \in Nat
  OBVIOUS
<1> HIDE DEF piece
<1>3. [i \in 1 .. Len(t) |-> piece(i)] \in [1 .. Len(t) -> Shown]
  BY <1>1
<1>4. [i \in 1 .. Len(t) |-> piece(i)] \in Seq(Shown)
  BY <1>2, <1>3, SeqDef
<1>5. Restored(t) = [i \in 1 .. Len(t) |-> piece(i)]
  BY Zenon DEF Restored, piece
<1>6. DOMAIN Restored(t) = 1 .. Len(t)
  BY <1>5
<1>7. Restored(t) \in Seq(Shown)
  BY <1>4, <1>5
<1>8. Len(Restored(t)) = Len(t)
  BY <1>2, <1>6, <1>7, LenProperties
<1> QED BY <1>7, <1>8

\* What each of them becomes depends on its neighbours only.
LEMMA RestoredPiece ==
    ASSUME NEW t \in Seq(Pieces), NEW i \in 1 .. Len(t)
    PROVE  /\ t[i] = "head" /\ i < Len(t) /\ t[i + 1] = "rest" => Restored(t)[i] = "value"
           /\ t[i] = "rest" /\ i > 1 /\ t[i - 1] = "head" => Restored(t)[i] = "value's rest"
           /\ /\ ~(t[i] = "head" /\ i < Len(t) /\ t[i + 1] = "rest")
              /\ ~(t[i] = "rest" /\ i > 1 /\ t[i - 1] = "head")
              => Restored(t)[i] = t[i]
<1>1. Restored(t)[i] = CASE t[i] = "head" /\ i < Len(t) /\ t[i + 1] = "rest" -> "value"
                         [] t[i] = "rest" /\ i > 1 /\ t[i - 1] = "head" -> "value's rest"
                         [] OTHER -> t[i]
  BY DEF Restored
<1>2. ~(t[i] = "head" /\ t[i] = "rest")
  OBVIOUS
<1>3. CASE t[i] = "head" /\ i < Len(t) /\ t[i + 1] = "rest"
  BY <1>1, <1>3
<1>4. CASE t[i] = "rest" /\ i > 1 /\ t[i - 1] = "head"
  BY <1>1, <1>4
<1>5. CASE /\ ~(t[i] = "head" /\ i < Len(t) /\ t[i + 1] = "rest")
           /\ ~(t[i] = "rest" /\ i > 1 /\ t[i - 1] = "head")
  BY <1>1, <1>5
<1> QED BY <1>3, <1>4, <1>5

\* There is nothing in nothing.
LEMMA RestoredOfNothing == Restored(<<>>) = <<>>
<1>1. <<>> \in Seq(Pieces) /\ Len(<<>>) = 0
  BY EmptySeq
<1>2. Restored(<<>>) \in Seq(Shown) /\ Len(Restored(<<>>)) = 0
  BY <1>1, RestoredText
<1> QED BY <1>2, EmptySeq

\* EndsInHead without Last.
LEMMA EndingInHead ==
    ASSUME NEW t \in Seq(Pieces)
    PROVE  EndsInHead(t) <=> t # <<>> /\ t[Len(t)] = "head"
  BY DEF EndsInHead, Last

\* What is restored in two slices is what is restored in one, if no token is split between them.
LEMMA RestoredInSlices ==
    ASSUME NEW a \in Seq(Pieces), NEW b \in Seq(Pieces), b = <<>> \/ ~EndsInHead(a)
    PROVE  Restored(a \o b) = Restored(a) \o Restored(b)
<1>1. /\ a \o b \in Seq(Pieces) /\ Len(a \o b) = Len(a) + Len(b)
      /\ \A i \in 1 .. Len(a) + Len(b) : (a \o b)[i] = IF i <= Len(a) THEN a[i] ELSE b[i - Len(a)]
  BY ConcatProperties
<1>2. /\ Restored(a) \in Seq(Shown) /\ Len(Restored(a)) = Len(a)
      /\ Restored(b) \in Seq(Shown) /\ Len(Restored(b)) = Len(b)
      /\ Restored(a \o b) \in Seq(Shown) /\ Len(Restored(a \o b)) = Len(a) + Len(b)
  BY <1>1, RestoredText
<1>3. /\ Restored(a) \o Restored(b) \in Seq(Shown)
      /\ Len(Restored(a) \o Restored(b)) = Len(a) + Len(b)
      /\ \A i \in 1 .. Len(a) + Len(b) : (Restored(a) \o Restored(b))[i] =
             IF i <= Len(a) THEN Restored(a)[i] ELSE Restored(b)[i - Len(a)]
  <2>1. \A s, t \in Seq(Shown) :
          /\ s \o t \in Seq(Shown) /\ Len(s \o t) = Len(s) + Len(t)
          /\ \A i \in 1 .. Len(s) + Len(t) : (s \o t)[i] = IF i <= Len(s) THEN s[i] ELSE t[i - Len(s)]
    BY ConcatProperties
  <2>2. Restored(a) \in Seq(Shown) /\ Restored(b) \in Seq(Shown)
    BY <1>2
  <2>3. /\ Restored(a) \o Restored(b) \in Seq(Shown)
        /\ Len(Restored(a) \o Restored(b)) = Len(Restored(a)) + Len(Restored(b))
        /\ \A i \in 1 .. Len(Restored(a)) + Len(Restored(b)) :
               (Restored(a) \o Restored(b))[i] = IF i <= Len(Restored(a)) THEN Restored(a)[i]
                                                ELSE Restored(b)[i - Len(Restored(a))]
    BY <2>1, <2>2, Zenon
  <2> QED BY <2>3, <1>2
<1>4. Len(a) \in Nat /\ Len(b) \in Nat
  OBVIOUS
<1>5. CASE b = <<>>
  BY <1>2, <1>5, RestoredOfNothing, ConcatEmptySeq
<1>6. CASE b # <<>> /\ ~EndsInHead(a)
  <2>1. a # <<>> => a[Len(a)] # "head"
    BY <1>6, EndingInHead
  <2>2. ASSUME NEW i \in 1 .. Len(a) + Len(b)
        PROVE  Restored(a \o b)[i] = (Restored(a) \o Restored(b))[i]
    <3>1. CASE i <= Len(a)
      <4>0. i \in 1 .. Len(a) /\ a # <<>> /\ i \in 1 .. Len(a \o b)
        BY <3>1, <1>1, <1>4, EmptySeq
      <4>1. (a \o b)[i] = a[i] /\ (i > 1 => (a \o b)[i - 1] = a[i - 1])
        BY <1>1, <1>4, <3>1
      <4>2. i < Len(a) => (a \o b)[i + 1] = a[i + 1]
        BY <1>1, <1>4
      <4>3. i = Len(a) => a[i] # "head"
        BY <2>1, <4>0
      <4>5. i < Len(a) => i < Len(a \o b)
        BY <1>1, <1>4, <4>0
      <4>4. Restored(a \o b)[i] = Restored(a)[i]
        <5>1. CASE a[i] = "head" /\ i < Len(a) /\ a[i + 1] = "rest"
          <6>1. Restored(a)[i] = "value"
            BY <5>1, <4>0, RestoredPiece
          <6>2. (a \o b)[i] = "head" /\ i < Len(a \o b) /\ (a \o b)[i + 1] = "rest"
            BY <5>1, <4>1, <4>2, <4>5
          <6> QED BY <6>1, <6>2, <4>0, <1>1, RestoredPiece
        <5>2. CASE a[i] = "rest" /\ i > 1 /\ a[i - 1] = "head"
          <6>1. Restored(a)[i] = "value's rest"
            BY <5>2, <4>0, RestoredPiece
          <6>2. (a \o b)[i] = "rest" /\ i > 1 /\ (a \o b)[i - 1] = "head"
            BY <5>2, <4>1
          <6> QED BY <6>1, <6>2, <4>0, <1>1, RestoredPiece
        <5>3. CASE /\ ~(a[i] = "head" /\ i < Len(a) /\ a[i + 1] = "rest")
                   /\ ~(a[i] = "rest" /\ i > 1 /\ a[i - 1] = "head")
          <6>1. ~((a \o b)[i] = "head" /\ i < Len(a \o b) /\ (a \o b)[i + 1] = "rest")
            BY <5>3, <4>1, <4>2, <4>3, <3>1, <1>4
          <6>2. ~((a \o b)[i] = "rest" /\ i > 1 /\ (a \o b)[i - 1] = "head")
            BY <5>3, <4>1
          <6> QED BY <6>1, <6>2, <5>3, <4>0, <4>1, <1>1, RestoredPiece
        <5> QED BY <5>1, <5>2, <5>3
      <4> QED BY <4>4, <3>1, <1>3
    <3>2. CASE i > Len(a)
      <4> DEFINE j == i - Len(a)
      <4>0. j \in 1 .. Len(b) /\ i \in 1 .. Len(a \o b) /\ i > Len(a) /\ i \in Nat /\ i = j + Len(a)
        BY <3>2, <1>1, <1>4
      <4>1. (a \o b)[i] = b[j]
        BY <1>1, <1>4, <3>2
      <4>2. j < Len(b) => (a \o b)[i + 1] = b[j + 1] /\ i < Len(a \o b)
        <5>1. j < Len(b) => i + 1 \in 1 .. Len(a) + Len(b) /\ ~(i + 1 <= Len(a)) /\ i + 1 - Len(a) = j + 1
          BY <4>0, <1>4
        <5> QED BY <1>1, <5>1, <4>0, <1>4
      <4>3. j > 1 => (a \o b)[i - 1] = b[j - 1] /\ i > 1
        <5>1. j > 1 => i - 1 \in 1 .. Len(a) + Len(b) /\ ~(i - 1 <= Len(a)) /\ i - 1 - Len(a) = j - 1
          BY <4>0, <1>4
        <5> QED BY <1>1, <5>1, <4>0, <1>4
      <4>4. i < Len(a \o b) => j < Len(b)
        BY <4>0, <1>1, <1>4
      <4>5. j = 1 /\ i > 1 => (a \o b)[i - 1] # "head"
        <5>1. j = 1 /\ i > 1 => i - 1 = Len(a) /\ Len(a) \in 1 .. Len(a) + Len(b) /\ a # <<>>
          BY <4>0, <1>4, EmptySeq
        <5> QED BY <5>1, <1>1, <1>4, <2>1
      <4> HIDE DEF j
      <4>6. Restored(a \o b)[i] = Restored(b)[j]
        <5>1. CASE b[j] = "head" /\ j < Len(b) /\ b[j + 1] = "rest"
          BY <5>1, <4>0, <4>1, <4>2, <1>1, RestoredPiece
        <5>2. CASE b[j] = "rest" /\ j > 1 /\ b[j - 1] = "head"
          BY <5>2, <4>0, <4>1, <4>3, <1>1, RestoredPiece
        <5>3. CASE /\ ~(b[j] = "head" /\ j < Len(b) /\ b[j + 1] = "rest")
                   /\ ~(b[j] = "rest" /\ j > 1 /\ b[j - 1] = "head")
          <6>1. ~((a \o b)[i] = "head" /\ i < Len(a \o b) /\ (a \o b)[i + 1] = "rest")
            BY <5>3, <4>1, <4>2, <4>4
          <6>2. ~((a \o b)[i] = "rest" /\ i > 1 /\ (a \o b)[i - 1] = "head")
            BY <5>3, <4>0, <4>1, <4>3, <4>5
          <6> QED BY <6>1, <6>2, <5>3, <4>0, <4>1, <1>1, RestoredPiece
        <5> QED BY <5>1, <5>2, <5>3
      <4> QED BY <4>6, <3>2, <1>3 DEF j
    <3>3. i <= Len(a) \/ i > Len(a)
      BY <1>4
    <3> QED BY <3>1, <3>2, <3>3
  <2> QED BY <2>2, <1>2, <1>3, SeqEqual
<1> QED BY <1>5, <1>6

\* What a buffer keeps and what it hands on make up the text.
LEMMA HeldAndSafe ==
    ASSUME NEW t \in Seq(Pieces)
    PROVE  /\ Held(t) \in Seq(Pieces) /\ Held(t) \in {<<>>, <<"head">>}
           /\ Safe(t) \in Seq(Pieces)
           /\ t = Safe(t) \o Held(t)
           /\ Held(t) = <<>> => Safe(t) = t
<1>1. CASE EndsInHead(t)
  <2>1. t # <<>> /\ t[Len(t)] = "head" /\ Len(t) \in Nat \ {0}
    BY <1>1, EndingInHead, EmptySeq
  <2>2. Held(t) = <<"head">> /\ Len(<<"head">>) = 1 /\ <<"head">> # <<>>
    BY <1>1 DEF Held
  <2>3. <<"head">> \in Seq(Pieces)
    BY DEF Pieces
  <2>4. Safe(t) = SubSeq(t, 1, Len(t) - 1)
    BY <2>2 DEF Safe
  <2>5. \A i \in 1 .. Len(t) - 1 : t[i] \in Pieces
    BY <2>1, ElementOfSeq
  <2>6. /\ Safe(t) \in Seq(Pieces) /\ Len(Safe(t)) = Len(t) - 1
        /\ \A i \in 1 .. Len(t) - 1 : Safe(t)[i] = t[i]
    <3>0. Len(t) \in Nat /\ Len(t) # 0
      BY <2>1
    <3>1. 1 \in Int /\ Len(t) - 1 \in Int /\ (Len(t) - 1) - 1 + 1 = Len(t) - 1
          /\ (1 <= Len(t) - 1 \/ Len(t) - 1 = 0) /\ Len(t) - 1 \in Nat
      <4>1. \A n \in Nat : n # 0 =>
              /\ 1 \in Int /\ n - 1 \in Int /\ (n - 1) - 1 + 1 = n - 1
              /\ (1 <= n - 1 \/ n - 1 = 0) /\ n - 1 \in Nat
        OBVIOUS
      <4> QED BY <3>0, <4>1
    <3>2. /\ SubSeq(t, 1, Len(t) - 1) \in Seq(Pieces)
          /\ Len(SubSeq(t, 1, Len(t) - 1)) = IF 1 <= Len(t) - 1 THEN (Len(t) - 1) - 1 + 1 ELSE 0
          /\ \A i \in 1 .. (Len(t) - 1) - 1 + 1 : SubSeq(t, 1, Len(t) - 1)[i] = t[1 + i - 1]
      BY <2>5, <3>1, SubSeqProperties
    <3>3. \A i \in 1 .. Len(t) - 1 : 1 + i - 1 = i
      BY <3>1
    <3> QED BY <2>4, <3>1, <3>2, <3>3
  <2>7. /\ Safe(t) \o Held(t) \in Seq(Pieces) /\ Len(Safe(t) \o Held(t)) = Len(t)
        /\ \A i \in 1 .. Len(t) : (Safe(t) \o Held(t))[i] =
               IF i <= Len(t) - 1 THEN Safe(t)[i] ELSE Held(t)[i - (Len(t) - 1)]
    BY <2>1, <2>2, <2>3, <2>6, ConcatProperties
  <2>8. \A i \in 1 .. Len(t) : t[i] = (Safe(t) \o Held(t))[i]
    <3> SUFFICES ASSUME NEW i \in 1 .. Len(t) PROVE t[i] = (Safe(t) \o Held(t))[i]
      OBVIOUS
    <3>1. CASE i <= Len(t) - 1
      BY <3>1, <2>1, <2>6, <2>7
    <3>2. CASE i = Len(t)
      <4>1. i - (Len(t) - 1) = 1 /\ ~(i <= Len(t) - 1)
        BY <3>2, <2>1
      <4> QED BY <4>1, <3>2, <2>1, <2>2, <2>7
    <3>3. i <= Len(t) - 1 \/ i = Len(t)
      BY <2>1
    <3> QED BY <3>1, <3>2, <3>3
  <2>9. t = Safe(t) \o Held(t)
    BY <2>7, <2>8, SeqEqual
  <2> QED BY <2>2, <2>3, <2>6, <2>9
<1>2. CASE ~EndsInHead(t)
  <2>1. Held(t) = <<>> /\ Len(<<>>) = 0 /\ Len(t) \in Nat
    BY <1>2 DEF Held
  <2>2. Safe(t) = SubSeq(t, 1, Len(t))
    BY <2>1 DEF Safe
  <2>3. Safe(t) = t
    BY <2>2, SubSeqFull
  <2> QED BY <2>1, <2>3, ConcatEmptySeq, EmptySeq
<1> QED BY <1>1, <1>2

\* Both depend on what came last only.
LEMMA HeldBehind ==
    ASSUME NEW y \in Seq(Pieces), NEW x \in Seq(Pieces), x # <<>>
    PROVE  Held(y \o x) = Held(x) /\ Safe(y \o x) = y \o Safe(x)
<1>1. Len(x) \in Nat \ {0} /\ Len(y) \in Nat
  BY EmptySeq
<1>2. /\ y \o x \in Seq(Pieces) /\ Len(y \o x) = Len(y) + Len(x)
      /\ (y \o x)[Len(y) + Len(x)] = x[Len(x)]
  <2>1. \A i \in 1 .. Len(y) + Len(x) : (y \o x)[i] = IF i <= Len(y) THEN y[i] ELSE x[i - Len(y)]
    BY ConcatProperties
  <2>2. Len(y) + Len(x) \in 1 .. Len(y) + Len(x) /\ ~(Len(y) + Len(x) <= Len(y))
        /\ Len(y) + Len(x) - Len(y) = Len(x)
    BY <1>1
  <2> QED BY <2>1, <2>2, ConcatProperties
<1>3. y \o x # <<>>
  BY <1>1, <1>2, EmptySeq
<1>4. EndsInHead(y \o x) <=> EndsInHead(x)
  BY <1>2, <1>3, EndingInHead
<1>5. Held(y \o x) = Held(x)
  BY <1>4 DEF Held
<1>6. /\ y \o x = Safe(y \o x) \o Held(x) /\ x = Safe(x) \o Held(x)
      /\ Safe(y \o x) \in Seq(Pieces) /\ Safe(x) \in Seq(Pieces) /\ Held(x) \in Seq(Pieces)
  BY <1>2, <1>5, HeldAndSafe
<1>7. y \o x = (y \o Safe(x)) \o Held(x)
  <2> DEFINE front == Safe(x)
             back == Held(x)
  <2>1. front \in Seq(Pieces) /\ back \in Seq(Pieces) /\ y \in Seq(Pieces)
    BY <1>6
  <2> HIDE DEF front, back
  <2>2. (y \o front) \o back = y \o (front \o back)
    BY ONLY <2>1, ConcatAssociative
  <2> QED BY <2>2, <1>6 DEF front, back
<1>8. y \o Safe(x) \in Seq(Pieces)
  BY <1>6, ConcatProperties
<1>9. Safe(y \o x) = y \o Safe(x)
  BY <1>6, <1>7, <1>8, ConcatSimplifications
<1> QED BY <1>5, <1>9

\* A buffer that is given a text in parts holds and hands on what it would of the whole.
LEMMA HeldInParts ==
    ASSUME NEW t \in Seq(Pieces), NEW c \in Seq(Pieces)
    PROVE  /\ Held(t) \o c \in Seq(Pieces)
           /\ Held(Held(t) \o c) = Held(t \o c)
           /\ Safe(t \o c) = Safe(t) \o Safe(Held(t) \o c)
<1>1. /\ Held(t) \in Seq(Pieces) /\ Safe(t) \in Seq(Pieces) /\ t = Safe(t) \o Held(t)
  BY HeldAndSafe
<1>2. Held(t) \o c \in Seq(Pieces)
  BY <1>1, ConcatProperties
<1>3. t \o c = Safe(t) \o (Held(t) \o c)
  <2>1. (Safe(t) \o Held(t)) \o c = Safe(t) \o (Held(t) \o c)
    BY <1>1, ConcatAssociative
  <2> QED BY <2>1, <1>1
<1>4. CASE Held(t) \o c # <<>>
  <2>1. /\ Held(Safe(t) \o (Held(t) \o c)) = Held(Held(t) \o c)
        /\ Safe(Safe(t) \o (Held(t) \o c)) = Safe(t) \o Safe(Held(t) \o c)
    BY <1>1, <1>2, <1>4, HeldBehind
  <2> QED BY <2>1, <1>2, <1>3
<1>5. CASE Held(t) \o c = <<>>
  <2>1. Held(t) = <<>> /\ c = <<>>
    BY <1>1, <1>5, ConcatEqualIffEmpty
  <2>2. t \o c = t /\ Safe(t) = t
    BY <2>1, HeldAndSafe, ConcatEmptySeq
  <2>3. Held(<<>>) = <<>> /\ Safe(<<>>) = <<>>
    <3>1. <<>> \in Seq(Pieces)
      BY EmptySeq
    <3>2. Held(<<>>) = <<>>
      BY DEF Held, EndsInHead
    <3> QED BY <3>1, <3>2, HeldAndSafe
  <2> QED BY <2>1, <2>2, <2>3, <1>2, <1>5, ConcatEmptySeq
<1> QED BY <1>2, <1>4, <1>5

\* What a buffer hands on never ends in half a token.
LEMMA SafeIsUnsplit ==
    ASSUME NEW t \in Seq(Pieces), WellFormed(t)
    PROVE  ~EndsInHead(Safe(t))
<1>1. /\ Held(t) \in {<<>>, <<"head">>} /\ Safe(t) \in Seq(Pieces) /\ t = Safe(t) \o Held(t)
      /\ Held(t) = <<>> => Safe(t) = t
  BY HeldAndSafe
<1>2. CASE Held(t) = <<>>
  <2>1. ~EndsInHead(t)
    BY <1>2 DEF Held
  <2> QED BY <1>1, <1>2, <2>1
<1>3. CASE Held(t) = <<"head">>
  <2> SUFFICES ASSUME EndsInHead(Safe(t)) PROVE FALSE
    OBVIOUS
  <2> DEFINE n == Len(Safe(t))
  <2>1. Safe(t) # <<>> /\ Safe(t)[n] = "head" /\ n \in Nat \ {0}
    BY <1>1, EndingInHead, EmptySeq
  <2>2. <<"head">> \in Seq(Pieces) /\ Len(<<"head">>) = 1 /\ <<"head">>[1] = "head"
    BY DEF Pieces
  <2>3. /\ Len(t) = n + 1
        /\ \A i \in 1 .. n + 1 : t[i] = IF i <= n THEN Safe(t)[i] ELSE <<"head">>[i - n]
    <3>1. /\ Len(Safe(t) \o <<"head">>) = n + 1
          /\ \A i \in 1 .. n + 1 : (Safe(t) \o <<"head">>)[i] = IF i <= n THEN Safe(t)[i] ELSE <<"head">>[i - n]
      BY <1>1, <2>2, ConcatProperties
    <3> QED BY <3>1, <1>1, <1>3
  <2> HIDE DEF n
  <2>4. n \in 1 .. n + 1 /\ n <= n /\ n + 1 \in 1 .. n + 1 /\ ~(n + 1 <= n) /\ n + 1 - n = 1 /\ n < Len(t)
        /\ n \in 1 .. Len(t)
    BY <2>1, <2>3
  <2>5. t[n] = "head" /\ t[n + 1] = "head"
    BY <2>1, <2>2, <2>3, <2>4
  <2>6. t[n + 1] = "rest"
    BY <2>4, <2>5 DEF WellFormed
  <2> QED BY <2>5, <2>6
<1> QED BY <1>1, <1>2, <1>3

\* What is handed on of a text that comes in parts is the beginning of the whole restored.
LEMMA HandedOn ==
    ASSUME NEW t \in Seq(Pieces), WellFormed(t), NEW c \in Seq(Pieces)
    PROVE  /\ Restored(Safe(t)) \o Restored(Safe(Held(t) \o c)) = Restored(Safe(t \o c))
           /\ Restored(Safe(t)) \o Restored(Held(t)) = Restored(t)
<1>1. /\ Held(t) \in Seq(Pieces) /\ Safe(t) \in Seq(Pieces) /\ t = Safe(t) \o Held(t)
  BY HeldAndSafe
<1>2. Safe(Held(t) \o c) \in Seq(Pieces) /\ Safe(t \o c) = Safe(t) \o Safe(Held(t) \o c)
  BY HeldInParts, HeldAndSafe
<1> QED BY <1>1, <1>2, SafeIsUnsplit, RestoredInSlices

\* A sequence is a prefix of what continues it.
LEMMA BeginsWith ==
    ASSUME NEW S, NEW a \in Seq(S), NEW b \in Seq(S)
    PROVE  IsPrefix(a, a \o b) /\ IsPrefix(a, a) /\ IsPrefix(<<>>, a)
<1>1. Len(a) \in Nat /\ Len(b) \in Nat
  BY LenProperties
<1>2. IsPrefix(a, a \o b)
  BY <1>1 DEF IsPrefix
<1>3. IsPrefix(a, a)
  BY <1>1 DEF IsPrefix
<1>4. Len(<<>>) = 0 /\ SubSeq(a, 1, 0) = <<>> /\ SubSeq(<<>>, 1, 0) = <<>>
  BY EmptySeq, SubSeqEmpty
<1>5. IsPrefix(<<>>, a)
  BY <1>1, <1>4 DEF IsPrefix
<1> QED BY <1>2, <1>3, <1>5
\* Before the first piece.
LEMMA EmptyText == <<>> \in Seq(Pieces) /\ WellFormed(<<>>) /\ Held(<<>>) = <<>> /\ Safe(<<>>) = <<>>
<1>1. <<>> \in Seq(Pieces) /\ Len(<<>>) = 0
  BY EmptySeq
<1>2. Held(<<>>) = <<>>
  BY DEF Held, EndsInHead
<1>3. Safe(<<>>) = <<>>
  BY <1>1, <1>2, HeldAndSafe
<1>4. WellFormed(<<>>)
  BY <1>1 DEF WellFormed
<1> QED BY <1>1, <1>2, <1>3, <1>4

\* A text goes on: what its buffer holds then, and what has been handed on.
LEMMA GoesOn ==
    ASSUME NEW t \in Seq(Pieces), WellFormed(t), NEW c \in Seq(Pieces)
    PROVE  /\ t \o c \in Seq(Pieces)
           /\ Held(Held(t) \o c) = Held(t \o c)
           /\ Held(t \o c) \in {<<>>, <<"head">>}
           /\ Restored(Safe(t)) \o Restored(Safe(Held(t) \o c)) = Restored(Safe(t \o c))
           /\ Restored(Safe(t \o c)) \in Seq(Shown)
<1>1. t \o c \in Seq(Pieces)
  BY ConcatProperties
<1>2. Held(t \o c) \in {<<>>, <<"head">>} /\ Safe(t \o c) \in Seq(Pieces)
  BY <1>1, HeldAndSafe
<1>3. Restored(Safe(t \o c)) \in Seq(Shown)
  BY <1>2, RestoredText
<1> QED BY <1>1, <1>2, <1>3, HeldInParts, HandedOn

\* A text ends: with what its buffer holds it is all there.
LEMMA ComesOut ==
    ASSUME NEW t \in Seq(Pieces), WellFormed(t)
    PROVE  /\ Restored(Safe(t)) \o Restored(Held(t)) = Restored(t)
           /\ Restored(t) \in Seq(Shown) /\ t \in Seq(Shown)
           /\ IsPrefix(Restored(Safe(t)), Restored(t))
           /\ IsPrefix(Restored(t), Restored(t)) /\ IsPrefix(<<>>, Restored(t))
           /\ IsPrefix(t, t) /\ IsPrefix(<<>>, t)
<1>1. Restored(Safe(t)) \o Restored(Held(t)) = Restored(t)
  <2>1. <<>> \in Seq(Pieces)
    BY EmptySeq
  <2> QED BY <2>1, HandedOn
<1>2. Held(t) \in Seq(Pieces) /\ Safe(t) \in Seq(Pieces)
  BY HeldAndSafe
<1>3. /\ Restored(t) \in Seq(Shown) /\ Restored(Safe(t)) \in Seq(Shown) /\ Restored(Held(t)) \in Seq(Shown)
  BY <1>2, RestoredText
<1>4. t \in Seq(Shown)
  <2>1. Pieces \subseteq Shown
    BY DEF Shown
  <2> QED BY <2>1, SeqMonotonic
<1>5. IsPrefix(Restored(Safe(t)), Restored(Safe(t)) \o Restored(Held(t)))
  BY <1>3, BeginsWith
<1>6. /\ IsPrefix(Restored(t), Restored(t)) /\ IsPrefix(<<>>, Restored(t))
  BY <1>3, BeginsWith
<1>7. IsPrefix(t, t) /\ IsPrefix(<<>>, t)
  BY BeginsWith
<1> QED BY <1>1, <1>3, <1>4, <1>5, <1>6, <1>7

-----------------------------------------------------------------------------
(* The transformer of the Anthropic API                                    *)

\* The operators on texts of the three transformers are the same.
LEMMA SameText ==
    \A t : /\ Anthropic!Held(t) = Held(t) /\ Anthropic!Safe(t) = Safe(t)
           /\ Anthropic!Restored(t) = Restored(t)
           /\ Anthropic!WellFormed(t) <=> WellFormed(t)
<1> SUFFICES ASSUME NEW t
             PROVE  /\ Anthropic!Held(t) = Held(t) /\ Anthropic!Safe(t) = Safe(t)
                    /\ Anthropic!Restored(t) = Restored(t)
                    /\ Anthropic!WellFormed(t) <=> WellFormed(t)
  OBVIOUS
<1>1. Anthropic!Held(t) = Held(t)
  BY DEF Held, EndsInHead, Last, Anthropic!Held, Anthropic!EndsInHead, Anthropic!Last
<1>2. Anthropic!Safe(t) = Safe(t)
  BY <1>1 DEF Safe, Anthropic!Safe
<1>3. Anthropic!Restored(t) = Restored(t)
  BY Zenon DEF Restored, Anthropic!Restored
<1>4. Anthropic!WellFormed(t) <=> WellFormed(t)
  BY DEF WellFormed, Anthropic!WellFormed
<1> QED BY <1>1, <1>2, <1>3, <1>4

\* What the client is to see of a block.
Full(b) == IF kind[b] = "thinking" /\ ~caching THEN written[b] ELSE Restored(written[b])

\* Text and thinking that is cached pass through a buffer.
IsBuffered(b) == kind[b] = "text" \/ (kind[b] = "thinking" /\ caching)

\* Every block has its state; written and seen are texts.
AnthropicTypes ==
    /\ flushOnClose \in BOOLEAN /\ caching \in BOOLEAN /\ stream \in {"open", "closed", "broken"}
    /\ kind \in [Indices -> {"text", "tool", "thinking"}]
    /\ stopped \subseteq Indices
    /\ written \in [Indices -> Seq(Pieces)] /\ seen \in [Indices -> Seq(Shown)]
    /\ accumulators \in [Indices -> Seq(Pieces)] /\ raw \in [Indices -> Seq(Pieces)]
    /\ buffers \in [Indices -> {<<>>, <<"head">>}]
    /\ signed \in [Indices -> {0, 1, 2}] /\ signatures \in [Indices -> {0, 1, 2}]

\* A block that goes on: everything written of it is in one place.
GoingOn(b) ==
    /\ signatures[b] = signed[b]
    /\ accumulators[b] = IF kind[b] = "tool" THEN written[b] ELSE <<>>
    /\ raw[b] = IF kind[b] = "thinking" /\ caching THEN written[b] ELSE <<>>
    /\ buffers[b] = IF IsBuffered(b) THEN Held(written[b]) ELSE <<>>
    /\ seen[b] = IF IsBuffered(b) THEN Restored(Safe(written[b]))
                 ELSE IF kind[b] = "thinking" THEN written[b] ELSE <<>>

\* A block that has stopped leaves nothing behind.
Emptied(b) == signatures[b] = 0 /\ accumulators[b] = <<>> /\ raw[b] = <<>> /\ buffers[b] = <<>>

\* While the body is open, a block goes on or has stopped and was shown whole; afterwards
\* the flush, where there is one, has shown the rest.
BlockInv(b) ==
    /\ WellFormed(written[b])
    /\ kind[b] # "thinking" => signed[b] = 0
    /\ b \notin stopped /\ stream # "closed" => GoingOn(b)
    /\ b \in stopped \/ stream = "closed" => Emptied(b)
    /\ b \in stopped => signed[b] # 1 /\ seen[b] = Full(b)
    /\ stream = "closed" => IF flushOnClose THEN seen[b] = Full(b) ELSE IsPrefix(seen[b], Full(b))

\* The inductive invariant of the blocks.
AnthropicInv ==
    /\ AnthropicTypes
    /\ \A b \in Indices : BlockInv(b)
    /\ Anthropic!CachedIsSigned

\* It implies what AnswerIsWhole says of blocks.
LEMMA AnthropicPromises ==
    ASSUME AnthropicInv
    PROVE  /\ Anthropic!TypeOK /\ Anthropic!ShownIsPrefix /\ Anthropic!StoppedIsWhole
           /\ Anthropic!ClosedIsWhole /\ Anthropic!CachedIsSigned
<1>1. ASSUME NEW b \in Indices
      PROVE  /\ Anthropic!Display(b) = Full(b)
             /\ IsPrefix(seen[b], Full(b))
             /\ b \in stopped => seen[b] = Full(b)
             /\ stream = "closed" /\ flushOnClose => seen[b] = Full(b)
  <2>1. Anthropic!Display(b) = Full(b)
    BY SameText DEF Anthropic!Display, Full
  <2>2. /\ written[b] \in Seq(Pieces) /\ WellFormed(written[b]) /\ BlockInv(b)
    BY DEF AnthropicInv, AnthropicTypes, BlockInv
  <2>3. /\ IsPrefix(Restored(Safe(written[b])), Restored(written[b]))
        /\ IsPrefix(Restored(written[b]), Restored(written[b])) /\ IsPrefix(<<>>, Restored(written[b]))
        /\ IsPrefix(written[b], written[b]) /\ IsPrefix(<<>>, written[b])
    BY <2>2, ComesOut
  <2>4. IsPrefix(Full(b), Full(b))
    BY <2>3 DEF Full
  <2>5. IsPrefix(seen[b], Full(b))
    <3>1. CASE b \in stopped
      BY <2>2, <2>4, <3>1 DEF BlockInv
    <3>2. CASE stream = "closed"
      BY <2>2, <2>4, <3>2 DEF BlockInv
    <3>3. CASE b \notin stopped /\ stream # "closed"
      <4>1. GoingOn(b)
        BY <2>2, <3>3 DEF BlockInv
      <4> QED BY <4>1, <2>3 DEF GoingOn, Full, IsBuffered
    <3> QED BY <3>1, <3>2, <3>3
  <2> QED BY <2>1, <2>2, <2>5 DEF BlockInv
<1>2. Anthropic!ShownIsPrefix
  <2>1. \A s, t : Anthropic!IsPrefix(s, t) <=> IsPrefix(s, t)
    BY DEF IsPrefix, Anthropic!IsPrefix
  <2> QED BY <1>1, <2>1 DEF Anthropic!ShownIsPrefix
<1>3. Anthropic!StoppedIsWhole
  <2>1. stopped \subseteq Indices
    BY DEF AnthropicInv, AnthropicTypes
  <2> QED BY <1>1, <2>1 DEF Anthropic!StoppedIsWhole
<1>4. Anthropic!ClosedIsWhole
  BY <1>1 DEF Anthropic!ClosedIsWhole
<1>5. Anthropic!TypeOK
  <2>1. ASSUME NEW b \in Indices
        PROVE  /\ signed[b] \in 0 .. 2 /\ signatures[b] \in 0 .. signed[b]
               /\ buffers[b] \in {<<>>, <<"head">>}
               /\ Anthropic!Range(raw[b]) \cup Anthropic!Range(accumulators[b]) \subseteq Anthropic!Pieces
               /\ Anthropic!Range(seen[b]) \subseteq Anthropic!Shown
    <3>1. /\ signed[b] \in {0, 1, 2} /\ BlockInv(b) /\ buffers[b] \in {<<>>, <<"head">>}
          /\ raw[b] \in Seq(Pieces) /\ accumulators[b] \in Seq(Pieces) /\ seen[b] \in Seq(Shown)
      BY DEF AnthropicInv, AnthropicTypes
    <3>2. signatures[b] = signed[b] \/ signatures[b] = 0
      BY <3>1 DEF BlockInv, GoingOn, Emptied
    <3>3. \A S : \A s \in Seq(S) : Anthropic!Range(s) \subseteq S
      BY ElementOfSeq DEF Anthropic!Range
    <3>4. Anthropic!Pieces = Pieces /\ Anthropic!Shown = Shown
      BY DEF Pieces, Shown, Anthropic!Pieces, Anthropic!Shown
    <3>5. Anthropic!Range(raw[b]) \subseteq Pieces /\ Anthropic!Range(accumulators[b]) \subseteq Pieces
          /\ Anthropic!Range(seen[b]) \subseteq Shown
      BY <3>1, <3>3
    <3> QED BY <3>1, <3>2, <3>4, <3>5
  <2>2. kind \in [Indices -> Anthropic!Kinds] /\ stopped \subseteq Indices /\ stream \in {"open", "closed", "broken"}
    BY DEF AnthropicInv, AnthropicTypes, Anthropic!Kinds
  <2> QED BY <2>1, <2>2 DEF Anthropic!TypeOK, Anthropic!SignatureParts
<1> QED BY <1>2, <1>3, <1>4, <1>5 DEF AnthropicInv

\* It holds initially.
LEMMA AnthropicBegins == Anthropic!Init => AnthropicInv
<1> SUFFICES ASSUME Anthropic!Init PROVE AnthropicInv
  OBVIOUS
<1>0. <<>> \in Seq(Shown) /\ <<>> \in Seq(Pieces)
  BY EmptySeq
<1>1. AnthropicTypes
  BY <1>0 DEF Anthropic!Init, AnthropicTypes, Anthropic!Kinds
<1>2. ASSUME NEW b \in Indices PROVE BlockInv(b)
  BY EmptyText, RestoredOfNothing DEF Anthropic!Init, BlockInv, GoingOn, IsBuffered
<1>3. Anthropic!CachedIsSigned
  BY DEF Anthropic!Init, Anthropic!CachedIsSigned
<1> QED BY <1>1, <1>2, <1>3 DEF AnthropicInv
\* A step at one block leaves the others as they are.
LEMMA OtherBlocks ==
    ASSUME NEW b, UNCHANGED <<flushOnClose, caching, kind, stream>>,
           NEW c \in Indices, c # b, BlockInv(c), c \in stopped' <=> c \in stopped,
           written'[c] = written[c], seen'[c] = seen[c], buffers'[c] = buffers[c],
           accumulators'[c] = accumulators[c], raw'[c] = raw[c],
           signed'[c] = signed[c], signatures'[c] = signatures[c]
    PROVE  BlockInv(c)'
<1>1. Full(c)' = Full(c) /\ (IsBuffered(c)' <=> IsBuffered(c))
  BY DEF Full, IsBuffered
<1>2. GoingOn(c)' <=> GoingOn(c)
  BY <1>1 DEF GoingOn
<1>3. Emptied(c)' <=> Emptied(c)
  BY DEF Emptied
<1> QED BY <1>1, <1>2, <1>3 DEF BlockInv

\* A delta is a text.
LEMMA AnthropicChunks == Anthropic!Chunks \subseteq Seq(Pieces)
<1>1. /\ <<"plain">> \in Seq(Pieces) /\ <<"head">> \in Seq(Pieces) /\ <<"rest">> \in Seq(Pieces)
      /\ <<"plain", "head">> \in Seq(Pieces) /\ <<"rest", "plain">> \in Seq(Pieces)
  BY DEF Pieces
<1> QED BY <1>1 DEF Anthropic!Chunks

\* What a delta of a block that is not stopped starts from.
LEMMA SentPiece ==
    ASSUME AnthropicInv, NEW b \in Indices, NEW chunk \in Anthropic!Chunks, Anthropic!Sends(b, chunk)
    PROVE  /\ chunk \in Seq(Pieces) /\ written[b] \in Seq(Pieces) /\ WellFormed(written[b])
           /\ written[b] \o chunk \in Seq(Pieces) /\ WellFormed(written[b] \o chunk)
           /\ written' = [written EXCEPT ![b] = written[b] \o chunk]
           /\ written' \in [Indices -> Seq(Pieces)]
           /\ written'[b] = written[b] \o chunk
           /\ b \notin stopped /\ signed[b] = 0 /\ stream = "open" /\ GoingOn(b)
           /\ UNCHANGED <<flushOnClose, caching, kind, signed, stopped, stream>>
<1>1. chunk \in Seq(Pieces)
  BY AnthropicChunks
<1>2. written \in [Indices -> Seq(Pieces)] /\ BlockInv(b)
  BY DEF AnthropicInv, AnthropicTypes
<1>3. /\ b \notin stopped /\ signed[b] = 0 /\ stream = "open"
      /\ WellFormed(written[b] \o chunk)
      /\ written' = [written EXCEPT ![b] = written[b] \o chunk]
      /\ UNCHANGED <<flushOnClose, caching, kind, signed, stopped, stream>>
  BY SameText DEF Anthropic!Sends, Anthropic!setup
<1>4. written[b] \o chunk \in Seq(Pieces)
  BY <1>1, <1>2, ConcatProperties
<1>5. GoingOn(b) /\ WellFormed(written[b])
  BY <1>2, <1>3 DEF BlockInv
<1> QED BY <1>1, <1>2, <1>3, <1>4, <1>5

\* What is cached stays as it was signed when the upstream sends more of another block.
LEMMA CacheStays ==
    ASSUME AnthropicInv, UNCHANGED <<caching, stopped, signed, cache>>,
           \A c \in stopped : written'[c] = written[c]
    PROVE  Anthropic!CachedIsSigned'
  BY DEF AnthropicInv, Anthropic!CachedIsSigned, Anthropic!SignatureParts

\* A delta of a block with a buffer: text, or thinking that is cached.
LEMMA BufferedDelta ==
    ASSUME AnthropicInv, NEW b \in Indices, NEW chunk \in Anthropic!Chunks,
           Anthropic!Sends(b, chunk), Anthropic!ThroughBuffer(b, chunk), IsBuffered(b),
           UNCHANGED <<accumulators, signatures, cache>>,
           raw' = IF kind[b] = "thinking" THEN [raw EXCEPT ![b] = raw[b] \o chunk] ELSE raw
    PROVE  AnthropicInv'
<1>1. /\ chunk \in Seq(Pieces) /\ written[b] \in Seq(Pieces) /\ WellFormed(written[b])
      /\ written[b] \o chunk \in Seq(Pieces) /\ WellFormed(written[b] \o chunk)
      /\ written' = [written EXCEPT ![b] = written[b] \o chunk]
      /\ written' \in [Indices -> Seq(Pieces)]
      /\ written'[b] = written[b] \o chunk
      /\ b \notin stopped /\ signed[b] = 0 /\ stream = "open" /\ GoingOn(b)
      /\ UNCHANGED <<flushOnClose, caching, kind, signed, stopped, stream>>
  BY SentPiece
<1>2. AnthropicTypes /\ \A c \in Indices : BlockInv(c)
  BY DEF AnthropicInv
<1>3. /\ Held(Held(written[b]) \o chunk) = Held(written[b] \o chunk)
      /\ Held(written[b] \o chunk) \in {<<>>, <<"head">>}
      /\ Restored(Safe(written[b])) \o Restored(Safe(Held(written[b]) \o chunk)) = Restored(Safe(written[b] \o chunk))
      /\ Restored(Safe(written[b] \o chunk)) \in Seq(Shown)
  BY <1>1, GoesOn
<1>4. /\ buffers[b] = Held(written[b]) /\ seen[b] = Restored(Safe(written[b])) /\ accumulators[b] = <<>>
      /\ raw[b] = IF kind[b] = "thinking" THEN written[b] ELSE <<>>
      /\ signatures[b] = signed[b]
  BY <1>1 DEF GoingOn, IsBuffered
<1>5. /\ buffers' = [buffers EXCEPT ![b] = Held(written[b] \o chunk)]
      /\ seen' = [seen EXCEPT ![b] = Restored(Safe(written[b] \o chunk))]
  BY <1>3, <1>4, SameText DEF Anthropic!ThroughBuffer
<1>6. /\ buffers' \in [Indices -> {<<>>, <<"head">>}] /\ buffers'[b] = Held(written[b] \o chunk)
      /\ seen' \in [Indices -> Seq(Shown)] /\ seen'[b] = Restored(Safe(written[b] \o chunk))
  BY <1>2, <1>3, <1>5 DEF AnthropicTypes
<1>7. /\ raw' \in [Indices -> Seq(Pieces)]
      /\ raw'[b] = IF kind[b] = "thinking" THEN written[b] \o chunk ELSE <<>>
  <2>1. CASE kind[b] = "thinking"
    BY <2>1, <1>1, <1>2, <1>4 DEF AnthropicTypes
  <2>2. CASE kind[b] # "thinking"
    BY <2>2, <1>2, <1>4 DEF AnthropicTypes
  <2> QED BY <2>1, <2>2
<1>8. AnthropicTypes'
  BY <1>1, <1>2, <1>6, <1>7 DEF AnthropicTypes
<1>9. BlockInv(b)'
  <2>1. GoingOn(b)'
    BY <1>1, <1>4, <1>6, <1>7 DEF GoingOn, IsBuffered
  <2> QED BY <2>1, <1>1 DEF BlockInv
<1>10. ASSUME NEW c \in Indices, c # b PROVE BlockInv(c)'
  <2>1. /\ written'[c] = written[c] /\ seen'[c] = seen[c] /\ buffers'[c] = buffers[c]
        /\ accumulators'[c] = accumulators[c] /\ signed'[c] = signed[c] /\ signatures'[c] = signatures[c]
    BY <1>1, <1>2, <1>5, <1>10 DEF AnthropicTypes
  <2>2. raw'[c] = raw[c]
    BY <1>2, <1>10 DEF AnthropicTypes
  <2>3. UNCHANGED <<flushOnClose, caching, kind, stream>> /\ (c \in stopped' <=> c \in stopped) /\ BlockInv(c)
    BY <1>1, <1>2
  <2> QED BY <2>1, <2>2, <2>3, <1>10, OtherBlocks
<1>11. Anthropic!CachedIsSigned'
  <2>1. \A c \in stopped : written'[c] = written[c]
    BY <1>1, <1>2 DEF AnthropicTypes
  <2> QED BY <2>1, <1>1, CacheStays
<1> QED BY <1>8, <1>9, <1>10, <1>11 DEF AnthropicInv

\* content_block_delta: whatever the kind of the block, it goes on.
LEMMA AnthropicDeltas ==
    ASSUME AnthropicInv, NEW b \in Indices,
           Anthropic!TextDelta(b) \/ Anthropic!InputDelta(b) \/ Anthropic!ThinkingDelta(b)
    PROVE  AnthropicInv'
<1>1. AnthropicTypes /\ \A c \in Indices : BlockInv(c)
  BY DEF AnthropicInv
<1>2. CASE Anthropic!TextDelta(b)
  <2>1. PICK chunk \in Anthropic!Chunks : Anthropic!Sends(b, chunk) /\ Anthropic!ThroughBuffer(b, chunk)
    BY <1>2 DEF Anthropic!TextDelta
  <2>2. kind[b] = "text" /\ IsBuffered(b) /\ UNCHANGED <<accumulators, signatures, cache>> /\ raw' = raw
    BY <1>2 DEF Anthropic!TextDelta, IsBuffered
  <2> QED BY <2>1, <2>2, BufferedDelta
<1>3. CASE Anthropic!ThinkingDelta(b) /\ caching
  <2>1. PICK chunk \in Anthropic!Chunks :
          /\ Anthropic!Sends(b, chunk) /\ Anthropic!ThroughBuffer(b, chunk)
          /\ raw' = [raw EXCEPT ![b] = raw[b] \o chunk]
    BY <1>3 DEF Anthropic!ThinkingDelta
  <2>2. kind[b] = "thinking" /\ IsBuffered(b) /\ UNCHANGED <<accumulators, signatures, cache>>
    BY <1>3 DEF Anthropic!ThinkingDelta, IsBuffered
  <2> QED BY <2>1, <2>2, BufferedDelta
<1>4. CASE (Anthropic!ThinkingDelta(b) /\ ~caching) \/ Anthropic!InputDelta(b)
  <2>1. PICK chunk \in Anthropic!Chunks :
          /\ Anthropic!Sends(b, chunk)
          /\ \/ /\ kind[b] = "thinking" /\ ~caching
                /\ seen' = [seen EXCEPT ![b] = seen[b] \o chunk] /\ UNCHANGED accumulators
             \/ /\ kind[b] = "tool"
                /\ accumulators' = [accumulators EXCEPT ![b] = accumulators[b] \o chunk] /\ UNCHANGED seen
          /\ UNCHANGED <<buffers, raw, signatures, cache>>
    BY <1>4 DEF Anthropic!ThinkingDelta, Anthropic!InputDelta
  <2>2. /\ chunk \in Seq(Pieces) /\ written[b] \in Seq(Pieces) /\ WellFormed(written[b])
        /\ written[b] \o chunk \in Seq(Pieces) /\ WellFormed(written[b] \o chunk)
        /\ written' = [written EXCEPT ![b] = written[b] \o chunk]
        /\ written' \in [Indices -> Seq(Pieces)]
        /\ written'[b] = written[b] \o chunk
        /\ b \notin stopped /\ signed[b] = 0 /\ stream = "open" /\ GoingOn(b)
        /\ UNCHANGED <<flushOnClose, caching, kind, signed, stopped, stream>>
    BY <2>1, SentPiece
  <2>3. written[b] \o chunk \in Seq(Shown)
    BY <2>2, ComesOut
  <2>4. /\ seen' \in [Indices -> Seq(Shown)] /\ accumulators' \in [Indices -> Seq(Pieces)]
        /\ kind[b] = "thinking" => seen'[b] = written'[b] /\ accumulators'[b] = <<>>
        /\ kind[b] = "tool" => accumulators'[b] = written'[b] /\ seen'[b] = <<>>
        /\ ~IsBuffered(b)
    <3>1. CASE kind[b] = "thinking" /\ ~caching
      <4>1. seen[b] = written[b] /\ accumulators[b] = <<>> /\ ~IsBuffered(b)
        BY <2>2, <3>1 DEF GoingOn, IsBuffered
      <4>2. seen' = [seen EXCEPT ![b] = written[b] \o chunk] /\ accumulators' = accumulators /\ kind[b] # "tool"
        BY <2>1, <3>1, <4>1
      <4> QED BY <4>1, <4>2, <2>2, <2>3, <1>1 DEF AnthropicTypes
    <3>2. CASE kind[b] = "tool"
      <4>1. accumulators[b] = written[b] /\ seen[b] = <<>> /\ ~IsBuffered(b)
        BY <2>2, <3>2 DEF GoingOn, IsBuffered
      <4> QED BY <4>1, <2>1, <2>2, <3>2, <1>1 DEF AnthropicTypes
    <3> QED BY <2>1, <3>1, <3>2
  <2>5. AnthropicTypes'
    BY <2>1, <2>2, <2>4, <1>1 DEF AnthropicTypes
  <2>6. BlockInv(b)'
    <3>1. GoingOn(b)'
      BY <2>1, <2>2, <2>4 DEF GoingOn, IsBuffered
    <3> QED BY <3>1, <2>2 DEF BlockInv
  <2>7. ASSUME NEW c \in Indices, c # b PROVE BlockInv(c)'
    <3>1. /\ written'[c] = written[c] /\ seen'[c] = seen[c] /\ buffers'[c] = buffers[c] /\ raw'[c] = raw[c]
          /\ accumulators'[c] = accumulators[c] /\ signed'[c] = signed[c] /\ signatures'[c] = signatures[c]
      BY <2>1, <2>2, <2>7, <1>1 DEF AnthropicTypes
    <3>2. UNCHANGED <<flushOnClose, caching, kind, stream>> /\ (c \in stopped' <=> c \in stopped) /\ BlockInv(c)
      BY <2>2, <1>1
    <3> QED BY <3>1, <3>2, <2>7, OtherBlocks
  <2>8. Anthropic!CachedIsSigned'
    <3>1. \A c \in stopped : written'[c] = written[c]
      BY <2>2, <1>1 DEF AnthropicTypes
    <3> QED BY <3>1, <2>1, <2>2, CacheStays
  <2> QED BY <2>5, <2>6, <2>7, <2>8 DEF AnthropicInv
<1> QED BY <1>2, <1>3, <1>4

\* signature_delta: one more piece of the signature, and nothing else.
LEMMA AnthropicSignature ==
    ASSUME AnthropicInv, NEW b \in Indices, Anthropic!SignatureDelta(b)
    PROVE  AnthropicInv'
<1>1. AnthropicTypes /\ \A c \in Indices : BlockInv(c)
  BY DEF AnthropicInv
<1>2. /\ kind[b] = "thinking" /\ b \notin stopped /\ signed[b] \in {0, 1} /\ stream = "open"
      /\ signed' = [signed EXCEPT ![b] = signed[b] + 1] /\ signatures' = [signatures EXCEPT ![b] = signatures[b] + 1]
      /\ UNCHANGED <<flushOnClose, caching, kind, written, stopped, buffers, accumulators, raw, cache, seen, stream>>
  BY <1>1 DEF Anthropic!SignatureDelta, Anthropic!SignatureParts, Anthropic!setup, AnthropicTypes
<1>3. GoingOn(b)
  BY <1>1, <1>2 DEF BlockInv
<1>4. signatures[b] = signed[b] /\ signed'[b] \in {1, 2} /\ signatures'[b] = signed'[b]
      /\ signed' \in [Indices -> {0, 1, 2}] /\ signatures' \in [Indices -> {0, 1, 2}]
  BY <1>1, <1>2, <1>3 DEF GoingOn, AnthropicTypes
<1>5. AnthropicTypes'
  BY <1>1, <1>2, <1>4 DEF AnthropicTypes
<1>6. BlockInv(b)'
  <2>1. GoingOn(b)'
    BY <1>2, <1>3, <1>4 DEF GoingOn, IsBuffered
  <2> QED BY <2>1, <1>1, <1>2 DEF BlockInv
<1>7. ASSUME NEW c \in Indices, c # b PROVE BlockInv(c)'
  <2>1. /\ written'[c] = written[c] /\ seen'[c] = seen[c] /\ buffers'[c] = buffers[c] /\ raw'[c] = raw[c]
        /\ accumulators'[c] = accumulators[c] /\ signed'[c] = signed[c] /\ signatures'[c] = signatures[c]
    BY <1>1, <1>2, <1>7 DEF AnthropicTypes
  <2>2. UNCHANGED <<flushOnClose, caching, kind, stream>> /\ (c \in stopped' <=> c \in stopped) /\ BlockInv(c)
    BY <1>1, <1>2
  <2> QED BY <2>1, <2>2, <1>7, OtherBlocks
<1>8. Anthropic!CachedIsSigned'
  <2>1. \A c \in stopped : signed'[c] = signed[c]
    BY <1>1, <1>2 DEF AnthropicTypes
  <2> QED BY <2>1, <1>2 DEF AnthropicInv, Anthropic!CachedIsSigned, Anthropic!SignatureParts
<1> QED BY <1>5, <1>6, <1>7, <1>8 DEF AnthropicInv

\* What is left of a block makes up the whole of it.
LEMMA BlockComesOut ==
    ASSUME AnthropicInv, NEW b \in Indices, stream = "open"
    PROVE  /\ seen[b] \o Anthropic!Remaining(b) = Full(b)
           /\ Full(b) \in Seq(Shown)
<1>1. /\ AnthropicTypes /\ BlockInv(b) /\ written[b] \in Seq(Pieces) /\ WellFormed(written[b])
      /\ seen[b] \in Seq(Shown)
  BY DEF AnthropicInv, AnthropicTypes, BlockInv
<1>2. Anthropic!Remaining(b) = Restored(accumulators[b]) \o Restored(buffers[b])
  BY SameText DEF Anthropic!Remaining
<1>3. /\ Restored(Safe(written[b])) \o Restored(Held(written[b])) = Restored(written[b])
      /\ Restored(written[b]) \in Seq(Shown) /\ written[b] \in Seq(Shown)
  BY <1>1, ComesOut
<1>4. Full(b) \in Seq(Shown)
  BY <1>3 DEF Full
<1>5. /\ Restored(written[b]) \o <<>> = Restored(written[b]) /\ <<>> \o Restored(written[b]) = Restored(written[b])
      /\ seen[b] \o <<>> = seen[b] /\ <<>> \o <<>> = <<>>
  BY <1>1, <1>3, ConcatEmptySeq, EmptySeq
<1>6. CASE b \in stopped
  <2>1. Anthropic!Remaining(b) = <<>>
    BY <1>1, <1>2, <1>5, <1>6, RestoredOfNothing DEF BlockInv, Emptied
  <2> QED BY <2>1, <1>1, <1>4, <1>5, <1>6 DEF BlockInv
<1>7. CASE b \notin stopped
  <2>1. GoingOn(b) /\ kind[b] \in {"text", "tool", "thinking"}
    BY <1>1, <1>7 DEF BlockInv, AnthropicTypes
  <2>2. CASE IsBuffered(b)
    <3>1. /\ accumulators[b] = <<>> /\ buffers[b] = Held(written[b]) /\ seen[b] = Restored(Safe(written[b]))
          /\ Full(b) = Restored(written[b])
      BY <2>1, <2>2 DEF GoingOn, IsBuffered, Full
    <3>2. Held(written[b]) \in Seq(Pieces) /\ Restored(Held(written[b])) \in Seq(Shown)
      BY <1>1, HeldAndSafe, RestoredText
    <3>3. <<>> \o Restored(Held(written[b])) = Restored(Held(written[b]))
      BY <3>2, ConcatEmptySeq
    <3> QED BY <3>1, <3>3, <1>2, <1>3, <1>4, RestoredOfNothing
  <2>3. CASE kind[b] = "thinking" /\ ~caching
    <3>1. accumulators[b] = <<>> /\ buffers[b] = <<>> /\ seen[b] = written[b] /\ Full(b) = written[b]
      BY <2>1, <2>3 DEF GoingOn, IsBuffered, Full
    <3> QED BY <3>1, <1>2, <1>4, <1>5, RestoredOfNothing
  <2>4. CASE kind[b] = "tool"
    <3>1. accumulators[b] = written[b] /\ buffers[b] = <<>> /\ seen[b] = <<>> /\ Full(b) = Restored(written[b])
      BY <2>1, <2>4 DEF GoingOn, IsBuffered, Full
    <3> QED BY <3>1, <1>2, <1>4, <1>5, RestoredOfNothing
  <2> QED BY <2>1, <2>2, <2>3, <2>4 DEF IsBuffered
<1> QED BY <1>6, <1>7

\* content_block_stop: the block comes out whole, and its thinking is cached as it was signed.
LEMMA AnthropicStop ==
    ASSUME AnthropicInv, NEW b \in Indices, Anthropic!Stop(b)
    PROVE  AnthropicInv'
<1>1. AnthropicTypes /\ \A c \in Indices : BlockInv(c)
  BY DEF AnthropicInv
<1>2. /\ b \notin stopped /\ signed[b] \in {0, 2} /\ stream = "open"
      /\ stopped' = stopped \cup {b}
      /\ seen' = [seen EXCEPT ![b] = seen[b] \o Anthropic!Remaining(b)]
      /\ cache' = cache \cup Anthropic!Remembered({b})
      /\ accumulators' = [accumulators EXCEPT ![b] = <<>>] /\ buffers' = [buffers EXCEPT ![b] = <<>>]
      /\ raw' = [raw EXCEPT ![b] = <<>>] /\ signatures' = [signatures EXCEPT ![b] = 0]
      /\ UNCHANGED <<flushOnClose, caching, kind, written, signed, stream>>
  BY DEF Anthropic!Stop, Anthropic!SignatureParts, Anthropic!setup
<1>3. seen' = [seen EXCEPT ![b] = Full(b)] /\ Full(b) \in Seq(Shown) /\ Full(b)' = Full(b)
  BY <1>2, BlockComesOut DEF Full
<1>4. GoingOn(b)
  BY <1>1, <1>2 DEF BlockInv
<1>5. AnthropicTypes'
  <2>1. <<>> \in Seq(Pieces)
    BY EmptySeq
  <2>2. accumulators' \in [Indices -> Seq(Pieces)] /\ raw' \in [Indices -> Seq(Pieces)]
    BY <2>1, <1>1, <1>2 DEF AnthropicTypes
  <2>3. seen' \in [Indices -> Seq(Shown)]
    BY <1>1, <1>3 DEF AnthropicTypes
  <2>4. buffers' \in [Indices -> {<<>>, <<"head">>}]
    BY <1>1, <1>2 DEF AnthropicTypes
  <2>5. signatures' \in [Indices -> {0, 1, 2}]
    BY <1>1, <1>2 DEF AnthropicTypes
  <2>6. stopped' \subseteq Indices
    BY <1>1, <1>2 DEF AnthropicTypes
  <2> QED BY <2>2, <2>3, <2>4, <2>5, <2>6, <1>1, <1>2 DEF AnthropicTypes
<1>6. BlockInv(b)'
  <2>1. Emptied(b)' /\ seen'[b] = Full(b)
    BY <1>1, <1>2, <1>3 DEF Emptied, AnthropicTypes
  <2> QED BY <2>1, <1>1, <1>2, <1>3 DEF BlockInv
<1>7. ASSUME NEW c \in Indices, c # b PROVE BlockInv(c)'
  <2>1. /\ written'[c] = written[c] /\ seen'[c] = seen[c] /\ buffers'[c] = buffers[c] /\ raw'[c] = raw[c]
        /\ accumulators'[c] = accumulators[c] /\ signed'[c] = signed[c] /\ signatures'[c] = signatures[c]
    BY <1>1, <1>2, <1>3, <1>7 DEF AnthropicTypes
  <2>2. UNCHANGED <<flushOnClose, caching, kind, stream>> /\ (c \in stopped' <=> c \in stopped) /\ BlockInv(c)
    BY <1>1, <1>2, <1>7
  <2> QED BY <2>1, <2>2, <1>7, OtherBlocks
<1>8. Anthropic!CachedIsSigned'
  <2> DEFINE signedOf(c) == [block |-> c, parts |-> 2, thinking |-> written[c]]
  <2>1. cache = {signedOf(c) : c \in {d \in stopped : caching /\ signed[d] > 0}}
    BY DEF AnthropicInv, Anthropic!CachedIsSigned, Anthropic!SignatureParts
  <2>2. Anthropic!Remembered({b}) = {signedOf(c) : c \in {d \in {b} : caching /\ signed[d] > 0}}
    <3>1. CASE caching /\ signed[b] > 0
      <4>1. signed[b] = 2 /\ kind[b] = "thinking" /\ signatures[b] = 2 /\ raw[b] = written[b]
        BY <1>1, <1>2, <1>4, <3>1 DEF GoingOn, BlockInv
      <4> QED BY <4>1, <3>1 DEF Anthropic!Remembered
    <3>2. CASE ~(caching /\ signed[b] > 0)
      <4>1. ~(caching /\ signatures[b] > 0)
        BY <1>4, <3>2 DEF GoingOn
      <4> QED BY <4>1, <3>2 DEF Anthropic!Remembered
    <3> QED BY <3>1, <3>2
  <2>3. cache' = {signedOf(c) : c \in {d \in stopped' : caching /\ signed[d] > 0}}
    BY <1>2, <2>1, <2>2
  <2>4. signedOf(b)' = signedOf(b) /\ \A c : signedOf(c)' = signedOf(c)
    BY <1>2
  <2> QED BY <2>3, <1>2 DEF Anthropic!CachedIsSigned, Anthropic!SignatureParts
<1> QED BY <1>5, <1>6, <1>7, <1>8 DEF AnthropicInv

\* The end of the body, however it came.
LEMMA AnthropicEnd ==
    ASSUME AnthropicInv, Anthropic!End
    PROVE  AnthropicInv'
<1>1. AnthropicTypes /\ \A c \in Indices : BlockInv(c)
  BY DEF AnthropicInv
<1>2. /\ stream = "open" /\ stream' = "closed"
      /\ seen' = IF flushOnClose THEN [b \in Indices |-> seen[b] \o Anthropic!Remaining(b)] ELSE seen
      /\ accumulators' = [b \in Indices |-> <<>>] /\ buffers' = [b \in Indices |-> <<>>]
      /\ raw' = [b \in Indices |-> <<>>] /\ signatures' = [b \in Indices |-> 0]
      /\ UNCHANGED <<flushOnClose, caching, kind, written, signed, stopped, cache>>
  BY DEF Anthropic!End, Anthropic!Cleared, Anthropic!upstream, Anthropic!setup
<1>3. ASSUME NEW b \in Indices
      PROVE  /\ Full(b) \in Seq(Shown) /\ Full(b)' = Full(b) /\ seen'[b] \in Seq(Shown)
             /\ IF flushOnClose THEN seen'[b] = Full(b) ELSE seen'[b] = seen[b]
  <2>1. seen[b] \o Anthropic!Remaining(b) = Full(b) /\ Full(b) \in Seq(Shown)
    BY <1>2, BlockComesOut
  <2>2. Full(b)' = Full(b)
    BY <1>2 DEF Full
  <2> QED BY <2>1, <2>2, <1>1, <1>2 DEF AnthropicTypes
<1>4. AnthropicTypes'
  <2>1. seen' \in [Indices -> Seq(Shown)]
    <3>1. CASE flushOnClose
      BY <1>2, <1>3, <3>1
    <3>2. CASE ~flushOnClose
      BY <1>1, <1>2, <3>2 DEF AnthropicTypes
    <3> QED BY <3>1, <3>2
  <2>2. <<>> \in Seq(Pieces)
    BY EmptySeq
  <2> QED BY <2>1, <2>2, <1>1, <1>2 DEF AnthropicTypes
<1>5. ASSUME NEW b \in Indices PROVE BlockInv(b)'
  <2>1. Emptied(b)'
    BY <1>2 DEF Emptied
  <2>2. IsPrefix(seen[b], Full(b)) /\ (b \in stopped => seen[b] = Full(b))
    <3>1. Anthropic!ShownIsPrefix /\ Anthropic!StoppedIsWhole
      BY AnthropicPromises
    <3>2. Anthropic!Display(b) = Full(b)
      BY SameText DEF Anthropic!Display, Full
    <3>3. \A s, t : Anthropic!IsPrefix(s, t) <=> IsPrefix(s, t)
      BY DEF IsPrefix, Anthropic!IsPrefix
    <3> QED BY <3>1, <3>2, <3>3 DEF Anthropic!ShownIsPrefix, Anthropic!StoppedIsWhole
  <2>3. BlockInv(b) /\ Full(b)' = Full(b) /\ IF flushOnClose THEN seen'[b] = Full(b) ELSE seen'[b] = seen[b]
    BY <1>1, <1>3
  <2> QED BY <2>1, <2>2, <2>3, <1>2 DEF BlockInv
<1>6. Anthropic!CachedIsSigned'
  BY <1>2, CacheStays
<1> QED BY <1>4, <1>5, <1>6 DEF AnthropicInv

\* Every step of the transformer keeps the invariant.
LEMMA AnthropicStep == AnthropicInv /\ Anthropic!Next => AnthropicInv'
<1> SUFFICES ASSUME AnthropicInv, Anthropic!Next PROVE AnthropicInv'
  OBVIOUS
<1>1. CASE Anthropic!Break
  <2>1. /\ stream = "open" /\ stream' = "broken"
        /\ UNCHANGED <<flushOnClose, caching, kind, written, signed, stopped, buffers, accumulators, raw, signatures, cache, seen>>
    BY <1>1 DEF Anthropic!Break, Anthropic!upstream, Anthropic!setup
  <2>2. AnthropicTypes'
    BY <2>1 DEF AnthropicInv, AnthropicTypes
  <2>3. ASSUME NEW b \in Indices PROVE BlockInv(b)'
    <3>1. BlockInv(b) /\ Full(b)' = Full(b) /\ (GoingOn(b)' <=> GoingOn(b)) /\ (Emptied(b)' <=> Emptied(b))
      BY <2>1 DEF AnthropicInv, Full, GoingOn, IsBuffered, Emptied
    <3> QED BY <3>1, <2>1 DEF BlockInv
  <2>4. Anthropic!CachedIsSigned'
    BY <2>1, CacheStays
  <2> QED BY <2>2, <2>3, <2>4 DEF AnthropicInv
<1> QED BY <1>1, AnthropicDeltas, AnthropicSignature, AnthropicStop, AnthropicEnd DEF Anthropic!Next

-----------------------------------------------------------------------------
(* The transformer of the Responses API                                    *)

\* The operators on texts, as this transformer has them.
LEMMA SameCodexText ==
    \A t : /\ Codex!Held(t) = Held(t) /\ Codex!Safe(t) = Safe(t)
           /\ Codex!Restored(t) = Restored(t)
           /\ Codex!WellFormed(t) <=> WellFormed(t)
<1> SUFFICES ASSUME NEW t
             PROVE  /\ Codex!Held(t) = Held(t) /\ Codex!Safe(t) = Safe(t)
                    /\ Codex!Restored(t) = Restored(t)
                    /\ Codex!WellFormed(t) <=> WellFormed(t)
  OBVIOUS
<1>1. Codex!Held(t) = Held(t)
  BY DEF Held, EndsInHead, Last, Codex!Held, Codex!EndsInHead, Codex!Last
<1>2. Codex!Safe(t) = Safe(t)
  BY <1>1 DEF Safe, Codex!Safe
<1>3. Codex!Restored(t) = Restored(t)
  BY Zenon DEF Restored, Codex!Restored
<1>4. Codex!WellFormed(t) <=> WellFormed(t)
  BY DEF WellFormed, Codex!WellFormed
<1> QED BY <1>1, <1>2, <1>3, <1>4

\* Every item has its state; written and seen are texts.
CodexTypes ==
    /\ flushOnClose \in BOOLEAN /\ stream \in {"open", "closed", "broken"}
    /\ calls \subseteq Indices /\ finished \subseteq Indices
    /\ written \in [Indices -> Seq(Pieces)] /\ seen \in [Indices -> Seq(Shown)]
    /\ accumulators \in [Indices -> Seq(Pieces)]
    /\ buffers \in [Indices -> {<<>>, <<"head">>}]

\* A message's text is behind its buffer; a call's arguments are withheld until they are all there.
ItemInv(i) ==
    /\ WellFormed(written[i])
    /\ stream = "closed" \/ i \in calls => buffers[i] = <<>>
    /\ stream = "closed" \/ i \notin calls \/ i \in finished => accumulators[i] = <<>>
    /\ i \in calls /\ i \in finished => seen[i] = Restored(written[i])
    /\ stream # "closed" /\ i \notin calls =>
           buffers[i] = Held(written[i]) /\ seen[i] = Restored(Safe(written[i]))
    /\ stream # "closed" /\ i \in calls /\ i \notin finished =>
           accumulators[i] = written[i] /\ seen[i] = <<>>
    /\ stream = "closed" => IF flushOnClose THEN seen[i] = Restored(written[i])
                            ELSE IsPrefix(seen[i], Restored(written[i]))

\* The inductive invariant of the items.
CodexInv == CodexTypes /\ \A i \in Indices : ItemInv(i)

\* What it says of one item.
LEMMA ItemFacts ==
    ASSUME CodexInv, NEW i \in Indices
    PROVE  /\ IsPrefix(seen[i], Restored(written[i]))
           /\ Restored(written[i]) \in Seq(Shown)
           /\ stream = "open" => (seen[i] \o Restored(buffers[i])) \o Restored(accumulators[i]) = Restored(written[i])
<1>1. /\ ItemInv(i) /\ written[i] \in Seq(Pieces) /\ WellFormed(written[i]) /\ seen[i] \in Seq(Shown)
  BY DEF CodexInv, CodexTypes, ItemInv
<1>2. /\ Restored(Safe(written[i])) \o Restored(Held(written[i])) = Restored(written[i])
      /\ Restored(written[i]) \in Seq(Shown)
      /\ IsPrefix(Restored(Safe(written[i])), Restored(written[i]))
      /\ IsPrefix(Restored(written[i]), Restored(written[i])) /\ IsPrefix(<<>>, Restored(written[i]))
  BY <1>1, ComesOut
<1>3. IsPrefix(seen[i], Restored(written[i]))
  BY <1>1, <1>2 DEF ItemInv
<1>4. ASSUME stream = "open"
      PROVE  (seen[i] \o Restored(buffers[i])) \o Restored(accumulators[i]) = Restored(written[i])
  <2>1. /\ Restored(written[i]) \o <<>> = Restored(written[i]) /\ <<>> \o Restored(written[i]) = Restored(written[i])
        /\ <<>> \o <<>> = <<>> /\ Restored(<<>>) = <<>>
    BY <1>2, ConcatEmptySeq, EmptySeq, RestoredOfNothing
  <2>2. CASE i \notin calls
    BY <1>1, <1>2, <1>4, <2>1, <2>2 DEF ItemInv
  <2>3. CASE i \in calls /\ i \in finished
    BY <1>1, <1>4, <2>1, <2>3 DEF ItemInv
  <2>4. CASE i \in calls /\ i \notin finished
    BY <1>1, <1>4, <2>1, <2>4 DEF ItemInv
  <2> QED BY <2>2, <2>3, <2>4
<1> QED BY <1>2, <1>3, <1>4

\* It implies what AnswerIsWhole says of items.
LEMMA CodexPromises ==
    ASSUME CodexInv
    PROVE  Codex!TypeOK /\ Codex!ShownIsPrefix /\ Codex!CallsAreWhole /\ Codex!ClosedIsWhole
<1>1. Codex!ShownIsPrefix
  <2>1. \A s, t : Codex!IsPrefix(s, t) <=> IsPrefix(s, t)
    BY DEF IsPrefix, Codex!IsPrefix
  <2> QED BY <2>1, ItemFacts, SameCodexText DEF Codex!ShownIsPrefix
<1>2. Codex!CallsAreWhole
  <2>1. \A i \in Indices : i \in calls /\ i \in finished => seen[i] = Restored(written[i])
    BY DEF CodexInv, ItemInv
  <2> QED BY <2>1, SameCodexText DEF Codex!CallsAreWhole, CodexInv, CodexTypes
<1>3. Codex!ClosedIsWhole
  <2>1. \A i \in Indices : stream = "closed" /\ flushOnClose => seen[i] = Restored(written[i])
    BY DEF CodexInv, ItemInv
  <2> QED BY <2>1, SameCodexText DEF Codex!ClosedIsWhole
<1>4. Codex!TypeOK
  <2>1. \A S : \A s \in Seq(S) : Codex!Range(s) \subseteq S
    BY ElementOfSeq DEF Codex!Range
  <2>2. Codex!Pieces = Pieces /\ Codex!Shown = Shown
    BY DEF Pieces, Shown, Codex!Pieces, Codex!Shown
  <2>3. ASSUME NEW i \in Indices
        PROVE  /\ Codex!Range(written[i]) \subseteq Pieces /\ Codex!Range(accumulators[i]) \subseteq Pieces
               /\ Codex!Range(seen[i]) \subseteq Shown /\ buffers[i] \in {<<>>, <<"head">>}
    BY <2>1 DEF CodexInv, CodexTypes
  <2> QED BY <2>2, <2>3 DEF CodexInv, CodexTypes, Codex!TypeOK
<1> QED BY <1>1, <1>2, <1>3, <1>4

\* It holds initially.
LEMMA CodexBegins == Codex!Init => CodexInv
<1> SUFFICES ASSUME Codex!Init PROVE CodexInv
  OBVIOUS
<1>1. <<>> \in Seq(Shown) /\ <<>> \in Seq(Pieces)
  BY EmptySeq
<1>2. CodexTypes
  BY <1>1 DEF Codex!Init, CodexTypes
<1>3. ASSUME NEW i \in Indices PROVE ItemInv(i)
  BY EmptyText, RestoredOfNothing DEF Codex!Init, ItemInv
<1> QED BY <1>2, <1>3 DEF CodexInv

\* A step at one item leaves the others as they are.
LEMMA OtherItems ==
    ASSUME NEW j, UNCHANGED <<flushOnClose, calls, stream>>,
           NEW i \in Indices, i # j, ItemInv(i), i \in finished' <=> i \in finished,
           written'[i] = written[i], seen'[i] = seen[i], buffers'[i] = buffers[i],
           accumulators'[i] = accumulators[i]
    PROVE  ItemInv(i)'
  BY DEF ItemInv

\* A delta makes the text of its item longer, and of no other.
LEMMA SentToItem ==
    ASSUME CodexInv, NEW i \in Indices, NEW chunk \in CodexChunks, Codex!Sends(i, chunk)
    PROVE  /\ chunk \in Seq(Pieces) /\ written[i] \in Seq(Pieces) /\ WellFormed(written[i])
           /\ written[i] \o chunk \in Seq(Pieces) /\ WellFormed(written[i] \o chunk)
           /\ written' = [written EXCEPT ![i] = written[i] \o chunk]
           /\ written' \in [Indices -> Seq(Pieces)] /\ written'[i] = written[i] \o chunk
           /\ i \notin finished /\ stream = "open"
           /\ UNCHANGED <<flushOnClose, calls, finished, stream>>
<1>1. chunk \in Seq(Pieces)
  BY ChunksAssumption
<1>2. written \in [Indices -> Seq(Pieces)] /\ ItemInv(i)
  BY DEF CodexInv, CodexTypes
<1>3. /\ i \notin finished /\ stream = "open" /\ WellFormed(written[i] \o chunk)
      /\ written' = [written EXCEPT ![i] = written[i] \o chunk]
      /\ UNCHANGED <<flushOnClose, calls, finished, stream>>
  BY SameCodexText DEF Codex!Sends
<1>4. written[i] \o chunk \in Seq(Pieces)
  BY <1>1, <1>2, ConcatProperties
<1> QED BY <1>1, <1>2, <1>3, <1>4 DEF ItemInv

\* response.output_text.delta.
LEMMA CodexTextDelta ==
    ASSUME CodexInv, NEW i \in Indices, Codex!TextDelta(i)
    PROVE  CodexInv'
<1>1. PICK chunk \in CodexChunks :
        /\ Codex!Sends(i, chunk)
        /\ buffers' = [buffers EXCEPT ![i] = Held(buffers[i] \o chunk)]
        /\ seen' = [seen EXCEPT ![i] = seen[i] \o Restored(Safe(buffers[i] \o chunk))]
  BY SameCodexText DEF Codex!TextDelta
<1>2. /\ chunk \in Seq(Pieces) /\ written[i] \in Seq(Pieces) /\ WellFormed(written[i])
      /\ written[i] \o chunk \in Seq(Pieces) /\ WellFormed(written[i] \o chunk)
      /\ written' = [written EXCEPT ![i] = written[i] \o chunk]
      /\ written' \in [Indices -> Seq(Pieces)] /\ written'[i] = written[i] \o chunk
      /\ i \notin finished /\ stream = "open"
      /\ UNCHANGED <<flushOnClose, calls, finished, stream>>
  BY <1>1, SentToItem
<1>3. /\ Held(Held(written[i]) \o chunk) = Held(written[i] \o chunk)
      /\ Held(written[i] \o chunk) \in {<<>>, <<"head">>}
      /\ Restored(Safe(written[i])) \o Restored(Safe(Held(written[i]) \o chunk)) = Restored(Safe(written[i] \o chunk))
      /\ Restored(Safe(written[i] \o chunk)) \in Seq(Shown)
  BY <1>2, GoesOn
<1>4. i \notin calls /\ UNCHANGED accumulators
  BY DEF Codex!TextDelta
<1>5. CodexTypes /\ (\A j \in Indices : ItemInv(j)) /\ ItemInv(i)
  BY DEF CodexInv
<1>6. buffers[i] = Held(written[i]) /\ seen[i] = Restored(Safe(written[i])) /\ accumulators[i] = <<>>
  BY <1>2, <1>4, <1>5 DEF ItemInv
<1>7. /\ buffers' = [buffers EXCEPT ![i] = Held(written[i] \o chunk)]
      /\ seen' = [seen EXCEPT ![i] = Restored(Safe(written[i] \o chunk))]
  BY <1>1, <1>3, <1>6
<1>8. /\ buffers' \in [Indices -> {<<>>, <<"head">>}] /\ buffers'[i] = Held(written[i] \o chunk)
      /\ seen' \in [Indices -> Seq(Shown)] /\ seen'[i] = Restored(Safe(written[i] \o chunk))
  BY <1>3, <1>5, <1>7 DEF CodexTypes
<1>9. CodexTypes'
  BY <1>2, <1>4, <1>5, <1>8 DEF CodexTypes
<1>10. ItemInv(i)'
  BY <1>2, <1>4, <1>6, <1>8 DEF ItemInv
<1>11. ASSUME NEW j \in Indices, j # i PROVE ItemInv(j)'
  <2>1. /\ written'[j] = written[j] /\ seen'[j] = seen[j] /\ buffers'[j] = buffers[j]
        /\ accumulators'[j] = accumulators[j] /\ (j \in finished' <=> j \in finished)
        /\ UNCHANGED <<flushOnClose, calls, stream>> /\ ItemInv(j)
    BY <1>2, <1>4, <1>5, <1>7, <1>11 DEF CodexTypes
  <2> QED BY <2>1, <1>11, OtherItems
<1> QED BY <1>9, <1>10, <1>11 DEF CodexInv

\* response.function_call_arguments.delta: the accumulator has it, the client nothing.
LEMMA CodexArgumentsDelta ==
    ASSUME CodexInv, NEW i \in Indices, Codex!ArgumentsDelta(i)
    PROVE  CodexInv'
<1>1. PICK chunk \in CodexChunks :
        Codex!Sends(i, chunk) /\ accumulators' = [accumulators EXCEPT ![i] = accumulators[i] \o chunk]
  BY DEF Codex!ArgumentsDelta
<1>2. /\ chunk \in Seq(Pieces) /\ written[i] \in Seq(Pieces) /\ WellFormed(written[i])
      /\ written[i] \o chunk \in Seq(Pieces) /\ WellFormed(written[i] \o chunk)
      /\ written' = [written EXCEPT ![i] = written[i] \o chunk]
      /\ written' \in [Indices -> Seq(Pieces)] /\ written'[i] = written[i] \o chunk
      /\ i \notin finished /\ stream = "open"
      /\ UNCHANGED <<flushOnClose, calls, finished, stream>>
  BY <1>1, SentToItem
<1>3. i \in calls /\ UNCHANGED <<buffers, seen>>
  BY DEF Codex!ArgumentsDelta
<1>4. CodexTypes /\ (\A j \in Indices : ItemInv(j)) /\ ItemInv(i)
  BY DEF CodexInv
<1>5. accumulators[i] = written[i] /\ seen[i] = <<>> /\ buffers[i] = <<>>
  BY <1>2, <1>3, <1>4 DEF ItemInv
<1>6. /\ accumulators' = [accumulators EXCEPT ![i] = written[i] \o chunk]
      /\ accumulators' \in [Indices -> Seq(Pieces)] /\ accumulators'[i] = written[i] \o chunk
  BY <1>1, <1>2, <1>4, <1>5 DEF CodexTypes
<1>7. CodexTypes'
  BY <1>2, <1>3, <1>4, <1>6 DEF CodexTypes
<1>8. ItemInv(i)'
  BY <1>2, <1>3, <1>5, <1>6 DEF ItemInv
<1>9. ASSUME NEW j \in Indices, j # i PROVE ItemInv(j)'
  <2>1. /\ written'[j] = written[j] /\ seen'[j] = seen[j] /\ buffers'[j] = buffers[j]
        /\ accumulators'[j] = accumulators[j] /\ (j \in finished' <=> j \in finished)
        /\ UNCHANGED <<flushOnClose, calls, stream>> /\ ItemInv(j)
    BY <1>2, <1>3, <1>4, <1>6, <1>9 DEF CodexTypes
  <2> QED BY <2>1, <1>9, OtherItems
<1> QED BY <1>7, <1>8, <1>9 DEF CodexInv

\* response.function_call_arguments.done: all the arguments come at once, restored.
LEMMA CodexDone ==
    ASSUME CodexInv, NEW i \in Indices, Codex!TextDone(i) \/ Codex!ArgumentsDone(i)
    PROVE  CodexInv'
<1>1. CodexTypes /\ (\A j \in Indices : ItemInv(j)) /\ ItemInv(i) /\ written[i] \in Seq(Pieces)
  BY DEF CodexInv, CodexTypes
<1>2. CASE Codex!TextDone(i)
  <2>1. /\ stream = "open" /\ i \notin calls /\ finished' = finished \cup {i}
        /\ UNCHANGED <<flushOnClose, calls, written, buffers, accumulators, seen, stream>>
    BY <1>2 DEF Codex!TextDone
  <2>2. CodexTypes'
    BY <1>1, <2>1 DEF CodexTypes
  <2>3. ASSUME NEW j \in Indices PROVE ItemInv(j)'
    BY <1>1, <2>1 DEF ItemInv
  <2> QED BY <2>2, <2>3 DEF CodexInv
<1>3. CASE Codex!ArgumentsDone(i)
  <2>1. /\ stream = "open" /\ i \in calls /\ i \notin finished /\ finished' = finished \cup {i}
        /\ seen' = [seen EXCEPT ![i] = seen[i] \o Restored(accumulators[i])]
        /\ accumulators' = [accumulators EXCEPT ![i] = <<>>]
        /\ UNCHANGED <<flushOnClose, calls, written, buffers, stream>>
    BY <1>3, SameCodexText DEF Codex!ArgumentsDone
  <2>2. accumulators[i] = written[i] /\ seen[i] = <<>> /\ buffers[i] = <<>>
    BY <1>1, <2>1 DEF ItemInv
  <2>3. Restored(written[i]) \in Seq(Shown) /\ <<>> \o Restored(written[i]) = Restored(written[i])
    BY <1>1, RestoredText, ConcatEmptySeq
  <2>4. seen' = [seen EXCEPT ![i] = Restored(written[i])]
    BY <2>1, <2>2, <2>3
  <2>5. /\ seen' \in [Indices -> Seq(Shown)] /\ seen'[i] = Restored(written[i])
        /\ accumulators' \in [Indices -> Seq(Pieces)] /\ accumulators'[i] = <<>>
    BY <1>1, <2>1, <2>3, <2>4, EmptyText DEF CodexTypes
  <2>6. CodexTypes'
    BY <1>1, <2>1, <2>5 DEF CodexTypes
  <2>7. ItemInv(i)'
    BY <1>1, <2>1, <2>2, <2>5 DEF ItemInv
  <2>8. ASSUME NEW j \in Indices, j # i PROVE ItemInv(j)'
    <3>1. /\ written'[j] = written[j] /\ seen'[j] = seen[j] /\ buffers'[j] = buffers[j]
          /\ accumulators'[j] = accumulators[j] /\ (j \in finished' <=> j \in finished)
          /\ UNCHANGED <<flushOnClose, calls, stream>> /\ ItemInv(j)
      BY <1>1, <2>1, <2>4, <2>8 DEF CodexTypes
    <3> QED BY <3>1, <2>8, OtherItems
  <2> QED BY <2>6, <2>7, <2>8 DEF CodexInv
<1> QED BY <1>2, <1>3

\* Every step of the transformer keeps the invariant.
LEMMA CodexStep == CodexInv /\ Codex!Next => CodexInv'
<1> SUFFICES ASSUME CodexInv, Codex!Next PROVE CodexInv'
  OBVIOUS
<1>1. CodexTypes /\ \A i \in Indices : ItemInv(i)
  BY DEF CodexInv
<1>2. CASE Codex!End
  <2>1. /\ stream = "open" /\ stream' = "closed"
        /\ seen' = IF flushOnClose
                   THEN [i \in Indices |-> (seen[i] \o Restored(buffers[i])) \o Restored(accumulators[i])] ELSE seen
        /\ buffers' = [i \in Indices |-> <<>>] /\ accumulators' = [i \in Indices |-> <<>>]
        /\ UNCHANGED <<flushOnClose, calls, written, finished>>
    BY <1>2, SameCodexText DEF Codex!End
  <2>2. ASSUME NEW i \in Indices
        PROVE  /\ Restored(written[i]) \in Seq(Shown) /\ IsPrefix(seen[i], Restored(written[i]))
               /\ (seen[i] \o Restored(buffers[i])) \o Restored(accumulators[i]) = Restored(written[i])
    BY <2>1, ItemFacts
  <2>3. seen' = IF flushOnClose THEN [i \in Indices |-> Restored(written[i])] ELSE seen
    BY <2>1, <2>2
  <2>4. CodexTypes'
    <3>1. seen' \in [Indices -> Seq(Shown)]
      BY <1>1, <2>2, <2>3 DEF CodexTypes
    <3> QED BY <3>1, <1>1, <2>1, EmptyText DEF CodexTypes
  <2>5. ASSUME NEW i \in Indices PROVE ItemInv(i)'
    <3>1. /\ buffers'[i] = <<>> /\ accumulators'[i] = <<>> /\ ItemInv(i) /\ IsPrefix(seen[i], Restored(written[i]))
          /\ IF flushOnClose THEN seen'[i] = Restored(written[i]) ELSE seen'[i] = seen[i]
      BY <1>1, <2>1, <2>2, <2>3
    <3> QED BY <3>1, <2>1 DEF ItemInv
  <2> QED BY <2>4, <2>5 DEF CodexInv
<1>3. CASE Codex!Break
  <2>1. /\ stream = "open" /\ stream' = "broken"
        /\ UNCHANGED <<flushOnClose, calls, written, finished, buffers, accumulators, seen>>
    BY <1>3 DEF Codex!Break
  <2>2. CodexTypes'
    BY <1>1, <2>1 DEF CodexTypes
  <2>3. ASSUME NEW i \in Indices PROVE ItemInv(i)'
    BY <1>1, <2>1 DEF ItemInv
  <2> QED BY <2>2, <2>3 DEF CodexInv
<1> QED BY <1>2, <1>3, CodexTextDelta, CodexArgumentsDelta, CodexDone DEF Codex!Next

-----------------------------------------------------------------------------
(* The transformer of chat completions                                     *)

\* The operators on texts, as this transformer has them.
LEMMA SameOpenAIText ==
    \A t : /\ OpenAI!Held(t) = Held(t) /\ OpenAI!Safe(t) = Safe(t)
           /\ OpenAI!Restored(t) = Restored(t)
           /\ OpenAI!WellFormed(t) <=> WellFormed(t)
<1> SUFFICES ASSUME NEW t
             PROVE  /\ OpenAI!Held(t) = Held(t) /\ OpenAI!Safe(t) = Safe(t)
                    /\ OpenAI!Restored(t) = Restored(t)
                    /\ OpenAI!WellFormed(t) <=> WellFormed(t)
  OBVIOUS
<1>1. OpenAI!Held(t) = Held(t)
  BY DEF Held, EndsInHead, Last, OpenAI!Held, OpenAI!EndsInHead, OpenAI!Last
<1>2. OpenAI!Safe(t) = Safe(t)
  BY <1>1 DEF Safe, OpenAI!Safe
<1>3. OpenAI!Restored(t) = Restored(t)
  BY Zenon DEF Restored, OpenAI!Restored
<1>4. OpenAI!WellFormed(t) <=> WellFormed(t)
  BY DEF WellFormed, OpenAI!WellFormed
<1> QED BY <1>1, <1>2, <1>3, <1>4

\* What one choice can hold, its texts in pieces of S.
ChoicesOf(S) == [content : Seq(S), arguments : Seq(S), finish : BOOLEAN]

\* Every choice has its state.
OpenAITypes ==
    /\ flushOnClose \in BOOLEAN /\ stream \in {"open", "closed", "broken"} /\ done \in BOOLEAN
    /\ written \in [Indices -> ChoicesOf(Pieces)] /\ seen \in [Indices -> ChoicesOf(Shown)]
    /\ accumulators \in [Indices -> Seq(Pieces)]
    /\ buffers \in [Indices -> {<<>>, <<"head">>}]

\* Content goes through the buffer, unless it may come next to a tool call; arguments are withheld
\* until the body ends.
ChoiceInv(c) ==
    /\ WellFormed(written[c].content) /\ WellFormed(written[c].arguments)
    /\ "last words" \notin habits => (written[c].finish => seen[c].finish)
    /\ stream # "closed" =>
           /\ accumulators[c] = written[c].arguments /\ seen[c].arguments = <<>>
           /\ "mixed" \notin habits => /\ buffers[c] = Held(written[c].content)
                                       /\ seen[c].content = Restored(Safe(written[c].content))
    /\ stream = "closed" =>
           /\ seen[c].arguments = IF flushOnClose THEN Restored(written[c].arguments) ELSE <<>>
           /\ "mixed" \notin habits =>
                  IF flushOnClose THEN seen[c].content = Restored(written[c].content)
                  ELSE IsPrefix(seen[c].content, Restored(written[c].content))

\* The inductive invariant of the choices.
OpenAIInv == OpenAITypes /\ \A c \in Indices : ChoiceInv(c)

\* What it says of one choice.
LEMMA ChoiceFacts ==
    ASSUME OpenAIInv, NEW c \in Indices
    PROVE  /\ written[c].content \in Seq(Pieces) /\ written[c].arguments \in Seq(Pieces)
           /\ written[c].finish \in BOOLEAN
           /\ WellFormed(written[c].content) /\ WellFormed(written[c].arguments)
           /\ seen[c].content \in Seq(Shown) /\ seen[c].arguments \in Seq(Shown) /\ seen[c].finish \in BOOLEAN
           /\ written[c] = [content |-> written[c].content, arguments |-> written[c].arguments, finish |-> written[c].finish]
           /\ seen[c] = [content |-> seen[c].content, arguments |-> seen[c].arguments, finish |-> seen[c].finish]
           /\ accumulators[c] \in Seq(Pieces) /\ buffers[c] \in {<<>>, <<"head">>} /\ buffers[c] \in Seq(Pieces)
           /\ "mixed" \notin habits => IsPrefix(seen[c].content, Restored(written[c].content))
<1>1. /\ written[c] \in ChoicesOf(Pieces) /\ seen[c] \in ChoicesOf(Shown) /\ ChoiceInv(c)
      /\ accumulators[c] \in Seq(Pieces) /\ buffers[c] \in {<<>>, <<"head">>}
  BY DEF OpenAIInv, OpenAITypes
<1>2. /\ written[c].content \in Seq(Pieces) /\ written[c].arguments \in Seq(Pieces)
      /\ written[c].finish \in BOOLEAN
      /\ seen[c].content \in Seq(Shown) /\ seen[c].arguments \in Seq(Shown) /\ seen[c].finish \in BOOLEAN
      /\ written[c] = [content |-> written[c].content, arguments |-> written[c].arguments, finish |-> written[c].finish]
      /\ seen[c] = [content |-> seen[c].content, arguments |-> seen[c].arguments, finish |-> seen[c].finish]
  BY <1>1 DEF ChoicesOf
<1>3. /\ WellFormed(written[c].content) /\ WellFormed(written[c].arguments)
  BY <1>1 DEF ChoiceInv
<1>4. /\ IsPrefix(Restored(Safe(written[c].content)), Restored(written[c].content))
      /\ IsPrefix(Restored(written[c].content), Restored(written[c].content))
  BY <1>2, <1>3, ComesOut
<1>5. "mixed" \notin habits => IsPrefix(seen[c].content, Restored(written[c].content))
  BY <1>1, <1>4 DEF ChoiceInv
<1>6. buffers[c] \in Seq(Pieces)
  <2>1. <<>> \in Seq(Pieces) /\ <<"head">> \in Seq(Pieces)
    BY EmptySeq DEF Pieces
  <2> QED BY <2>1, <1>1
<1> QED BY <1>1, <1>2, <1>3, <1>5, <1>6

\* It implies what AnswerIsWhole says of choices.
LEMMA OpenAIPromises ==
    ASSUME OpenAIInv
    PROVE  /\ OpenAI!TypeOK /\ OpenAI!ContentIsPrefix /\ OpenAI!ArgumentsAreWhole
           /\ OpenAI!ClosedIsWhole /\ OpenAI!FinishIsTold
<1>1. OpenAI!ContentIsPrefix
  <2>1. \A s, t : OpenAI!IsPrefix(s, t) <=> IsPrefix(s, t)
    BY DEF IsPrefix, OpenAI!IsPrefix
  <2> QED BY <2>1, ChoiceFacts, SameOpenAIText DEF OpenAI!ContentIsPrefix
<1>2. OpenAI!ArgumentsAreWhole
  <2>1. \A c \in Indices :
          seen[c].arguments = IF stream = "closed" /\ flushOnClose THEN Restored(written[c].arguments) ELSE <<>>
    BY DEF OpenAIInv, ChoiceInv
  <2> QED BY <2>1, SameOpenAIText DEF OpenAI!ArgumentsAreWhole
<1>3. OpenAI!ClosedIsWhole
  <2>1. \A c \in Indices : stream = "closed" /\ flushOnClose /\ "mixed" \notin habits =>
          seen[c].content = Restored(written[c].content)
    BY DEF OpenAIInv, ChoiceInv
  <2> QED BY <2>1, SameOpenAIText DEF OpenAI!ClosedIsWhole
<1>4. OpenAI!FinishIsTold
  BY DEF OpenAI!FinishIsTold, OpenAIInv, ChoiceInv
<1>5. OpenAI!TypeOK
  <2>1. \A S : \A s \in Seq(S) : OpenAI!Range(s) \subseteq S
    BY ElementOfSeq DEF OpenAI!Range
  <2>2. OpenAI!Pieces = Pieces /\ OpenAI!Shown = Shown
    BY DEF Pieces, Shown, OpenAI!Pieces, OpenAI!Shown
  <2>3. ASSUME NEW c \in Indices
        PROVE  /\ OpenAI!Range(written[c].content) \subseteq Pieces
               /\ OpenAI!Range(written[c].arguments) \subseteq Pieces
               /\ OpenAI!Range(accumulators[c]) \subseteq Pieces
               /\ OpenAI!Range(seen[c].content) \subseteq Shown
               /\ OpenAI!Range(seen[c].arguments) \subseteq Shown
               /\ buffers[c] \in {<<>>, <<"head">>}
    BY <2>1, ChoiceFacts
  <2> QED BY <2>2, <2>3 DEF OpenAIInv, OpenAITypes, OpenAI!TypeOK
<1> QED BY <1>1, <1>2, <1>3, <1>4, <1>5

\* It holds initially.
LEMMA OpenAIBegins == OpenAI!Init => OpenAIInv
<1> SUFFICES ASSUME OpenAI!Init PROVE OpenAIInv
  OBVIOUS
<1>1. <<>> \in Seq(Shown) /\ <<>> \in Seq(Pieces)
  BY EmptySeq
<1>2. OpenAITypes
  BY <1>1 DEF OpenAI!Init, OpenAI!Nothing, OpenAITypes, ChoicesOf
<1>3. ASSUME NEW c \in Indices PROVE ChoiceInv(c)
  BY EmptyText, RestoredOfNothing DEF OpenAI!Init, OpenAI!Nothing, ChoiceInv
<1> QED BY <1>2, <1>3 DEF OpenAIInv

\* A field of a delta is a text or absent, and what a buffer hands on is never taken for absent.
LEMMA Fields ==
    /\ \A f \in OpenAIChunks \cup {OpenAI!Absent} : OpenAI!Text(f) \in Seq(Pieces)
    /\ \A s \in Seq(Shown) : OpenAI!Text(s) = s
    /\ OpenAI!Text(OpenAI!Absent) = <<>>
<1>1. <<>> \in Seq(Pieces)
  BY EmptySeq
<1>2. \A s \in Seq(Shown) : s # OpenAI!Absent
  <2> SUFFICES ASSUME <<"absent">> \in Seq(Shown) PROVE FALSE
    BY DEF OpenAI!Absent
  <2>1. <<"absent">>[1] \in Shown
    BY ElementOfSeq
  <2> QED BY <2>1 DEF Shown, Pieces
<1> QED BY <1>1, <1>2, ChunksAssumption DEF OpenAI!Text

\* A delta of a choice, alone in its event or with others, kept or swallowed.
LEMMA ChoiceGoesOn ==
    ASSUME OpenAIInv, stream = "open", NEW c \in Indices, NEW d \in OpenAI!Deltas,
           OpenAI!Possible(written[c], d), NEW kept \in BOOLEAN,
           ~kept => OpenAI!Buffered(c, d) /\ Safe(buffers[c] \o d.content) = <<>>,
           UNCHANGED <<flushOnClose, habits, stream>>,
           written'[c] = OpenAI!Extended(written[c], d),
           buffers'[c] = IF OpenAI!Buffered(c, d) THEN Held(buffers[c] \o d.content) ELSE buffers[c],
           accumulators'[c] = accumulators[c] \o OpenAI!Text(d.arguments),
           seen'[c] = IF kept THEN OpenAI!Extended(seen[c], OpenAI!Rewritten(c, d)) ELSE seen[c]
    PROVE  /\ ChoiceInv(c)'
           /\ written'[c] \in ChoicesOf(Pieces) /\ seen'[c] \in ChoicesOf(Shown)
           /\ accumulators'[c] \in Seq(Pieces) /\ buffers'[c] \in {<<>>, <<"head">>}
<1> DEFINE W == written[c].content
           S == seen[c].content
           more == OpenAI!Text(d.content)
           args == OpenAI!Text(d.arguments)
<1>1. /\ d.content \in OpenAIChunks \cup {OpenAI!Absent} /\ d.arguments \in OpenAIChunks \cup {OpenAI!Absent}
      /\ d.finish \in BOOLEAN
      /\ d.content # OpenAI!Absent /\ d.arguments # OpenAI!Absent => "mixed" \in habits
      /\ d.finish /\ d.content # OpenAI!Absent => "last words" \in habits
  BY DEF OpenAI!Deltas
<1>2. more \in Seq(Pieces) /\ args \in Seq(Pieces)
  BY <1>1, Fields
<1>3. /\ W \in Seq(Pieces) /\ written[c].arguments \in Seq(Pieces) /\ written[c].finish \in BOOLEAN /\ WellFormed(W)
      /\ S \in Seq(Shown) /\ seen[c].arguments \in Seq(Shown) /\ seen[c].finish \in BOOLEAN
      /\ accumulators[c] \in Seq(Pieces) /\ buffers[c] \in {<<>>, <<"head">>} /\ buffers[c] \in Seq(Pieces)
      /\ seen[c] = [content |-> S, arguments |-> seen[c].arguments, finish |-> seen[c].finish]
  BY ChoiceFacts
<1>4. /\ accumulators[c] = written[c].arguments /\ seen[c].arguments = <<>>
      /\ "last words" \notin habits => (written[c].finish => seen[c].finish)
      /\ "mixed" \notin habits => buffers[c] = Held(W) /\ S = Restored(Safe(W))
  BY DEF OpenAIInv, ChoiceInv
<1>5. /\ written'[c] = [content |-> W \o more, arguments |-> written[c].arguments \o args,
                        finish |-> written[c].finish \/ d.finish]
      /\ WellFormed(W \o more) /\ WellFormed(written[c].arguments \o args)
  BY SameOpenAIText DEF OpenAI!Extended, OpenAI!Possible
<1>6. W \o more \in Seq(Pieces) /\ written[c].arguments \o args \in Seq(Pieces)
  BY <1>2, <1>3, ConcatProperties
<1>7. /\ written'[c] \in ChoicesOf(Pieces) /\ written'[c].content = W \o more
      /\ written'[c].arguments = written[c].arguments \o args
      /\ written'[c].finish = (written[c].finish \/ d.finish)
  <2> DEFINE X == W \o more
             Y == written[c].arguments \o args
             fin == written[c].finish \/ d.finish
  <2>1. X \in Seq(Pieces) /\ Y \in Seq(Pieces) /\ fin \in BOOLEAN
    BY <1>6
  <2>2. written'[c] = [content |-> X, arguments |-> Y, finish |-> fin]
    BY <1>5
  <2> HIDE DEF X, Y, fin
  <2>3. written'[c] \in ChoicesOf(Pieces)
    BY ONLY <2>1, <2>2 DEF ChoicesOf
  <2>4. written'[c].content = X
    BY ONLY <2>2
  <2>5. written'[c].arguments = Y
    BY ONLY <2>2
  <2>6. written'[c].finish = fin
    BY ONLY <2>2
  <2> QED BY <2>3, <2>4, <2>5, <2>6 DEF X, Y, fin
<1>8. accumulators'[c] = written[c].arguments \o args /\ accumulators'[c] \in Seq(Pieces)
  BY <1>4, <1>6
<1> HIDE DEF W, S, more, args
<1>9. CASE OpenAI!Buffered(c, d)
  <2>1. d.content # OpenAI!Absent /\ d.arguments = OpenAI!Absent /\ more = d.content
    BY <1>9 DEF OpenAI!Buffered, OpenAI!Text, more
  <2> DEFINE text == buffers[c] \o more
  <2>2. text \in Seq(Pieces)
    BY <1>2, <1>3, ConcatProperties
  <2>3. /\ Held(text) \in {<<>>, <<"head">>} /\ Safe(text) \in Seq(Pieces)
        /\ Restored(Safe(text)) \in Seq(Shown)
    BY <2>2, HeldAndSafe, RestoredText
  <2>4. buffers'[c] = Held(text)
    BY <1>9, <2>1
  <2>5. S \o Restored(Safe(text)) \in Seq(Shown)
    BY <1>3, <2>3, ConcatProperties
  <2>6. seen'[c] = [content |-> S \o Restored(Safe(text)), arguments |-> <<>>,
                    finish |-> IF kept THEN seen[c].finish \/ d.finish ELSE seen[c].finish]
    <3>1. CASE kept
      <4>1. OpenAI!Rewritten(c, d) = [content |-> Restored(Safe(text)), arguments |-> OpenAI!Absent, finish |-> d.finish]
        BY <1>9, <2>1, SameOpenAIText DEF OpenAI!Rewritten
      <4>2. OpenAI!Text(Restored(Safe(text))) = Restored(Safe(text)) /\ OpenAI!Text(OpenAI!Absent) = <<>>
        BY <2>3, Fields
      <4>3. <<>> \o <<>> = <<>>
        BY EmptySeq, ConcatEmptySeq
      <4> DEFINE r == OpenAI!Rewritten(c, d)
      <4>4. r.content = Restored(Safe(text)) /\ r.arguments = OpenAI!Absent /\ r.finish = d.finish
        BY <4>1
      <4>5. seen'[c] = [content |-> S \o OpenAI!Text(r.content),
                        arguments |-> seen[c].arguments \o OpenAI!Text(r.arguments),
                        finish |-> seen[c].finish \/ r.finish]
        BY <3>1 DEF OpenAI!Extended, S
      <4> QED BY <3>1, <4>2, <4>3, <4>4, <4>5, <1>4
    <3>2. CASE ~kept
      <4>1. Safe(text) = <<>>
        BY <3>2, <2>1
      <4>2. S \o Restored(Safe(text)) = S
        BY <4>1, <1>3, RestoredOfNothing, ConcatEmptySeq
      <4> QED BY <3>2, <4>2, <1>3, <1>4
    <3> QED BY <3>1, <3>2
  <2> HIDE DEF text
  <2>7. /\ seen'[c] \in ChoicesOf(Shown) /\ seen'[c].content = S \o Restored(Safe(text))
        /\ seen'[c].arguments = <<>>
        /\ seen'[c].finish = IF kept THEN seen[c].finish \/ d.finish ELSE seen[c].finish
    <3>1. <<>> \in Seq(Shown)
      BY EmptySeq
    <3> DEFINE X == S \o Restored(Safe(text))
               fin == IF kept THEN seen[c].finish \/ d.finish ELSE seen[c].finish
    <3>2. X \in Seq(Shown) /\ fin \in BOOLEAN
      BY <1>3, <2>5
    <3>3. seen'[c] = [content |-> X, arguments |-> <<>>, finish |-> fin]
      BY <2>6
    <3> HIDE DEF X, fin
    <3>4. seen'[c] \in ChoicesOf(Shown)
      BY ONLY <3>1, <3>2, <3>3 DEF ChoicesOf
    <3>5. seen'[c].content = X
      BY ONLY <3>3
    <3>6. seen'[c].arguments = <<>>
      BY ONLY <3>3
    <3>7. seen'[c].finish = fin
      BY ONLY <3>3
    <3> QED BY <3>4, <3>5, <3>6, <3>7 DEF X, fin
  <2>8. "mixed" \notin habits => /\ Held(text) = Held(W \o more)
                                 /\ S \o Restored(Safe(text)) = Restored(Safe(W \o more))
    <3> SUFFICES ASSUME "mixed" \notin habits
                 PROVE  /\ Held(text) = Held(W \o more)
                        /\ S \o Restored(Safe(text)) = Restored(Safe(W \o more))
      OBVIOUS
    <3>1. text = Held(W) \o more /\ S = Restored(Safe(W))
      BY <1>4 DEF text
    <3>2. /\ Held(Held(W) \o more) = Held(W \o more)
          /\ Restored(Safe(W)) \o Restored(Safe(Held(W) \o more)) = Restored(Safe(W \o more))
      BY <1>2, <1>3, GoesOn
    <3> QED BY <3>1, <3>2
  <2>9. "last words" \notin habits => (written'[c].finish => seen'[c].finish)
    <3>1. "last words" \notin habits => ~d.finish
      BY <1>1, <2>1
    <3>2. seen[c].finish => seen'[c].finish
      BY <2>7
    <3> QED BY <3>1, <3>2, <1>4, <1>7
  <2>10. "mixed" \notin habits => /\ buffers'[c] = Held(written'[c].content)
                                  /\ seen'[c].content = Restored(Safe(written'[c].content))
    BY <1>7, <2>4, <2>7, <2>8
  <2>11. /\ WellFormed(written'[c].content) /\ WellFormed(written'[c].arguments)
         /\ accumulators'[c] = written'[c].arguments /\ buffers'[c] \in {<<>>, <<"head">>}
    BY <1>5, <1>7, <1>8, <2>3, <2>4
  <2>12. ChoiceInv(c)'
    BY <2>7, <2>9, <2>10, <2>11 DEF ChoiceInv
  <2> QED BY <1>7, <1>8, <2>7, <2>11, <2>12
<1>10. CASE ~OpenAI!Buffered(c, d)
  <2>1. kept /\ (d.content = OpenAI!Absent \/ d.arguments # OpenAI!Absent)
    BY <1>10 DEF OpenAI!Buffered
  <2>2. OpenAI!Rewritten(c, d) = [content |-> d.content,
                                  arguments |-> IF d.arguments = OpenAI!Absent THEN OpenAI!Absent ELSE <<>>,
                                  finish |-> d.finish]
    BY <1>10 DEF OpenAI!Rewritten
  <2>3. OpenAI!Text(IF d.arguments = OpenAI!Absent THEN OpenAI!Absent ELSE <<>>) = <<>>
    BY Fields, EmptySeq
  <2>4. <<>> \o <<>> = <<>> /\ <<>> \in Seq(Shown)
    BY EmptySeq, ConcatEmptySeq
  <2>5. seen'[c] = [content |-> S \o more, arguments |-> <<>>, finish |-> seen[c].finish \/ d.finish]
    <3> DEFINE r == OpenAI!Rewritten(c, d)
    <3>1. /\ r.content = d.content /\ OpenAI!Text(r.arguments) = <<>> /\ r.finish = d.finish
      BY <2>2, <2>3
    <3>2. seen'[c] = [content |-> S \o OpenAI!Text(r.content),
                      arguments |-> seen[c].arguments \o OpenAI!Text(r.arguments),
                      finish |-> seen[c].finish \/ r.finish]
      BY <2>1 DEF OpenAI!Extended, S
    <3> QED BY <3>1, <3>2, <2>4, <1>4 DEF more
  <2>6. more \in Seq(Shown) /\ S \o more \in Seq(Shown)
    <3>1. Pieces \subseteq Shown
      BY DEF Shown
    <3>2. more \in Seq(Shown)
      BY <3>1, <1>2, SeqMonotonic
    <3> QED BY <3>2, <1>3, ConcatProperties
  <2>7. /\ seen'[c] \in ChoicesOf(Shown) /\ seen'[c].content = S \o more /\ seen'[c].arguments = <<>>
        /\ seen'[c].finish = (seen[c].finish \/ d.finish)
    <3> DEFINE X == S \o more
               fin == seen[c].finish \/ d.finish
    <3>1. X \in Seq(Shown) /\ fin \in BOOLEAN
      BY <1>3, <2>6
    <3>2. seen'[c] = [content |-> X, arguments |-> <<>>, finish |-> fin]
      BY <2>5
    <3> HIDE DEF X, fin
    <3>3. seen'[c] \in ChoicesOf(Shown)
      BY ONLY <3>1, <3>2, <2>4 DEF ChoicesOf
    <3>4. seen'[c].content = X
      BY ONLY <3>2
    <3>5. seen'[c].arguments = <<>>
      BY ONLY <3>2
    <3>6. seen'[c].finish = fin
      BY ONLY <3>2
    <3> QED BY <3>3, <3>4, <3>5, <3>6 DEF X, fin
  <2>8. "mixed" \notin habits => W \o more = W /\ S \o more = S
    <3>1. "mixed" \notin habits => more = <<>>
      BY <1>1, <2>1, Fields DEF more
    <3> QED BY <3>1, <1>3, ConcatEmptySeq
  <2>9. buffers'[c] = buffers[c]
    BY <1>10
  <2>10. "last words" \notin habits => (written'[c].finish => seen'[c].finish)
    BY <1>4, <1>7, <2>7
  <2>11. "mixed" \notin habits => /\ buffers'[c] = Held(written'[c].content)
                                  /\ seen'[c].content = Restored(Safe(written'[c].content))
    BY <1>4, <1>7, <2>7, <2>8, <2>9
  <2>12. /\ WellFormed(written'[c].content) /\ WellFormed(written'[c].arguments)
         /\ accumulators'[c] = written'[c].arguments /\ buffers'[c] \in {<<>>, <<"head">>}
    BY <1>3, <1>5, <1>7, <1>8, <2>9
  <2>13. ChoiceInv(c)'
    BY <2>7, <2>10, <2>11, <2>12 DEF ChoiceInv
  <2> QED BY <1>7, <1>8, <2>7, <2>12, <2>13
<1> QED BY <1>9, <1>10

\* An event with deltas of any choices, swallowed only if nothing of it is left.
LEMMA OpenAIEvent ==
    ASSUME OpenAIInv, OpenAI!Event
    PROVE  OpenAIInv'
<1>1. PICK cs \in SUBSET Indices \ {{}} :
        \E event \in [cs -> {d \in OpenAI!Deltas : \E c \in cs : OpenAI!Possible(written[c], d)}] :
            /\ \A c \in cs : OpenAI!Possible(written[c], event[c])
            /\ written' = [c \in Indices |-> IF c \in cs THEN OpenAI!Extended(written[c], event[c]) ELSE written[c]]
            /\ buffers' = [c \in Indices |-> IF c \in cs /\ OpenAI!Buffered(c, event[c])
                                             THEN Held(buffers[c] \o event[c].content) ELSE buffers[c]]
            /\ accumulators' = [c \in Indices |-> IF c \in cs THEN accumulators[c] \o OpenAI!Text(event[c].arguments)
                                                  ELSE accumulators[c]]
            /\ seen' = IF OpenAI!Kept(event)
                       THEN [c \in Indices |-> IF c \in cs THEN OpenAI!Extended(seen[c], OpenAI!Rewritten(c, event[c]))
                                               ELSE seen[c]]
                       ELSE seen
  BY SameOpenAIText DEF OpenAI!Event
<1>2. PICK event \in [cs -> {d \in OpenAI!Deltas : \E c \in cs : OpenAI!Possible(written[c], d)}] :
            /\ \A c \in cs : OpenAI!Possible(written[c], event[c])
            /\ written' = [c \in Indices |-> IF c \in cs THEN OpenAI!Extended(written[c], event[c]) ELSE written[c]]
            /\ buffers' = [c \in Indices |-> IF c \in cs /\ OpenAI!Buffered(c, event[c])
                                             THEN Held(buffers[c] \o event[c].content) ELSE buffers[c]]
            /\ accumulators' = [c \in Indices |-> IF c \in cs THEN accumulators[c] \o OpenAI!Text(event[c].arguments)
                                                  ELSE accumulators[c]]
            /\ seen' = IF OpenAI!Kept(event)
                       THEN [c \in Indices |-> IF c \in cs THEN OpenAI!Extended(seen[c], OpenAI!Rewritten(c, event[c]))
                                               ELSE seen[c]]
                       ELSE seen
  BY <1>1
<1>3. stream = "open" /\ UNCHANGED <<flushOnClose, habits, done, stream>>
  BY DEF OpenAI!Event
<1> DEFINE kept == OpenAI!Kept(event)
<1>4. kept \in BOOLEAN
  BY DEF OpenAI!Kept
<1>5. ASSUME NEW c \in cs, ~kept
      PROVE  OpenAI!Buffered(c, event[c]) /\ Safe(buffers[c] \o event[c].content) = <<>>
  <2>1. DOMAIN event = cs
    BY <1>2
  <2> QED BY <2>1, <1>5, SameOpenAIText DEF OpenAI!Kept
<1> HIDE DEF kept
<1>6. OpenAITypes /\ \A c \in Indices : ChoiceInv(c)
  BY DEF OpenAIInv
<1>7. /\ DOMAIN written' = Indices /\ DOMAIN buffers' = Indices /\ DOMAIN accumulators' = Indices /\ DOMAIN seen' = Indices
      /\ written' = [c \in Indices |-> written'[c]] /\ buffers' = [c \in Indices |-> buffers'[c]]
      /\ accumulators' = [c \in Indices |-> accumulators'[c]] /\ seen' = [c \in Indices |-> seen'[c]]
  BY <1>2, <1>6 DEF OpenAITypes, kept
<1>8. ASSUME NEW c \in Indices
      PROVE  /\ ChoiceInv(c)'
             /\ written'[c] \in ChoicesOf(Pieces) /\ seen'[c] \in ChoicesOf(Shown)
             /\ accumulators'[c] \in Seq(Pieces) /\ buffers'[c] \in {<<>>, <<"head">>}
  <2>1. CASE c \in cs
    <3>1. event[c] \in OpenAI!Deltas /\ OpenAI!Possible(written[c], event[c])
      BY <1>2, <2>1
    <3>2. /\ written'[c] = OpenAI!Extended(written[c], event[c])
          /\ buffers'[c] = IF OpenAI!Buffered(c, event[c]) THEN Held(buffers[c] \o event[c].content) ELSE buffers[c]
          /\ accumulators'[c] = accumulators[c] \o OpenAI!Text(event[c].arguments)
      BY <1>2, <2>1
    <3>3. seen'[c] = IF kept THEN OpenAI!Extended(seen[c], OpenAI!Rewritten(c, event[c])) ELSE seen[c]
      BY <1>2, <2>1 DEF kept
    <3>4. ~kept => OpenAI!Buffered(c, event[c]) /\ Safe(buffers[c] \o event[c].content) = <<>>
      BY <1>5, <2>1
    <3> QED BY <3>1, <3>2, <3>3, <3>4, <1>3, <1>4, ChoiceGoesOn
  <2>2. CASE c \notin cs
    <3>1. written'[c] = written[c] /\ buffers'[c] = buffers[c] /\ accumulators'[c] = accumulators[c] /\ seen'[c] = seen[c]
      BY <1>2, <2>2
    <3> QED BY <3>1, <1>3, <1>6 DEF OpenAITypes, ChoiceInv
  <2> QED BY <2>1, <2>2
<1>9. OpenAITypes'
  BY <1>3, <1>6, <1>7, <1>8 DEF OpenAITypes
<1> QED BY <1>8, <1>9 DEF OpenAIInv

\* Every step of the transformer keeps the invariant.
LEMMA OpenAIStep == OpenAIInv /\ OpenAI!Next => OpenAIInv'
<1> SUFFICES ASSUME OpenAIInv, OpenAI!Next PROVE OpenAIInv'
  OBVIOUS
<1>1. OpenAITypes /\ \A c \in Indices : ChoiceInv(c)
  BY DEF OpenAIInv
<1>2. CASE OpenAI!Done \/ OpenAI!Break
  <2>1. /\ stream = "open" /\ stream' \in {"open", "broken"} /\ done' \in BOOLEAN
        /\ UNCHANGED <<flushOnClose, habits, written, buffers, accumulators, seen>>
    BY <1>1, <1>2 DEF OpenAI!Done, OpenAI!Break, OpenAITypes
  <2>2. OpenAITypes'
    BY <1>1, <2>1 DEF OpenAITypes
  <2>3. ASSUME NEW c \in Indices PROVE ChoiceInv(c)'
    BY <1>1, <2>1 DEF ChoiceInv
  <2> QED BY <2>2, <2>3 DEF OpenAIInv
<1>3. CASE OpenAI!End
  <2>1. /\ stream = "open" /\ stream' = "closed"
        /\ seen' = IF flushOnClose
                   THEN [c \in Indices |-> [seen[c] EXCEPT !.content = seen[c].content \o Restored(buffers[c]),
                                                           !.arguments = seen[c].arguments \o Restored(accumulators[c])]]
                   ELSE seen
        /\ buffers' = [c \in Indices |-> <<>>] /\ accumulators' = [c \in Indices |-> <<>>]
        /\ UNCHANGED <<flushOnClose, habits, written, done>>
    BY <1>3, SameOpenAIText DEF OpenAI!End
  <2>2. ASSUME NEW c \in Indices
        PROVE  /\ ChoiceInv(c)' /\ seen'[c] \in ChoicesOf(Shown)
    <3>1. /\ written[c].content \in Seq(Pieces) /\ written[c].arguments \in Seq(Pieces)
          /\ WellFormed(written[c].content)
          /\ seen[c].content \in Seq(Shown) /\ seen[c].arguments \in Seq(Shown) /\ seen[c].finish \in BOOLEAN
          /\ seen[c] = [content |-> seen[c].content, arguments |-> seen[c].arguments, finish |-> seen[c].finish]
          /\ buffers[c] \in Seq(Pieces)
          /\ "mixed" \notin habits => IsPrefix(seen[c].content, Restored(written[c].content))
      BY ChoiceFacts
    <3>2. ChoiceInv(c) /\ accumulators[c] = written[c].arguments /\ seen[c].arguments = <<>>
      BY <1>1, <2>1 DEF ChoiceInv
    <3>3. CASE flushOnClose
      <4>1. /\ seen'[c].content = seen[c].content \o Restored(buffers[c])
            /\ seen'[c].arguments = seen[c].arguments \o Restored(accumulators[c])
            /\ seen'[c].finish = seen[c].finish
            /\ seen'[c] = [content |-> seen'[c].content, arguments |-> seen'[c].arguments, finish |-> seen'[c].finish]
        <5>1. seen'[c] = [seen[c] EXCEPT !.content = seen[c].content \o Restored(buffers[c]),
                                         !.arguments = seen[c].arguments \o Restored(accumulators[c])]
          BY <2>1, <3>3
        <5> QED BY <3>1, <5>1
      <4>2. Restored(written[c].arguments) \in Seq(Shown) /\ Restored(buffers[c]) \in Seq(Shown)
        BY <3>1, RestoredText
      <4>3. seen'[c].arguments = Restored(written[c].arguments)
        BY <3>2, <4>1, <4>2, ConcatEmptySeq
      <4>4. seen'[c].content \in Seq(Shown)
        BY <3>1, <4>1, <4>2, ConcatProperties
      <4>5. "mixed" \notin habits => seen'[c].content = Restored(written[c].content)
        <5>1. Restored(Safe(written[c].content)) \o Restored(Held(written[c].content)) = Restored(written[c].content)
          BY <3>1, ComesOut
        <5>2. "mixed" \notin habits => /\ buffers[c] = Held(written[c].content)
                                       /\ seen[c].content = Restored(Safe(written[c].content))
          BY <2>1, <3>2 DEF ChoiceInv
        <5> QED BY <4>1, <5>1, <5>2
      <4>6. seen'[c] \in ChoicesOf(Shown)
        BY <3>1, <4>1, <4>2, <4>3, <4>4 DEF ChoicesOf
      <4> QED BY <2>1, <3>2, <3>3, <4>1, <4>3, <4>5, <4>6 DEF ChoiceInv
    <3>4. CASE ~flushOnClose
      <4>1. seen'[c] = seen[c]
        BY <2>1, <3>4
      <4> QED BY <4>1, <1>1, <2>1, <3>1, <3>2, <3>4 DEF ChoiceInv, OpenAITypes
    <3> QED BY <3>3, <3>4
  <2>3. seen' \in [Indices -> ChoicesOf(Shown)]
    <3>1. seen' = [c \in Indices |-> seen'[c]]
      BY <1>1, <2>1 DEF OpenAITypes
    <3> QED BY <2>2, <3>1
  <2>4. OpenAITypes'
    BY <1>1, <2>1, <2>3, EmptyText DEF OpenAITypes
  <2> QED BY <2>2, <2>4 DEF OpenAIInv
<1> QED BY <1>2, <1>3, OpenAIEvent DEF OpenAI!Next

-----------------------------------------------------------------------------
(* Whichever transformer the request has                                   *)

\* The invariant of the transformer in use.
TransformerInv ==
    /\ provider \in {"anthropic", "openai", "codex"}
    /\ provider = "anthropic" => AnthropicInv
    /\ provider = "openai" => OpenAIInv
    /\ provider = "codex" => CodexInv

\* It holds for all three.
LEMMA TransformersStay == StreamSpec => []TransformerInv
<1>1. StreamInit => TransformerInv
  BY AnthropicBegins, OpenAIBegins, CodexBegins DEF StreamInit, TransformerInv
<1>2. TransformerInv /\ [StreamNext]_streamVars => TransformerInv'
  <2> SUFFICES ASSUME TransformerInv, [StreamNext]_streamVars PROVE TransformerInv'
    OBVIOUS
  <2>1. CASE StreamNext
    <3>1. provider' = provider
      BY <2>1 DEF StreamNext
    <3>2. CASE provider = "anthropic" /\ Anthropic!Next
      BY <3>1, <3>2, AnthropicStep DEF TransformerInv
    <3>3. CASE provider = "openai" /\ OpenAI!Next
      BY <3>1, <3>3, OpenAIStep DEF TransformerInv
    <3>4. CASE provider = "codex" /\ Codex!Next
      BY <3>1, <3>4, CodexStep DEF TransformerInv
    <3> QED BY <2>1, <3>2, <3>3, <3>4 DEF StreamNext
  <2>2. CASE UNCHANGED streamVars
    <3>1. UNCHANGED <<provider, flushOnClose, stream, buffers, accumulators, written, seen, caching, kind, signed,
                      stopped, raw, signatures, cache, habits, done, calls, finished>>
      BY <2>2 DEF streamVars, ofAll, ofAnthropic, ofOpenAI, ofCodex
    <3>2. AnthropicInv => AnthropicInv'
      BY <3>1 DEF AnthropicInv, AnthropicTypes, BlockInv, GoingOn, Emptied, Full, IsBuffered, Anthropic!CachedIsSigned
    <3>3. OpenAIInv => OpenAIInv'
      BY <3>1 DEF OpenAIInv, OpenAITypes, ChoiceInv
    <3>4. CodexInv => CodexInv'
      BY <3>1 DEF CodexInv, CodexTypes, ItemInv
    <3> QED BY <3>1, <3>2, <3>3, <3>4 DEF TransformerInv
  <2> QED BY <2>1, <2>2
<1> QED BY <1>1, <1>2, PTL DEF StreamSpec

\* Whatever the provider, and however its deltas split the tokens: at every moment the client has
\* a beginning of the restored answer, at the end of a part all of it, at the end of the body all
\* that there is; and the cache has the thinking as it was signed (selectStreamTransformer).
THEOREM AnswersAreWhole == StreamSpec => []AnswerIsWhole
<1>1. TransformerInv => AnswerIsWhole
  <2> SUFFICES ASSUME TransformerInv PROVE AnswerIsWhole
    OBVIOUS
  <2>1. CASE provider = "anthropic"
    BY <2>1, AnthropicPromises DEF TransformerInv, AnswerIsWhole, ShownIsPrefix, EndedIsWhole, ClosedIsWhole, StreamTypeOK
  <2>2. CASE provider = "openai"
    BY <2>2, OpenAIPromises DEF TransformerInv, AnswerIsWhole, ShownIsPrefix, EndedIsWhole, ClosedIsWhole, StreamTypeOK
  <2>3. CASE provider = "codex"
    BY <2>3, CodexPromises DEF TransformerInv, AnswerIsWhole, ShownIsPrefix, EndedIsWhole, ClosedIsWhole, StreamTypeOK
  <2> QED BY <2>1, <2>2, <2>3 DEF TransformerInv
<1> QED BY <1>1, TransformersStay, PTL
=============================================================================
