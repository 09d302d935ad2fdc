---------------------------- MODULE ProxyServer ----------------------------
(***************************************************************************)
(* The HTTP proxy between its clients and the LLM: the pool of sessions,   *)
(* the life of a request and stop() (packages/proxy/src/session.ts,        *)
(* server.ts, and the mask and restore of pii-remover.ts they call).       *)
(*                                                                         *)
(* A handler is suspended at each await: for its session, for its body,    *)
(* for the detection of each of its texts, for the upstream.  All removers *)
(* use the same token key, so a value stands for its token too, in every   *)
(* session.  A text is the set of PII values in it.  Routes that touch no  *)
(* session (health, passthrough, unknown paths) are left out.              *)
(***************************************************************************)
EXTENDS Naturals, Sequences

CONSTANTS
    Requests,    \* requests that can be in progress at the same time
    Sessions,    \* values of X-PII-Session, "proxy:default" always among them
    Values,      \* PII
    Bodies,      \* [session -> texts to mask in its requests: sequences of sets of values]
    MaxRemovers  \* bound: sessions created in a behaviour

ASSUME ProxyAssumption ==
    /\ MaxRemovers \in Nat
    /\ Sessions # {}
    /\ Bodies \in [Sessions -> SUBSET Seq(SUBSET Values)]

VARIABLES
    entry,     \* ProxySessionPool.sessions: [session -> its remover], 0 for none
    made,      \* removers created
    promise,   \* [remover -> "pending", "ready" or "failed"]
    vault,     \* [remover -> values its vault knows]
    disposed,  \* removers whose dispose() was called
    req,       \* the handlers
    answer,    \* [request -> what its client has got]
    stop,      \* proxy.stop(): "no", "waiting", "done" or "failed"
    awaited,   \* the removers whose promises it awaits
    said,      \* history: [session -> values its clients have sent]
    sent,      \* history: [session -> values whose tokens went upstream]
    shown      \* history: [session -> values its clients have got in clear]

serverVars == <<entry, made, promise>>
historyVars == <<said, sent, shown>>
stopVars == <<stop, awaited>>
proxyVars == <<serverVars, vault, disposed, req, answer, stopVars, historyVars>>

Removers == 1 .. MaxRemovers
NoAnswer == [status |-> "none", left |-> {}]
Idle == [pc |-> "idle", session |-> CHOOSE s \in Sessions : TRUE, remover |-> 0,
         body |-> <<>>, tokens |-> {}]

ServerInit ==
    /\ entry = [s \in Sessions |-> 0]
    /\ made = 0
    /\ promise = [m \in Removers |-> "pending"]
    /\ vault = [m \in Removers |-> {}]
    /\ disposed = {}
    /\ req = [r \in Requests |-> Idle]
    /\ answer = [r \in Requests |-> NoAnswer]
    /\ stop = "no" /\ awaited = {}
    /\ said = [s \in Sessions |-> {}]
    /\ sent = [s \in Sessions |-> {}]
    /\ shown = [s \in Sessions |-> {}]

-----------------------------------------------------------------------------
(* Sessions                                                                *)

\* Mutant of Existing: the Map is read by the wrong key.
ExistingOfAny(s) == {entry[t] : t \in Sessions} \ {0}

\* Mutant of Existing: a session counts from when its remover is ready.
ExistingReady(s) == {entry[s]} \cap {m \in 1 .. made : promise[m] = "ready"}

\* The promise the pool holds for a session, whatever has become of it.
Existing(s) == {entry[s]} \ {0}

\* A request comes in: the pool finds its session or makes one, and the handler awaits it.
Arrive(r, s, body) ==
    /\ stop = "no" /\ req[r].pc = "idle"
    /\ \E m \in IF Existing(s) # {} THEN Existing(s) ELSE {made + 1} :
        /\ m \in Removers
        /\ made' = IF m > made THEN m ELSE made
        /\ entry' = [entry EXCEPT ![s] = m]
        /\ req' = [req EXCEPT ![r] = [pc |-> "session", session |-> s, remover |-> m,
                                      body |-> body, tokens |-> {}]]
    /\ said' = [said EXCEPT ![s] = @ \cup UNION {body[i] : i \in DOMAIN body}]
    /\ answer' = [answer EXCEPT ![r] = NoAnswer]
    /\ UNCHANGED <<promise, vault, disposed, stopVars, sent, shown>>

\* PIIRemover.init ends: the configuration and the backends were good, or were not.
InitEnds(m) ==
    /\ m <= made /\ promise[m] = "pending"
    /\ \E result \in {"ready", "failed"} : promise' = [promise EXCEPT ![m] = result]
    /\ UNCHANGED <<entry, made, vault, disposed, req, answer, stopVars, historyVars>>

-----------------------------------------------------------------------------
(* The handler                                                             *)

Goto(r, pc) == req' = [req EXCEPT ![r].pc = pc]

\* The handler is over; the client has the status, and the tokens left in the text.
Reply(r, status, left) ==
    /\ req' = [req EXCEPT ![r] = Idle]
    /\ answer' = [answer EXCEPT ![r] = [status |-> status, left |-> left]]

\* Mutant of Resume: waits for a session that works.
ResumeReady(r) ==
    /\ req[r].pc = "session"
    /\ promise[req[r].remover] = "ready" /\ Goto(r, "body") /\ UNCHANGED answer
    /\ UNCHANGED <<serverVars, vault, disposed, stopVars, historyVars>>

\* The session is there, or init has thrown and so does the handler.
Resume(r) ==
    /\ req[r].pc = "session"
    /\ \/ promise[req[r].remover] = "ready" /\ Goto(r, "body") /\ UNCHANGED answer
       \/ promise[req[r].remover] = "failed" /\ Reply(r, "error", {})
    /\ UNCHANGED <<serverVars, vault, disposed, stopVars, historyVars>>

\* The body is there; it need not be JSON.
Body(r) ==
    /\ req[r].pc = "body"
    /\ \/ Goto(r, "mask") /\ UNCHANGED answer
       \/ Reply(r, "bad request", {})
    /\ UNCHANGED <<serverVars, vault, disposed, stopVars, historyVars>>

\* mask() of the next text, up to the await of the detector.
MaskStarts(r) ==
    /\ req[r].pc = "mask" /\ req[r].body # <<>>
    /\ IF req[r].remover \in disposed
       THEN Reply(r, "error", {})
       ELSE Goto(r, "detect") /\ UNCHANGED answer
    /\ UNCHANGED <<serverVars, vault, disposed, stopVars, historyVars>>

\* The rest of mask(): the values go into the vault, which is made anew if it is gone, or
\* the detection has failed closed.
MaskEnds(r) ==
    /\ req[r].pc = "detect"
    /\ \/ LET found == Head(req[r].body) IN
          /\ vault' = [vault EXCEPT ![req[r].remover] = @ \cup found]
          /\ req' = [req EXCEPT ![r].pc = "mask", ![r].body = Tail(@),
                                ![r].tokens = @ \cup found]
          /\ UNCHANGED answer
       \/ Reply(r, "error", {}) /\ UNCHANGED vault
    /\ UNCHANGED <<serverVars, disposed, stopVars, historyVars>>

\* Everything is masked: the request goes upstream.
Send(r) ==
    /\ req[r].pc = "mask" /\ req[r].body = <<>>
    /\ Goto(r, "upstream")
    /\ sent' = [sent EXCEPT ![req[r].session] = @ \cup req[r].tokens]
    /\ UNCHANGED <<serverVars, vault, disposed, answer, stopVars, said, shown>>

\* What the model may say: it has seen the tokens of everybody.
Tokens == SUBSET UNION {sent[s] : s \in Sessions}

\* Mutant of Usable: restore() of a disposed remover finds an empty vault.
UsableAlways(m) == TRUE

\* restore() throws when the remover is disposed.
Usable(m) == m \notin disposed

Show(r, tokens) ==
    shown' = [shown EXCEPT ![req[r].session] = @ \cup (tokens \cap vault[req[r].remover])]

\* The upstream has answered: an error status is relayed as it is, a stream begins, or the
\* JSON body is restored; or the call has thrown.
Answered(r) ==
    /\ req[r].pc = "upstream"
    /\ \/ Reply(r, "error", {}) /\ UNCHANGED shown
       \/ Reply(r, "relayed", {}) /\ UNCHANGED shown
       \/ Goto(r, "stream") /\ UNCHANGED <<answer, shown>>
       \/ ~Usable(req[r].remover) /\ Reply(r, "error", {}) /\ UNCHANGED shown
       \/ /\ Usable(req[r].remover)
          /\ \E tokens \in Tokens :
               Reply(r, "ok", tokens \ vault[req[r].remover]) /\ Show(r, tokens)
    /\ UNCHANGED <<serverVars, vault, disposed, stopVars, said, sent>>

\* A chunk of the stream is restored and goes on to the client, the last one perhaps; a
\* restore that throws breaks the stream off.
Chunk(r) ==
    /\ req[r].pc = "stream"
    /\ \/ ~Usable(req[r].remover) /\ Reply(r, "broken", {}) /\ UNCHANGED shown
       \/ /\ Usable(req[r].remover)
          /\ \E tokens \in Tokens :
               /\ Show(r, tokens)
               /\ LET left == answer[r].left \cup (tokens \ vault[req[r].remover]) IN
                  \/ Reply(r, "ok", left)
                  \/ UNCHANGED req /\ answer' = [answer EXCEPT ![r].left = left]
    /\ UNCHANGED <<serverVars, vault, disposed, stopVars, said, sent>>

\* The stream ends with a chunk without a token.
StreamEnds(r) ==
    /\ req[r].pc = "stream"
    /\ Reply(r, "ok", answer[r].left)
    /\ UNCHANGED <<serverVars, vault, disposed, stopVars, historyVars>>

-----------------------------------------------------------------------------
(* stop(): the requests that are in progress go on.                        *)

\* The server listens no more, and disposeAll awaits the promises of the pool.
Stop ==
    /\ stop = "no"
    /\ stop' = "waiting"
    /\ awaited' = {entry[s] : s \in Sessions} \ {0}
    /\ UNCHANGED <<serverVars, vault, disposed, req, answer, historyVars>>

\* Every session is there: their removers are disposed, and the pool is cleared.
Drain ==
    /\ stop = "waiting" /\ \A m \in awaited : promise[m] = "ready"
    /\ stop' = "done"
    /\ disposed' = disposed \cup awaited
    /\ vault' = [m \in Removers |-> IF m \in awaited THEN {} ELSE vault[m]]
    /\ entry' = [s \in Sessions |-> 0]
    /\ UNCHANGED <<made, promise, req, answer, awaited, historyVars>>

\* One of them failed, and Promise.all rejects.
StopFails ==
    /\ stop = "waiting" /\ \E m \in awaited : promise[m] = "failed"
    /\ stop' = "failed"
    /\ UNCHANGED <<serverVars, vault, disposed, req, answer, awaited, historyVars>>

Handle(r) ==
    \/ Resume(r) \/ Body(r) \/ MaskStarts(r) \/ MaskEnds(r) \/ Send(r)
    \/ Answered(r) \/ Chunk(r) \/ StreamEnds(r)

ServerNext ==
    \/ \E r \in Requests :
         \/ \E s \in Sessions : \E body \in Bodies[s] : Arrive(r, s, body)
         \/ Handle(r)
    \/ \E m \in Removers : InitEnds(m)
    \/ Stop \/ Drain \/ StopFails

ServerSpec == ServerInit /\ [][ServerNext]_proxyVars

\* What a handler goes on with by itself: the event loop runs every continuation.
OwnStep(r) == Resume(r) \/ MaskStarts(r) \/ Send(r)

\* init reads a file.  Nothing is assumed of the client, of a detection, whose timer stops at
\* the headers of the answer, or of the upstream, which has none.
ServerFairness ==
    /\ \A r \in Requests : WF_proxyVars(OwnStep(r))
    /\ \A m \in Removers : WF_proxyVars(InitEnds(m))
    /\ WF_proxyVars(Drain \/ StopFails)

FairServerSpec == ServerSpec /\ ServerFairness

-----------------------------------------------------------------------------
PCs == {"idle", "session", "body", "mask", "detect", "upstream", "stream"}
Handlers == [pc : PCs, session : Sessions, remover : 0 .. made,
             body : Seq(SUBSET Values), tokens : SUBSET Values]
Statuses == {"none", "ok", "error", "bad request", "relayed", "broken"}
Answers == [status : Statuses, left : SUBSET Values]

ServerTypeOK ==
    /\ entry \in [Sessions -> 0 .. made] /\ made \in 0 .. MaxRemovers
    /\ promise \in [Removers -> {"pending", "ready", "failed"}]
    /\ vault \in [Removers -> SUBSET Values] /\ disposed \subseteq 1 .. made
    /\ req \in [Requests -> Handlers] /\ answer \in [Requests -> Answers]
    /\ stop \in {"no", "waiting", "done", "failed"} /\ awaited \subseteq 1 .. made
    /\ said \in [Sessions -> SUBSET Values] /\ sent \in [Sessions -> SUBSET Values]
    /\ shown \in [Sessions -> SUBSET Values]

InProgress(r) == req[r].pc # "idle"

\* session.ts:38: however requests interleave, those of a session share one remover, and
\* those of different sessions share none.
OneRemoverPerSession ==
    \A r, q \in {x \in Requests : InProgress(x)} :
        req[r].session = req[q].session <=> req[r].remover = req[q].remover

\* session.ts:22: whatever the model says, a client gets in clear only what clients of its
\* own session have sent.
OnlyOwnValues == \A s \in Sessions : shown[s] \subseteq said[s]

ServerInv == ServerTypeOK /\ OneRemoverPerSession /\ OnlyOwnValues

\* A client gets a good answer only when every token its session had sent is restored in
\* it, even when stop() disposes of the session half-way.
AnswerIsComplete ==
    [][\A r \in Requests :
         answer'[r] # answer[r] /\ answer'[r].status \in {"none", "ok"} /\ InProgress(r)
         => answer'[r].left \cap sent[req[r].session] \subseteq answer[r].left]_proxyVars

\* Where a handler waits for the client's body, a detection, or the upstream.
Awaits == {"body", "detect", "upstream", "stream"}

\* Whatever fails, and whether the proxy is stopped meanwhile, a request is answered unless
\* one that it waits for is silent for ever: neither its session, nor the other requests,
\* nor stop() keep it.  And stop() comes to an end, whatever the requests wait for.
RequestIsAnswered ==
    /\ \A r \in Requests :
         (\A pc \in Awaits : []<>(req[r].pc # pc)) => (InProgress(r) ~> ~InProgress(r))
    /\ stop = "waiting" ~> stop \in {"done", "failed"}
=============================================================================
