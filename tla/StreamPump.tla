----------------------------- MODULE StreamPump ----------------------------
(***************************************************************************)
(* How a streamed answer is pumped from the upstream to the client         *)
(* (streamingResponse in packages/proxy/src/server.ts): a loop of reads,   *)
(* and an abort of the client between any two turns of the event loop,     *)
(* also between a read's result and the code that awaits it.               *)
(***************************************************************************)
EXTENDS Naturals

CONSTANT MaxChunks  \* bound: chunks the upstream sends

ASSUME PumpAssumption == MaxChunks \in Nat

VARIABLES
    upstream,   \* "sending", "ended", "broken" or "cancelled"
    arrived,    \* chunks the upstream has sent
    read,       \* chunks that reads have returned
    result,     \* of the pending read: "none", "chunk", "done" or "error"
    pump,       \* "reading", "closed" or "errored"
    aborted,
    listening,  \* whether onAbort listens to the client's signal
    enqueued,   \* chunks handed to the client, restored
    flushed     \* whether the transformer's flush has been handed to it

pumpVars == <<upstream, arrived, read, result, pump, aborted, listening, enqueued, flushed>>

-----------------------------------------------------------------------------
\* The client's signal may be aborted before the stream starts; the body is cancelled
\* then, and the pump reads its end.
PumpInit ==
    /\ aborted \in BOOLEAN
    /\ upstream = IF aborted THEN "cancelled" ELSE "sending"
    /\ arrived = 0 /\ read = 0
    /\ result = "none"
    /\ pump = "reading"
    /\ listening = ~aborted
    /\ enqueued = 0
    /\ flushed = FALSE

Sends ==
    /\ upstream = "sending" /\ arrived < MaxChunks
    /\ arrived' = arrived + 1
    /\ UNCHANGED <<upstream, read, result, pump, aborted, listening, enqueued, flushed>>

\* The body ends, or the connection breaks.
Finish ==
    /\ upstream = "sending"
    /\ upstream' \in {"ended", "broken"}
    /\ UNCHANGED <<arrived, read, result, pump, aborted, listening, enqueued, flushed>>

\* The pending read is resolved; a cancelled body is at its end, what it still had is
\* discarded.
Resolve ==
    /\ pump = "reading" /\ result = "none"
    /\ \/ /\ upstream \in {"sending", "ended"} /\ read < arrived
          /\ result' = "chunk" /\ read' = read + 1
       \/ /\ upstream = "cancelled" \/ (upstream = "ended" /\ read = arrived)
          /\ result' = "done" /\ UNCHANGED read
       \/ /\ upstream = "broken"
          /\ result' = "error" /\ UNCHANGED read
    /\ UNCHANGED <<upstream, arrived, pump, aborted, listening, enqueued, flushed>>

\* Mutant of Continue: abort is not looked at after the await.
ContinueUnaware ==
    /\ result # "none"
    /\ IF result = "chunk"
       THEN enqueued' = enqueued + 1 /\ UNCHANGED <<pump, listening, flushed>>
       ELSE /\ pump' = IF result = "error" THEN "errored" ELSE "closed"
            /\ flushed' = (result = "done" /\ ~aborted)
            /\ listening' = FALSE
            /\ UNCHANGED enqueued
    /\ result' = "none"
    /\ UNCHANGED <<upstream, arrived, read, aborted>>

\* Mutant of Continue: the loop's end is not followed by a flush.
ContinueUnflushed ==
    /\ result # "none"
    /\ IF result = "chunk" /\ ~aborted
       THEN enqueued' = enqueued + 1 /\ UNCHANGED <<pump, listening, flushed>>
       ELSE /\ pump' = IF result = "error" THEN "errored" ELSE "closed"
            /\ listening' = FALSE
            /\ UNCHANGED <<enqueued, flushed>>
    /\ result' = "none"
    /\ UNCHANGED <<upstream, arrived, read, aborted>>

\* Mutant of Continue: an error of a read is ignored, and the loop reads again.
ContinueOnError ==
    /\ result # "none"
    /\ IF result = "chunk" /\ ~aborted
       THEN enqueued' = enqueued + 1 /\ UNCHANGED <<pump, listening, flushed>>
       ELSE /\ pump' = IF result = "error" THEN "reading" ELSE "closed"
            /\ flushed' = (result = "done" /\ ~aborted)
            /\ listening' = (result = "error" /\ listening)
            /\ UNCHANGED enqueued
    /\ result' = "none"
    /\ UNCHANGED <<upstream, arrived, read, aborted>>

\* The loop goes on after its await: a chunk is transformed and enqueued unless the
\* client is gone; otherwise the loop ends, with a flush if it is not.
Continue ==
    /\ result # "none"
    /\ IF result = "chunk" /\ ~aborted
       THEN enqueued' = enqueued + 1 /\ UNCHANGED <<pump, listening, flushed>>
       ELSE /\ pump' = IF result = "error" THEN "errored" ELSE "closed"
            /\ flushed' = (result = "done" /\ ~aborted)
            /\ listening' = FALSE
            /\ UNCHANGED enqueued
    /\ result' = "none"
    /\ UNCHANGED <<upstream, arrived, read, aborted>>

\* Mutant of Cancelled: the body is cancelled, which the reader has locked.
CancelledWhileLocked == upstream

\* reader.cancel: the pending read ends.
Cancelled == IF upstream = "sending" THEN "cancelled" ELSE upstream

\* The client's signal is aborted, or the client cancels the stream.
Abort ==
    /\ pump = "reading"
    /\ ~aborted
    /\ aborted' = TRUE
    /\ upstream' = Cancelled
    /\ listening' \in {listening, FALSE}
    /\ UNCHANGED <<arrived, read, result, pump, enqueued, flushed>>

PumpNext == Sends \/ Finish \/ Resolve \/ Continue \/ Abort

\* A pending read is resolved when there is something to resolve it with, and the event
\* loop runs what waits for it.  The upstream and the client owe nothing.
PumpFairness == WF_pumpVars(Resolve) /\ WF_pumpVars(Continue)

PumpSpec == PumpInit /\ [][PumpNext]_pumpVars /\ PumpFairness

-----------------------------------------------------------------------------
PumpTypeOK ==
    /\ upstream \in {"sending", "ended", "broken", "cancelled"}
    /\ arrived \in 0 .. MaxChunks /\ read \in 0 .. arrived /\ enqueued \in 0 .. read
    /\ result \in {"none", "chunk", "done", "error"}
    /\ pump \in {"reading", "closed", "errored"}
    /\ aborted \in BOOLEAN /\ listening \in BOOLEAN /\ flushed \in BOOLEAN

\* A client that has gone is sent nothing, although a chunk may be on its way.
NothingAfterAbort == [][aborted => enqueued' = enqueued /\ ~flushed']_pumpVars

\* A stream that was closed for a client that stayed has brought everything, the tail
\* of the transformer included.
ClosedIsComplete == pump = "closed" /\ ~aborted => enqueued = arrived /\ flushed

\* docs/ARCHITECTURE.md:641: when the client goes, so does the upstream request.
AbortStopsUpstream == aborted ~> upstream # "sending"

\* The client is told when it is over.
EndIsTold == upstream # "sending" ~> pump # "reading"
=============================================================================
