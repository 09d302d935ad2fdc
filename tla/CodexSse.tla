------------------------------ MODULE CodexSse -----------------------------
(***************************************************************************)
(* A streamed answer of the Responses API on its way through the proxy     *)
(* (packages/proxy/src/stream/codex-sse.ts).  An output item is a message  *)
(* or a function call; its deltas are followed by a done event that        *)
(* repeats the whole text or arguments.                                    *)
(***************************************************************************)
EXTENDS SseText

CONSTANTS
    Outputs,    \* indices of output items
    MaxPieces,  \* bound: pieces of an item
    Chunks      \* what a delta may carry

VARIABLES
    flushOnClose,
    calls,      \* the items that are function calls
    sent,       \* what the upstream has sent of each item
    done,       \* the items whose done event has been passed on
    buffers,    \* textBuffers
    funcArgs,   \* funcArgAccumulators
    shown,      \* what the client has got in deltas
    stream      \* "open", "closed" or "broken"

vars == <<flushOnClose, calls, sent, done, buffers, funcArgs, shown, stream>>

-----------------------------------------------------------------------------
Init ==
    /\ flushOnClose \in BOOLEAN
    /\ calls \in SUBSET Outputs
    /\ sent = [i \in Outputs |-> <<>>]
    /\ done = {}
    /\ buffers = [i \in Outputs |-> <<>>]
    /\ funcArgs = [i \in Outputs |-> <<>>]
    /\ shown = [i \in Outputs |-> <<>>]
    /\ stream = "open"

Sends(i, chunk) ==
    /\ stream = "open" /\ i \notin done
    /\ WellFormed(sent[i] \o chunk) /\ Len(sent[i] \o chunk) <= MaxPieces
    /\ sent' = [sent EXCEPT ![i] = @ \o chunk]
    /\ UNCHANGED <<flushOnClose, calls, done, stream>>

\* Mutant of TextDelta: one buffer for all items.
TextDeltaShared(i) ==
    /\ i \notin calls
    /\ \E chunk \in Chunks :
        LET text == FlattenSeq(SetToSeq({buffers[j] : j \in Outputs})) \o chunk
        IN  /\ Sends(i, chunk)
            /\ buffers' = [j \in Outputs |-> IF j = i THEN Held(text) ELSE <<>>]
            /\ shown' = [shown EXCEPT ![i] = @ \o Restored(Safe(text))]
    /\ UNCHANGED funcArgs

\* response.output_text.delta
TextDelta(i) ==
    /\ i \notin calls
    /\ \E chunk \in Chunks :
        LET text == buffers[i] \o chunk
        IN  /\ Sends(i, chunk)
            /\ buffers' = [buffers EXCEPT ![i] = Held(text)]
            /\ shown' = [shown EXCEPT ![i] = @ \o Restored(Safe(text))]
    /\ UNCHANGED funcArgs

\* Mutant of ArgumentsDelta: the accumulator is overwritten.
ArgumentsDeltaOverwrites(i) ==
    /\ i \in calls
    /\ \E chunk \in Chunks :
        /\ Sends(i, chunk)
        /\ funcArgs' = [funcArgs EXCEPT ![i] = chunk]
    /\ UNCHANGED <<buffers, shown>>

\* response.function_call_arguments.delta: withheld until the done event
ArgumentsDelta(i) ==
    /\ i \in calls
    /\ \E chunk \in Chunks :
        /\ Sends(i, chunk)
        /\ funcArgs' = [funcArgs EXCEPT ![i] = @ \o chunk]
    /\ UNCHANGED <<buffers, shown>>

\* response.output_text.done: passed on as it is, the whole text it repeats included
\* (which shows its tokens).  The buffer is left alone.
TextDone(i) ==
    /\ stream = "open" /\ i \notin calls \cup done
    /\ done' = done \cup {i}
    /\ UNCHANGED <<flushOnClose, calls, sent, buffers, funcArgs, shown, stream>>

\* response.function_call_arguments.done: the restored arguments go into its field
\* `delta`; all other fields are left as they came.
ArgumentsDone(i) ==
    /\ stream = "open" /\ i \in calls \ done
    /\ done' = done \cup {i}
    /\ shown' = [shown EXCEPT ![i] = @ \o Restored(funcArgs[i])]
    /\ funcArgs' = [funcArgs EXCEPT ![i] = <<>>]
    /\ UNCHANGED <<flushOnClose, calls, sent, buffers, stream>>

\* The body ends: what is held comes out, and arguments without a done event.
End ==
    /\ stream = "open"
    /\ stream' = "closed"
    /\ shown' = IF flushOnClose
                THEN [i \in Outputs |-> shown[i] \o Restored(buffers[i]) \o Restored(funcArgs[i])]
                ELSE shown
    /\ buffers' = [i \in Outputs |-> <<>>]
    /\ funcArgs' = [i \in Outputs |-> <<>>]
    /\ UNCHANGED <<flushOnClose, calls, sent, done>>

\* The client goes away, or the upstream connection breaks: no flush.
Break ==
    /\ stream = "open"
    /\ stream' = "broken"
    /\ UNCHANGED <<flushOnClose, calls, sent, done, buffers, funcArgs, shown>>

Next ==
    \/ \E i \in Outputs :
        TextDelta(i) \/ ArgumentsDelta(i) \/ TextDone(i) \/ ArgumentsDone(i)
    \/ End
    \/ Break

Spec == Init /\ [][Next]_vars

-----------------------------------------------------------------------------
TypeOK ==
    /\ \A i \in Outputs :
        /\ Range(sent[i]) \cup Range(funcArgs[i]) \subseteq Pieces
        /\ buffers[i] \in {<<>>, <<"head">>}
        /\ Range(shown[i]) \subseteq Shown
    /\ calls \subseteq Outputs /\ done \subseteq Outputs
    /\ stream \in {"open", "closed", "broken"}

\* However the deltas split the tokens and interleave the items, what the client gathers
\* from the deltas of an item is a beginning of its restored text.
ShownIsPrefix == \A i \in Outputs : IsPrefix(shown[i], Restored(sent[i]))

\* The restored arguments of a function call come with its done event, once.
CallsAreWhole == \A i \in calls \cap done : shown[i] = Restored(sent[i])

\* At the end of the stream the client has all of every item.
ClosedIsWhole ==
    stream = "closed" /\ flushOnClose => \A i \in Outputs : shown[i] = Restored(sent[i])
=============================================================================
