---------------------------- MODULE AnthropicSse ---------------------------
(***************************************************************************)
(* A streamed answer of the Anthropic API on its way through the proxy     *)
(* (packages/proxy/src/stream/anthropic-sse.ts, anthropic-thinking.ts, and *)
(* streamingResponse of server.ts).  The upstream sends content blocks of  *)
(* text, tool input or thinking, in deltas that may split a token; the     *)
(* client is to see them restored, and the cache is to get the thinking as *)
(* it was signed.                                                          *)
(***************************************************************************)
EXTENDS SseText

CONSTANTS
    Blocks,        \* indices of content blocks
    MaxPieces      \* bound: pieces in a block

Kinds == {"text", "tool", "thinking"}

\* A signature comes in this many deltas, and is a key only when it is whole.
SignatureParts == 2

\* What one delta carries.
Chunks == {<<"plain">>, <<"head">>, <<"rest">>, <<"plain", "head">>, <<"rest", "plain">>}

VARIABLES
    flushOnClose, \* proxy.streaming.flush_on_close
    caching,     \* whether there is a thinking cache
    kind,        \* of each block
    sent,        \* what the upstream has sent of each block
    signed,      \* how many signature parts it has sent
    stopped,     \* the blocks it has stopped
    buffers,     \* held text, of text and thinking blocks
    toolInput,   \* toolInputAccumulators
    raw,         \* thinking as it came
    signatures,  \* parts of the signature collected
    cache,       \* what thinkingCache.set was called with
    shown,       \* what the client has got of each block
    stream       \* "open", "closed" or "broken"

setup == <<flushOnClose, caching, kind>>
upstream == <<setup, sent, signed, stopped>>
vars == <<upstream, buffers, toolInput, raw, signatures, cache, shown, stream>>

-----------------------------------------------------------------------------
Init ==
    /\ flushOnClose \in BOOLEAN /\ caching \in BOOLEAN
    /\ kind \in [Blocks -> Kinds]
    /\ sent = [b \in Blocks |-> <<>>]
    /\ signed = [b \in Blocks |-> 0]
    /\ stopped = {}
    /\ buffers = [b \in Blocks |-> <<>>]
    /\ toolInput = [b \in Blocks |-> <<>>]
    /\ raw = [b \in Blocks |-> <<>>]
    /\ signatures = [b \in Blocks |-> 0]
    /\ cache = {}
    /\ shown = [b \in Blocks |-> <<>>]
    /\ stream = "open"

\* The upstream sends another delta of a block.
Sends(b, chunk) ==
    /\ stream = "open"
    /\ b \notin stopped /\ signed[b] = 0
    /\ WellFormed(sent[b] \o chunk) /\ Len(sent[b] \o chunk) <= MaxPieces
    /\ sent' = [sent EXCEPT ![b] = @ \o chunk]
    /\ UNCHANGED <<setup, signed, stopped, stream>>

\* A chunk goes through the block's buffer, and the safe part is shown restored.
ThroughBuffer(b, chunk) ==
    LET text == buffers[b] \o chunk
    IN  /\ buffers' = [buffers EXCEPT ![b] = Held(text)]
        /\ shown' = [shown EXCEPT ![b] = @ \o Restored(Safe(text))]

TextDelta(b) ==
    /\ kind[b] = "text"
    /\ \E chunk \in Chunks : Sends(b, chunk) /\ ThroughBuffer(b, chunk)
    /\ UNCHANGED <<toolInput, raw, signatures, cache>>

\* Tool input is withheld until the block stops.
InputDelta(b) ==
    /\ kind[b] = "tool"
    /\ \E chunk \in Chunks :
        /\ Sends(b, chunk)
        /\ toolInput' = [toolInput EXCEPT ![b] = @ \o chunk]
    /\ UNCHANGED <<buffers, raw, signatures, cache, shown>>

\* Mutant of ThinkingDelta: what is cached is what is shown.
ThinkingDeltaConflated(b) ==
    /\ kind[b] = "thinking"
    /\ \E chunk \in Chunks :
        /\ Sends(b, chunk)
        /\ IF caching
           THEN /\ ThroughBuffer(b, chunk)
                /\ raw' = [raw EXCEPT ![b] = @ \o Restored(Safe(buffers[b] \o chunk))]
           ELSE /\ shown' = [shown EXCEPT ![b] = @ \o chunk]
                /\ UNCHANGED <<buffers, raw>>
    /\ UNCHANGED <<toolInput, signatures, cache>>

\* Thinking is shown restored and remembered as it came; without a cache it is shown as
\* it came.
ThinkingDelta(b) ==
    /\ kind[b] = "thinking"
    /\ \E chunk \in Chunks :
        /\ Sends(b, chunk)
        /\ IF caching
           THEN /\ ThroughBuffer(b, chunk)
                /\ raw' = [raw EXCEPT ![b] = @ \o chunk]
           ELSE /\ shown' = [shown EXCEPT ![b] = @ \o chunk]
                /\ UNCHANGED <<buffers, raw>>
    /\ UNCHANGED <<toolInput, signatures, cache>>

SignatureDelta(b) ==
    /\ stream = "open"
    /\ kind[b] = "thinking" /\ b \notin stopped /\ signed[b] < SignatureParts
    /\ signed' = [signed EXCEPT ![b] = @ + 1]
    /\ signatures' = [signatures EXCEPT ![b] = @ + 1]
    /\ UNCHANGED <<setup, sent, stopped, buffers, toolInput, raw, cache, shown, stream>>

\* What is left of a block: its tool input, or the text or thinking that was held.
Remaining(b) == Restored(toolInput[b]) \o Restored(buffers[b])

\* thinkingCache.set for a block with a signature
Remembered(bs) ==
    {[block |-> b, parts |-> signatures[b], thinking |-> raw[b]] :
        b \in {c \in bs : caching /\ signatures[c] > 0}}

\* Mutant of Stop: the stop event is passed on, and the tail waits for the flush.
StopForwarded(b) ==
    /\ stream = "open" /\ b \notin stopped
    /\ signed[b] \in {0, SignatureParts}
    /\ stopped' = stopped \cup {b}
    /\ UNCHANGED <<setup, sent, signed, buffers, toolInput, raw, signatures, cache, shown, stream>>

\* content_block_stop: the tail is shown, and then the stop event.
Stop(b) ==
    /\ stream = "open" /\ b \notin stopped
    /\ signed[b] \in {0, SignatureParts}
    /\ stopped' = stopped \cup {b}
    /\ shown' = [shown EXCEPT ![b] = @ \o Remaining(b)]
    /\ cache' = cache \cup Remembered({b})
    /\ toolInput' = [toolInput EXCEPT ![b] = <<>>]
    /\ buffers' = [buffers EXCEPT ![b] = <<>>]
    /\ raw' = [raw EXCEPT ![b] = <<>>]
    /\ signatures' = [signatures EXCEPT ![b] = 0]
    /\ UNCHANGED <<setup, sent, signed, stream>>

Cleared ==
    /\ toolInput' = [b \in Blocks |-> <<>>]
    /\ buffers' = [b \in Blocks |-> <<>>]
    /\ raw' = [b \in Blocks |-> <<>>]
    /\ signatures' = [b \in Blocks |-> 0]

\* Mutant of End: the thinking of blocks that were not stopped is cached too.
EndCaches ==
    /\ stream = "open"
    /\ stream' = "closed"
    /\ shown' = IF flushOnClose THEN [b \in Blocks |-> shown[b] \o Remaining(b)] ELSE shown
    /\ cache' = cache \cup Remembered(Blocks)
    /\ Cleared
    /\ UNCHANGED upstream

\* Mutant of End: tool input is not flushed.
EndTextOnly ==
    /\ stream = "open"
    /\ stream' = "closed"
    /\ shown' = IF flushOnClose THEN [b \in Blocks |-> shown[b] \o Restored(buffers[b])] ELSE shown
    /\ Cleared
    /\ UNCHANGED <<upstream, cache>>

\* The upstream body ends, possibly in the middle of a block; drain does not cache.
End ==
    /\ stream = "open"
    /\ stream' = "closed"
    /\ shown' = IF flushOnClose THEN [b \in Blocks |-> shown[b] \o Remaining(b)] ELSE shown
    /\ Cleared
    /\ UNCHANGED <<upstream, cache>>

\* The client goes away, or the upstream connection breaks: no flush.
Break ==
    /\ stream = "open"
    /\ stream' = "broken"
    /\ UNCHANGED <<upstream, buffers, toolInput, raw, signatures, cache, shown>>

Next ==
    \/ \E b \in Blocks :
        TextDelta(b) \/ InputDelta(b) \/ ThinkingDelta(b) \/ SignatureDelta(b) \/ Stop(b)
    \/ End
    \/ Break

Spec == Init /\ [][Next]_vars

-----------------------------------------------------------------------------
TypeOK ==
    /\ kind \in [Blocks -> Kinds]
    /\ \A b \in Blocks :
        /\ signed[b] \in 0 .. SignatureParts /\ signatures[b] \in 0 .. signed[b]
        /\ buffers[b] \in {<<>>, <<"head">>}
        /\ Range(raw[b]) \cup Range(toolInput[b]) \subseteq Pieces
        /\ Range(shown[b]) \subseteq Shown
    /\ stopped \subseteq Blocks
    /\ stream \in {"open", "closed", "broken"}

\* What the client should see of a block.
Display(b) ==
    IF kind[b] = "thinking" /\ ~caching THEN sent[b] ELSE Restored(sent[b])

\* However the deltas split the tokens and interleave the blocks, the client has a
\* beginning of each block's restored text: nothing is lost in between, doubled, mixed
\* up with another block or shown as half a token.
ShownIsPrefix == \A b \in Blocks : IsPrefix(shown[b], Display(b))

\* The stop event of a block comes after all of it.
StoppedIsWhole == \A b \in stopped : shown[b] = Display(b)

\* At the end of the stream the client has all of it, also of blocks cut off by it.
ClosedIsWhole ==
    stream = "closed" /\ flushOnClose => \A b \in Blocks : shown[b] = Display(b)

\* The cache gets the thinking exactly as it was signed, under the whole signature
\* (anthropic-thinking.ts:98): of stopped blocks, and of all of those.
CachedIsSigned ==
    cache = {[block |-> b, parts |-> SignatureParts, thinking |-> sent[b]] :
                b \in {c \in stopped : caching /\ signed[c] > 0}}

=============================================================================
