----------------------------- MODULE OpenAISse -----------------------------
(***************************************************************************)
(* A streamed chat completion on its way through the proxy                 *)
(* (packages/proxy/src/stream/openai-sse.ts).  An event carries deltas of  *)
(* one or more choices: content, fragments of tool call arguments, the     *)
(* reason a choice is finished.  The stream ends with the event [DONE] and *)
(* then the end of the body.                                               *)
(***************************************************************************)
EXTENDS SseText

CONSTANTS
    ChoiceIds,     \* indices of choices
    MaxPieces,     \* bound: pieces of a choice's content
    MaxArguments,  \* bound: pieces of its arguments
    Chunks         \* what a delta may carry, the empty string included

\* A field that a delta does not have.
Absent == <<"absent">>

VARIABLES
    flushOnClose,
    habits,    \* of the upstream: whether a delta may carry content next to a tool call
               \* ("mixed") or next to the finish reason ("last words")
    sent,      \* of each choice, its content and its arguments so far, and finish
    buffers,   \* contentBuffers
    toolArgs,  \* toolArgAccumulators
    shown,     \* what the client has of each choice
    done,      \* whether [DONE] has been passed on
    stream     \* "open", "closed" or "broken"

vars == <<flushOnClose, habits, sent, buffers, toolArgs, shown, done, stream>>

\* Every choice's delta in an event; choices it does not mention have none.
Deltas ==
    {d \in [content: Chunks \cup {Absent}, arguments: Chunks \cup {Absent}, finish: BOOLEAN] :
        /\ d.content # Absent /\ d.arguments # Absent => "mixed" \in habits
        /\ d.finish /\ d.content # Absent => "last words" \in habits
        /\ d.finish => d.arguments = Absent}

Nothing == [content |-> <<>>, arguments |-> <<>>, finish |-> FALSE]

Text(field) == IF field = Absent THEN <<>> ELSE field

\* A choice's answer with a delta added to it.
Extended(answer, d) ==
    [content |-> answer.content \o Text(d.content),
     arguments |-> answer.arguments \o Text(d.arguments),
     finish |-> answer.finish \/ d.finish]

Possible(answer, d) ==
    LET next == Extended(answer, d)
    IN  /\ ~answer.finish
        /\ WellFormed(next.content) /\ Len(next.content) <= MaxPieces
        /\ WellFormed(next.arguments) /\ Len(next.arguments) <= MaxArguments

-----------------------------------------------------------------------------
Init ==
    /\ flushOnClose \in BOOLEAN
    /\ habits \in {{}, {"mixed"}, {"last words"}}
    /\ sent = [c \in ChoiceIds |-> Nothing]
    /\ buffers = [c \in ChoiceIds |-> <<>>]
    /\ toolArgs = [c \in ChoiceIds |-> <<>>]
    /\ shown = [c \in ChoiceIds |-> Nothing]
    /\ done = FALSE
    /\ stream = "open"

\* Whether a choice's delta goes through its buffer; one with tool calls does not.
Buffered(c, d) == d.content # Absent /\ d.arguments = Absent

\* Mutant of Rewritten: a choice that is held goes out as it came (`mutated` not set).
RewrittenUnmutated(c, d) ==
    [content |-> IF Buffered(c, d) /\ Safe(buffers[c] \o d.content) # <<>>
                 THEN Restored(Safe(buffers[c] \o d.content)) ELSE d.content,
     arguments |-> IF d.arguments = Absent THEN Absent ELSE <<>>,
     finish |-> d.finish]

\* What is handed on of a choice's delta: arguments are withheld, content is what the
\* buffer lets go, and next to a tool call content is not looked at.
Rewritten(c, d) ==
    [content |-> IF Buffered(c, d) THEN Restored(Safe(buffers[c] \o d.content))
                 ELSE d.content,
     arguments |-> IF d.arguments = Absent THEN Absent ELSE <<>>,
     finish |-> d.finish]

\* Mutant of Kept: an event goes if any of its choices is held.
KeptIfNoneHeld(event) ==
    \A c \in DOMAIN event :
        ~Buffered(c, event[c]) \/ Safe(buffers[c] \o event[c].content) # <<>>

\* Mutant of Kept: an event is passed on if there is something to show.
KeptIfShown(event) ==
    \E c \in DOMAIN event : Safe(buffers[c] \o Text(event[c].content)) # <<>>

\* An event is passed on unless all of its choices are held.
Kept(event) ==
    \E c \in DOMAIN event :
        ~Buffered(c, event[c]) \/ Safe(buffers[c] \o event[c].content) # <<>>

\* handleEvent of a chat.completion.chunk
Event ==
    /\ stream = "open" /\ ~done
    /\ \E cs \in SUBSET ChoiceIds \ {{}} :
       \E event \in [cs -> {d \in Deltas : \E c \in cs : Possible(sent[c], d)}] :
        /\ \A c \in cs : Possible(sent[c], event[c])
        /\ sent' = [c \in ChoiceIds |-> IF c \in cs THEN Extended(sent[c], event[c]) ELSE sent[c]]
        /\ buffers' = [c \in ChoiceIds |-> IF c \in cs /\ Buffered(c, event[c])
                                         THEN Held(buffers[c] \o event[c].content)
                                         ELSE buffers[c]]
        /\ toolArgs' = [c \in ChoiceIds |-> IF c \in cs
                                          THEN toolArgs[c] \o Text(event[c].arguments)
                                          ELSE toolArgs[c]]
        /\ shown' = IF Kept(event)
                    THEN [c \in ChoiceIds |-> IF c \in cs
                                            THEN Extended(shown[c], Rewritten(c, event[c]))
                                            ELSE shown[c]]
                    ELSE shown
    /\ UNCHANGED <<flushOnClose, habits, done, stream>>

\* [DONE] is passed on as it is.
Done ==
    /\ stream = "open" /\ ~done
    /\ done' = TRUE
    /\ UNCHANGED <<flushOnClose, habits, sent, buffers, toolArgs, shown, stream>>

\* Mutant of End: the arguments are handed on as they came.
EndUnrestored ==
    /\ stream = "open"
    /\ stream' = "closed"
    /\ shown' = IF flushOnClose
                THEN [c \in ChoiceIds |->
                        [shown[c] EXCEPT !.content = @ \o Restored(buffers[c]),
                                         !.arguments = @ \o toolArgs[c]]]
                ELSE shown
    /\ buffers' = [c \in ChoiceIds |-> <<>>]
    /\ toolArgs' = [c \in ChoiceIds |-> <<>>]
    /\ UNCHANGED <<flushOnClose, habits, sent, done>>

\* The body ends: what is held comes out, and so do all arguments.
End ==
    /\ stream = "open"
    /\ stream' = "closed"
    /\ shown' = IF flushOnClose
                THEN [c \in ChoiceIds |->
                        [shown[c] EXCEPT !.content = @ \o Restored(buffers[c]),
                                         !.arguments = @ \o Restored(toolArgs[c])]]
                ELSE shown
    /\ buffers' = [c \in ChoiceIds |-> <<>>]
    /\ toolArgs' = [c \in ChoiceIds |-> <<>>]
    /\ UNCHANGED <<flushOnClose, habits, sent, done>>

\* The client goes away, or the upstream connection breaks: no flush.
Break ==
    /\ stream = "open"
    /\ stream' = "broken"
    /\ UNCHANGED <<flushOnClose, habits, sent, buffers, toolArgs, shown, done>>

Next == Event \/ Done \/ End \/ Break

Spec == Init /\ [][Next]_vars

-----------------------------------------------------------------------------
TypeOK ==
    /\ \A c \in ChoiceIds :
        /\ Range(sent[c].content) \cup Range(sent[c].arguments) \subseteq Pieces
        /\ buffers[c] \in {<<>>, <<"head">>}
        /\ Range(toolArgs[c]) \subseteq Pieces
        /\ Range(shown[c].content) \cup Range(shown[c].arguments) \subseteq Shown
    /\ done \in BOOLEAN
    /\ stream \in {"open", "closed", "broken"}

\* However the deltas split the tokens and share events, the client has a beginning of
\* each choice's restored content; a half token that one choice holds does not come out
\* with another choice's text.  Content next to a tool call is passed on as it is.
ContentIsPrefix ==
    "mixed" \notin habits =>
        \A c \in ChoiceIds : IsPrefix(shown[c].content, Restored(sent[c].content))

\* Arguments come restored, as a whole, and not before the stream is closed.
ArgumentsAreWhole ==
    \A c \in ChoiceIds :
        shown[c].arguments = IF stream = "closed" /\ flushOnClose
                             THEN Restored(sent[c].arguments) ELSE <<>>

\* Once the body has ended nothing is held.
ClosedIsWhole ==
    stream = "closed" /\ flushOnClose /\ "mixed" \notin habits =>
        \A c \in ChoiceIds : shown[c].content = Restored(sent[c].content)

\* A choice's finish reason reaches the client if it comes without content; next to
\* content that is held it is lost.
FinishIsTold ==
    "last words" \notin habits => \A c \in ChoiceIds : sent[c].finish => shown[c].finish

\* README.md:61: the end of the stream is [DONE], and the buffers are flushed there; no
\* client reads on.
DoneIsLast ==
    done /\ flushOnClose => \A c \in ChoiceIds :
        /\ shown[c].content = Restored(sent[c].content)
        /\ shown[c].arguments = Restored(sent[c].arguments)
=============================================================================
