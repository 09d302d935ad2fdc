------------------------- MODULE StreamTransformers ------------------------
(***************************************************************************)
(* The transformer of a streamed answer, one of three by the provider the  *)
(* request was routed to (selectStreamTransformer in                       *)
(* packages/proxy/src/server.ts), and what every one of them promises.     *)
(* They share the state that all have: the text held in buffers, the       *)
(* arguments withheld in accumulators, and what the client has been shown. *)
(***************************************************************************)
EXTENDS SseText

CONSTANTS
    Indices,         \* of content blocks, choices or output items
    MaxPieces,       \* bound: pieces of a block or an item
    MaxContent,      \* bound: pieces of a choice's content
    MaxArguments,    \* bound: pieces of its arguments
    CodexChunks,     \* what a delta of the Responses API may carry
    OpenAIChunks     \* and one of the chat completions

ASSUME ChunksAssumption == CodexChunks \cup OpenAIChunks \subseteq Seq(Pieces)

VARIABLES
    provider,        \* "anthropic", "openai" or "codex"
    flushOnClose, stream, buffers, accumulators,
    written,         \* what the upstream has sent
    seen,            \* what the client has been shown
    caching, kind, signed, stopped, raw, signatures, cache,  \* Anthropic only
    habits, done,                                            \* OpenAI only
    calls, finished                                          \* Codex only

ofAll == <<provider, flushOnClose, stream, buffers, accumulators, written, seen>>
ofAnthropic == <<caching, kind, signed, stopped, raw, signatures, cache>>
ofOpenAI == <<habits, done>>
ofCodex == <<calls, finished>>
streamVars == <<ofAll, ofAnthropic, ofOpenAI, ofCodex>>

Anthropic == INSTANCE AnthropicSse WITH Blocks <- Indices, toolInput <- accumulators,
                                        sent <- written, shown <- seen
OpenAI == INSTANCE OpenAISse WITH ChoiceIds <- Indices, Chunks <- OpenAIChunks,
                                  MaxPieces <- MaxContent, toolArgs <- accumulators,
                                  sent <- written, shown <- seen
Codex == INSTANCE CodexSse WITH Outputs <- Indices, Chunks <- CodexChunks,
                                funcArgs <- accumulators, done <- finished,
                                sent <- written, shown <- seen

\* The state of a transformer that the request does not use.
NoAnthropic ==
    /\ caching = FALSE /\ kind = <<>> /\ signed = <<>> /\ stopped = {}
    /\ raw = <<>> /\ signatures = <<>> /\ cache = {}
NoOpenAI == habits = {} /\ done = FALSE
NoCodex == calls = {} /\ finished = {}

StreamInit ==
    \/ provider = "anthropic" /\ Anthropic!Init /\ NoOpenAI /\ NoCodex
    \/ provider = "openai" /\ OpenAI!Init /\ NoAnthropic /\ NoCodex
    \/ provider = "codex" /\ Codex!Init /\ NoAnthropic /\ NoOpenAI

StreamNext ==
    /\ UNCHANGED provider
    /\ \/ provider = "anthropic" /\ Anthropic!Next /\ UNCHANGED <<ofOpenAI, ofCodex>>
       \/ provider = "openai" /\ OpenAI!Next /\ UNCHANGED <<ofAnthropic, ofCodex>>
       \/ provider = "codex" /\ Codex!Next /\ UNCHANGED <<ofAnthropic, ofOpenAI>>

StreamSpec == StreamInit /\ [][StreamNext]_streamVars

-----------------------------------------------------------------------------
StreamTypeOK ==
    /\ provider \in {"anthropic", "openai", "codex"}
    /\ provider = "anthropic" => Anthropic!TypeOK
    /\ provider = "openai" => OpenAI!TypeOK
    /\ provider = "codex" => Codex!TypeOK

\* However the deltas split the tokens, interleave the blocks, choices or items, or share
\* events, the client has a beginning of each one's restored text: nothing lost in
\* between, doubled, mixed up with another or shown as half a token.
ShownIsPrefix ==
    /\ StreamTypeOK
    /\ provider = "anthropic" => Anthropic!ShownIsPrefix
    /\ provider = "openai" => OpenAI!ContentIsPrefix
    /\ provider = "codex" => Codex!ShownIsPrefix

\* The event that ends a block or a function call (content_block_stop,
\* function_call_arguments.done, for OpenAI the end of the body) comes with all of it,
\* restored, and once; and the finish reason of a choice comes too, unless it stood next to
\* content that is held.
EndedIsWhole ==
    /\ provider = "anthropic" => Anthropic!StoppedIsWhole
    /\ provider = "openai" => OpenAI!ArgumentsAreWhole /\ OpenAI!FinishIsTold
    /\ provider = "codex" => Codex!CallsAreWhole

\* When the body has ended, wherever it was cut off, nothing is held any more; and what
\* the cache has got is the thinking exactly as it was signed, under the whole signature
\* (anthropic-thinking.ts:98), nothing of a block that was cut off.
ClosedIsWhole ==
    /\ provider = "anthropic" => Anthropic!ClosedIsWhole /\ Anthropic!CachedIsSigned
    /\ provider = "openai" => OpenAI!ClosedIsWhole
    /\ provider = "codex" => Codex!ClosedIsWhole

\* The three together: at every moment a prefix, at the end of a part all of it, at the
\* end of the body nothing withheld.
AnswerIsWhole == ShownIsPrefix /\ EndedIsWhole /\ ClosedIsWhole

\* "On stream end (`message_stop` or `[DONE]`), the buffer is flushed" (proxy/README.md:61).
\* The code does not keep this promise: [DONE] is passed on at once, and what is held and
\* all tool call arguments follow at the end of the body.
DoneIsLast == provider = "openai" => OpenAI!DoneIsLast
=============================================================================
