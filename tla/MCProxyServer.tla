--------------------------- MODULE MCProxyServer ---------------------------
(***************************************************************************)
(* Four layers of the proxy, one of them from an initial state on: the     *)
(* server, with two requests and two sessions; the pump of one answer,     *)
(* with up to MaxChunks chunks; the replay of signed thinking; and the     *)
(* turns of one conversation.                                              *)
(***************************************************************************)
EXTENDS ProxyServer, StreamPump, MCThinking, Conversation

CONSTANTS r1, r2, a, b, v1, v2

VARIABLE layer

\* Session a sends two texts, and one of its values is b's too.
MCBodies == [s \in Sessions |-> IF s = a THEN {<<{v1}, {v2}>>} ELSE {<<{v2}>>}]

\* In a layer that rests, nothing is enabled that is fair, and one state is enough.
PumpRests == PumpInit /\ ~aborted
ThinkingRests == ThinkingInit /\ alone /\ signed = CHOOSE f \in Contents : TRUE
ConversationRests ==
    /\ path = <<"anthropic", "/api/">> /\ thread = <<>> /\ turn = "client"
    /\ known = {} /\ bodies = <<>> /\ told = <<>> /\ late = FALSE

MCInit ==
    /\ ServerInit
    /\ \/ layer = "server" /\ PumpRests /\ ThinkingRests /\ ConversationRests
       \/ layer = "pump" /\ PumpInit /\ ThinkingRests /\ ConversationRests
       \/ layer = "thinking" /\ PumpRests /\ ThinkingInit /\ ConversationRests
       \/ layer = "conversation" /\ PumpRests /\ ThinkingRests /\ ConversationInit

MCNext ==
    /\ UNCHANGED layer
    /\ \/ /\ layer = "server" /\ ServerNext
          /\ UNCHANGED <<pumpVars, thinkingVars, conversationVars>>
       \/ /\ layer = "pump" /\ PumpNext
          /\ UNCHANGED <<proxyVars, thinkingVars, conversationVars>>
       \/ /\ layer = "thinking" /\ ThinkingNext
          /\ UNCHANGED <<proxyVars, pumpVars, conversationVars>>
       \/ /\ layer = "conversation" /\ ConversationNext
          /\ UNCHANGED <<proxyVars, pumpVars, thinkingVars>>

MCSpec ==
    /\ MCInit /\ [][MCNext]_<<layer, proxyVars, pumpVars, thinkingVars, conversationVars>>
    /\ ServerFairness /\ PumpFairness

-----------------------------------------------------------------------------
\* A stream that is closed for a client that stayed has brought everything, the tail of
\* the transformer included; a client that has gone is sent nothing, although a chunk may
\* be on its way; however else a stream ends, the client is told; and when the client goes,
\* so does the upstream request (docs/ARCHITECTURE.md:641).
StreamEndsWell ==
    /\ [](PumpTypeOK /\ ClosedIsComplete)
    /\ NothingAfterAbort
    /\ EndIsTold /\ AbortStopsUpstream
=============================================================================
