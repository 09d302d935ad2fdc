--------------------------- MODULE ThinkingReplay --------------------------
(***************************************************************************)
(* The round trip of signed thinking through a proxy session               *)
(* (packages/proxy/src/providers/thinking-replay.ts).  The upstream signs  *)
(* a block of masked thinking; the client is shown it restored, keeps it   *)
(* in its history, and replays it with any later request; the proxy puts   *)
(* the signed bytes back, from a cache that evicts and that a restart      *)
(* empties.                                                                *)
(***************************************************************************)
EXTENDS ThinkingCache

\* Signatures stand for the blocks the upstream signs: each is signed once.
CONSTANTS
    Contents,     \* functions from Signatures to Thinking: what is signed
    Shown(_),     \* a text as remover.restore returns it
    Empty         \* the empty text (display: "omitted")

\* A signature that is missing, or was cut off.
Broken == "broken"

\* Restoring empties no text (thinking-replay.ts:80), and a part of a signature is no
\* signature.
ASSUME ReplayAssumption ==
    /\ Contents \subseteq [Signatures -> Thinking] /\ Empty \in Thinking
    /\ \A text \in Thinking : Shown(text) = Empty => text = Empty
    /\ Broken \notin Signatures

VARIABLES
    signed,    \* what the upstream signs under each signature
    answered,  \* the blocks the upstream has sent
    history,   \* blocks as the client holds them
    wire       \* blocks as the upstream has got them back

vars == <<cacheVars, signed, answered, history, wire>>

Block(signature, text) == [signature |-> signature, thinking |-> text]

-----------------------------------------------------------------------------
Init ==
    /\ CacheInit
    /\ signed \in Contents
    /\ answered = {}
    /\ history = {}
    /\ wire = {}

\* A block that arrives whole, in a JSON answer (restoreThinkingBlock) or in a stream up
\* to its content_block_stop.
Answer(signature) ==
    /\ signature \notin answered
    /\ Set(signature, signed[signature])
    /\ answered' = answered \cup {signature}
    /\ history' = history \cup {Block(signature, Shown(signed[signature]))}
    /\ UNCHANGED <<signed, wire>>

\* A stream that breaks before the content_block_stop: the client has some text, and a
\* signature that may be whole; nothing is cached.
Cut(signature) ==
    /\ signature \notin answered
    /\ answered' = answered \cup {signature}
    /\ \/ history' = history \cup {Block(signature, Shown(signed[signature]))}
       \/ \E text \in Thinking : history' = history \cup {Block(Broken, Shown(text))}
    /\ UNCHANGED <<cacheVars, signed, wire>>

\* Mutant of Replay: a block that misses is forwarded as it is.
ReplayForwards(block) ==
    /\ block \in history
    /\ IF block.thinking = Empty
       THEN wire' = wire \cup {block} /\ UNCHANGED cacheVars
       ELSE IF Caches(block.signature)
       THEN /\ Get(block.signature)
            /\ wire' = wire \cup {Block(block.signature, Lookup(block.signature))}
       ELSE wire' = wire \cup {block} /\ UNCHANGED cacheVars
    /\ UNCHANGED <<signed, answered, history>>

\* replayThinking on one block of a request: an empty one goes as it is, a known one
\* with the signed bytes, and any other is dropped.
Replay(block) ==
    /\ block \in history
    /\ IF block.thinking = Empty
       THEN wire' = wire \cup {block} /\ UNCHANGED cacheVars
       ELSE IF Caches(block.signature)
       THEN /\ Get(block.signature)
            /\ wire' = wire \cup {Block(block.signature, Lookup(block.signature))}
       ELSE UNCHANGED <<cacheVars, wire>>
    /\ UNCHANGED <<signed, answered, history>>

\* The proxy is started anew; the client keeps its history.
Restart ==
    /\ Clear
    /\ UNCHANGED <<signed, answered, history, wire>>

Next ==
    \/ \E signature \in Signatures : Answer(signature) \/ Cut(signature)
    \/ \E block \in history : Replay(block)
    \/ Restart

Spec == Init /\ [][Next]_vars

-----------------------------------------------------------------------------
TypeOK ==
    /\ CacheTypeOK
    /\ signed \in Contents
    /\ answered \subseteq Signatures
    /\ \A block \in history : block.signature \in answered \cup {Broken}

\* The upstream gets back what it signed, to the byte, whatever was evicted, cut off or
\* restarted in between; so no restored value is ever sent out in a block of thinking.
\* Only an empty text goes out under a signature that was cut off.
WireIsSigned ==
    \A block \in wire :
        \/ block.thinking = Empty /\ block.signature = Broken
        \/ block.signature \in answered /\ block.thinking = signed[block.signature]

\* The cache holds signed bytes of answered blocks only.
CacheIsSigned ==
    \A e \in Range(entries) : e.signature \in answered /\ e.thinking = signed[e.signature]
=============================================================================
