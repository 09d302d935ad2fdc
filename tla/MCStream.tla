------------------------------ MODULE MCStream -----------------------------
(***************************************************************************)
(* Two layers of a streamed answer, one or the other from an initial state *)
(* on: the buffer of one text, on texts of up to N positions with up to    *)
(* three runs; or the transformer of an answer with two blocks, choices or *)
(* items.                                                                  *)
(***************************************************************************)
EXTENDS StreamBuffer, StreamTransformers

VARIABLE layer

\* A token takes at least three positions.
Run == {r \in [start: 0 .. (N - 1), length: 1 .. 4, whole: BOOLEAN] :
            (r.whole => r.length \in 3 .. Window) /\ r.start + r.length <= N}

\* What looks like a token is one until it goes on differently, so another run may
\* start at its last position at most; a token's second position looks like the start
\* of one.
Apart(r, q) ==
    /\ r.start # q.start
    /\ r.start < q.start =>
           \/ r.start + r.length <= IF r.whole THEN q.start ELSE q.start + 1
           \/ r.whole /\ q = [start |-> r.start + 1, length |-> 1, whole |-> FALSE]

MCTexts ==
    {{}} \cup {{r} : r \in Run}
    \cup UNION {{{r, q} : q \in {p \in Run : r = p \/ (Apart(r, p) /\ Apart(p, r))}} : r \in Run}
    \cup UNION {UNION {{{r, q, p} : p \in {o \in Run : /\ q.start < o.start
                                                       /\ Apart(r, o) /\ Apart(q, o)}} :
                       q \in {o \in Run : r.start < o.start /\ Apart(r, o)}} : r \in Run}

MCCodexChunks == {<<"plain">>, <<"head">>, <<"rest">>, <<"plain", "head">>, <<"rest", "plain">>}
MCOpenAIChunks == {<<>>, <<"plain">>, <<"head">>, <<"rest">>}

BufferRests == BufferInit /\ runs = {}
TransformerRests == StreamInit /\ provider = "codex" /\ flushOnClose /\ calls = {}
StreamsRest == BufferRests /\ TransformerRests

\* Blocks are alike, and so are items: which of two has which kind makes no difference.
\* The cache is for thinking; and flush_on_close is read at the end only, so an answer
\* without it need not mix kinds or have habits.
KindOrder == <<"text", "tool", "thinking">>
Rank(k) == CHOOSE n \in DOMAIN KindOrder : KindOrder[n] = k

SetupsOnce ==
    /\ provider = "anthropic" =>
           /\ \A b, c \in Indices : b < c => Rank(kind[b]) <= Rank(kind[c])
           /\ ~caching => \E b \in Indices : kind[b] = "thinking"
           /\ ~flushOnClose => \A b, c \in Indices : kind[b] = kind[c]
    /\ provider = "codex" =>
           /\ \A i \in Indices, j \in calls : i < j => i \in calls
           /\ ~flushOnClose => calls \in {{}, Indices}
    /\ provider = "openai" => flushOnClose \/ habits = {}

MCStreamInit ==
    \/ layer = "buffer" /\ BufferInit /\ TransformerRests
    \/ layer = "transformer" /\ StreamInit /\ SetupsOnce /\ BufferRests

MCStreamNext ==
    \/ layer = "buffer" /\ BufferNext /\ UNCHANGED <<layer, streamVars>>
    \/ layer = "transformer" /\ StreamNext /\ UNCHANGED <<layer, bufferVars>>

MCStreamSpec == MCStreamInit /\ [][MCStreamNext]_<<layer, bufferVars, streamVars>>
=============================================================================
