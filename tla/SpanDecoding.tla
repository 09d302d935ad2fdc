---------------------------- MODULE SpanDecoding ---------------------------
(***************************************************************************)
(* How the two models of the backend turn the labels of tokens into spans  *)
(* of text.  opf_runner.py looks for the best sequence of BIOES labels     *)
(* with the Viterbi algorithm and groups it (_viterbi_decode,              *)
(* _decode_bioes); korean_ner_runner.py takes the best BIO label of each   *)
(* token (_decode_bio).  The tokenizer cuts a text after TokenLimit tokens.*)
(***************************************************************************)
EXTENDS Integers, Sequences, SequencesExt, FiniteSets, Functions

CONSTANTS
    Tagset,      \* the labels in the order of id2label: [boundary, tag]
    KnownTags,   \* _VALID_LABELS, _KNOWN_KLUE_TAGS
    Calibration, \* sets of biases: [transition kind -> integer]
    Emissions,   \* scores a model may give to a token: [index of a label -> integer]
    Tokenized,   \* texts as sequences of <<start, end>>; special tokens are empty
    Blank,       \* positions of white space
    TokenLimit   \* 512

ASSUME DecodingAssumption ==
    /\ TokenLimit \in Nat
    /\ Emissions \subseteq [DOMAIN Tagset -> Int]
    /\ \A text \in Tokenized, i \in 1 .. TokenLimit : i \in DOMAIN text => text[i][1] <= text[i][2]
    /\ \E l \in DOMAIN Tagset : Tagset[l].boundary = "O"

VARIABLES
    scheme,   \* "bioes" or "bio"
    biases,
    tokens,   \* of the text, at most TokenLimit of them
    emitted,  \* the scores of the tokens so far
    best,     \* dp[pos]: the score of the best labelling that ends with each label
    back,     \* back[1 .. pos]
    labels,   \* pred_ids
    at,       \* token to group
    open,     \* cur: the span that is open, a sequence of one or none
    spans

decodingVars == <<scheme, biases, tokens, emitted, best, back, labels, at, open, spans>>

-----------------------------------------------------------------------------
(* Transitions                                                             *)

Ids == DOMAIN Tagset
NegInf == -1000
Outside == CHOOSE l \in Ids : Tagset[l].boundary = "O" /\ \A k \in Ids : Tagset[k].boundary = "O" => l <= k
Ending == {l \in Ids : Tagset[l].boundary \in {"O", "E", "S"}}
Known(l) == Tagset[l].tag \in KnownTags
Starts(l) == Tagset[l].boundary \in {"B", "S"} /\ Known(l)

\* Mutant of Allowed: a span goes on under another tag.
AllowedAnyTag(p, n) ==
    IF Tagset[p].boundary \in {"B", "I"} THEN Tagset[n].boundary \in {"I", "E"} /\ Known(n)
    ELSE Tagset[n].boundary = "O" \/ Starts(n)

\* _is_allowed_transition.
Allowed(p, n) ==
    IF Tagset[p].boundary \in {"B", "I"}
    THEN Tagset[n].boundary \in {"I", "E"} /\ Tagset[p].tag = Tagset[n].tag /\ Known(n)
    ELSE Tagset[n].boundary = "O" \/ Starts(n)

\* _transition_bias: the kind of an allowed transition.
Kind(p, n) ==
    CASE Tagset[p].boundary = "O" -> IF Tagset[n].boundary = "O" THEN "stay" ELSE "start"
      [] Tagset[p].boundary \in {"E", "S"} -> IF Tagset[n].boundary = "O" THEN "end" ELSE "again"
      [] OTHER -> IF Tagset[n].boundary = "I" THEN "continue" ELSE "finish"

Transition(p, n) == IF Allowed(p, n) THEN biases[Kind(p, n)] ELSE NegInf

\* argmax: the first of the best.
ArgMax(S, score(_)) ==
    CHOOSE l \in S : \A k \in S : score(l) > score(k) \/ (score(l) = score(k) /\ l <= k)

-----------------------------------------------------------------------------
(* The best labels                                                         *)

DecodingInit ==
    /\ scheme \in {"bioes", "bio"} /\ biases \in Calibration
    /\ \E text \in Tokenized : tokens = SubSeq(text, 1, IF Len(text) < TokenLimit THEN Len(text) ELSE TokenLimit)
    /\ emitted = <<>> /\ best = <<>> /\ back = <<>> /\ labels = <<>>
    /\ at = 1 /\ open = <<>> /\ spans = <<>>

\* Mutant of Reached: a token is scored as if it stood alone.
ReachedAlone(scores) == [l \in Ids |-> scores[l]]

\* dp[pos]; before the first token is an O.
Reached(scores) ==
    [l \in Ids |-> scores[l] + IF emitted = <<>> THEN Transition(Outside, l)
                               ELSE LET p == ArgMax(Ids, LAMBDA k : best[k] + Transition(k, l)) IN
                                    best[p] + Transition(p, l)]

\* One round of the Viterbi loop, whose outcome the Korean runner has no use for.
Emits ==
    /\ labels = <<>> /\ Len(emitted) < Len(tokens)
    /\ \E scores \in Emissions :
           /\ emitted' = Append(emitted, scores)
           /\ best' = Reached(scores)
           /\ back' = Append(back, [l \in Ids |->
                          IF emitted = <<>> THEN Outside
                          ELSE ArgMax(Ids, LAMBDA k : best[k] + Transition(k, l))])
    /\ UNCHANGED <<scheme, biases, tokens, labels, at, open, spans>>

Greedy == [i \in DOMAIN emitted |-> ArgMax(Ids, LAMBDA l : emitted[i][l])]

\* Mutant of Traced: the last label may leave a span open.
TracedOpen ==
    LET n == Len(emitted)
        path[i \in 1 .. n] ==
            IF i = n THEN ArgMax(Ids, LAMBDA l : best[l]) ELSE back[i + 1][path[i + 1]]
    IN [i \in 1 .. n |-> path[i]]

\* The way back from the best label a text may end with; the greedy labels if none is
\* reached.
Traced ==
    LET n == Len(emitted)
        path[i \in 1 .. n] ==
            IF i = n THEN ArgMax(Ending, LAMBDA l : best[l]) ELSE back[i + 1][path[i + 1]]
    IN IF \A l \in Ending : best[l] <= NegInf \div 2 THEN Greedy ELSE [i \in 1 .. n |-> path[i]]

Labels ==
    /\ labels = <<>> /\ tokens # <<>> /\ Len(emitted) = Len(tokens)
    /\ labels' = IF scheme = "bioes" THEN Traced ELSE Greedy
    /\ UNCHANGED <<scheme, biases, tokens, emitted, best, back, at, open, spans>>

-----------------------------------------------------------------------------
(* The spans                                                               *)

Bound(S, least) == CHOOSE p \in S : \A q \in S : IF least THEN p <= q ELSE p >= q

\* append_span: without white space at its ends; a span of white space is none.
Trimmed(span) ==
    LET ink == (span.start .. span.end - 1) \ Blank IN
    IF ink = {} THEN <<>>
    ELSE <<[start |-> Bound(ink, TRUE), end |-> Bound(ink, FALSE) + 1, tag |-> span.tag]>>

Finished(span) == IF scheme = "bioes" THEN Trimmed(span) ELSE <<span>>
Closed == spans \o (IF open = <<>> THEN <<>> ELSE Finished(open[1]))

Opened(i) == [start |-> tokens[i][1], end |-> tokens[i][2], tag |-> Tagset[labels[i]].tag]
Extended(i) == [open[1] EXCEPT !.end = tokens[i][2]]

\* Mutant of Continues: whatever its tag.
ContinuesAny(i) == open # <<>>

\* The token goes on with the span that is open.
Continues(i) == open # <<>> /\ open[1].tag = Tagset[labels[i]].tag

\* One round of the loop.  A label that does not fit closes what is open and is lost.
Groups ==
    LET boundary == Tagset[labels[at]].boundary
        ignored == tokens[at][1] = tokens[at][2] \/ ~Known(labels[at])
        single == scheme = "bioes" /\ boundary = "S"
        ending == scheme = "bioes" /\ boundary = "E"
    IN
    /\ labels # <<>> /\ at <= Len(labels)
    /\ at' = at + 1
    /\ CASE ~ignored /\ single ->
              spans' = Closed \o Finished(Opened(at)) /\ open' = <<>>
         [] ~ignored /\ boundary = "B" ->
              spans' = Closed /\ open' = <<Opened(at)>>
         [] ~ignored /\ boundary = "I" /\ Continues(at) ->
              spans' = spans /\ open' = <<Extended(at)>>
         [] ~ignored /\ ending /\ Continues(at) ->
              spans' = spans \o Finished(Extended(at)) /\ open' = <<>>
         [] OTHER -> spans' = Closed /\ open' = <<>>
    /\ UNCHANGED <<scheme, biases, tokens, emitted, best, back, labels>>

\* _filter_short_person_spans, and the end of the loop.
LongEnough(span) == scheme = "bioes" \/ span.tag # "PS" \/ span.end - span.start >= 2

GroupsLast ==
    /\ labels # <<>> /\ at = Len(labels) + 1
    /\ at' = at + 1
    /\ spans' = SelectSeq(Closed, LongEnough) /\ open' = <<>>
    /\ UNCHANGED <<scheme, biases, tokens, emitted, best, back, labels>>

DecodingNext == Emits \/ Labels \/ Groups \/ GroupsLast

-----------------------------------------------------------------------------
(* Properties                                                              *)

Decoded == labels # <<>> /\ at = Len(labels) + 2

Legal(path) ==
    /\ Allowed(Outside, path[1]) /\ path[Len(path)] \in Ending
    /\ \A i \in 1 .. Len(path) - 1 : Allowed(path[i], path[i + 1])

Score(path) ==
    FoldFunction(+, 0, [i \in DOMAIN path |->
        emitted[i][path[i]] + biases[Kind(IF i = 1 THEN Outside ELSE path[i - 1], path[i])]])

\* opf_runner.py:197: the labels are a legal sequence, and none has a better score.
LabelsAreBest ==
    labels # <<>> /\ scheme = "bioes" /\ at = 1 =>
        /\ Legal(labels)
        /\ \A path \in [DOMAIN emitted -> Ids] : Legal(path) => Score(path) <= Score(labels)

\* The spans are disjoint and in the order of the text, which the merge relies on
\* (api/redact.py), and none of them mixes tags.
SpansAreOrdered ==
    /\ \A i, j \in DOMAIN spans : i < j => spans[i].end <= spans[j].start
    /\ \A i \in DOMAIN spans, k \in DOMAIN labels :
           /\ tokens[k][1] >= spans[i].start /\ tokens[k][2] <= spans[i].end /\ tokens[k][1] < tokens[k][2]
           => Tagset[labels[k]].tag = spans[i].tag

Inked(i) == (tokens[i][1] .. tokens[i][2] - 1) \ Blank
Within(p) == \E i \in DOMAIN spans : spans[i].start <= p /\ p < spans[i].end

Empty(i) == tokens[i][1] = tokens[i][2]

\* What a model labels is in a span: of OPF, whose labels are legal, every token that is not
\* outside, unless a special token takes part in a span; of the Korean model every token that
\* begins a name of two characters.
LabelledIsSpanned ==
    Decoded /\ (scheme = "bioes" => \A k \in DOMAIN labels : Empty(k) => labels[k] = Outside) =>
        \A i \in DOMAIN labels : \A p \in Inked(i) :
            /\ scheme = "bioes" => (labels[i] # Outside <=> Within(p))
            /\ scheme = "bio" /\ Tagset[labels[i]].boundary = "B" /\ Known(labels[i]) =>
                   Within(p) \/ (Tagset[labels[i]].tag = "PS" /\ tokens[i][2] - tokens[i][1] = 1)

DecodingInv == LabelsAreBest /\ SpansAreOrdered /\ LabelledIsSpanned
=============================================================================
