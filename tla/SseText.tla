------------------------------ MODULE SseText ------------------------------
(***************************************************************************)
(* The text of a streamed answer, as the transformers of the proxy see it  *)
(* (packages/proxy/src/stream): plain pieces, and tokens, each of which    *)
(* may be split into a head and a rest.  How the buffer finds an           *)
(* unfinished token in the characters is StreamBuffer's subject; here it   *)
(* holds back a head that ends what has come.                              *)
(***************************************************************************)
EXTENDS Naturals, Sequences, SequencesExt

Pieces == {"plain", "head", "rest"}

EndsInHead(text) == text # <<>> /\ Last(text) = "head"

\* What a StreamBuffer keeps of its text, and what it hands on.
Held(text) == IF EndsInHead(text) THEN <<"head">> ELSE <<>>
Safe(text) == SubSeq(text, 1, Len(text) - Len(Held(text)))

\* remover.restore on one slice: the two pieces of a token that is whole in it become the
\* two of its value; a part of a token is not recognised.
Restored(text) ==
    [i \in 1 .. Len(text) |->
        CASE text[i] = "head" /\ i < Len(text) /\ text[i + 1] = "rest" -> "value"
          [] text[i] = "rest" /\ i > 1 /\ text[i - 1] = "head" -> "value's rest"
          [] OTHER -> text[i]]

Shown == Pieces \cup {"value", "value's rest"}

\* What a model writes: the rest of a token follows its head at once.
WellFormed(text) ==
    \A i \in 1 .. Len(text) :
        /\ text[i] = "rest" => i > 1 /\ text[i - 1] = "head"
        /\ text[i] = "head" /\ i < Len(text) => text[i + 1] = "rest"
=============================================================================
