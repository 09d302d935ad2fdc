------------------------- MODULE Conversation_proofs ------------------------
(***************************************************************************)
(* What a conversation through the proxy promises, for any values and any  *)
(* number of turns; thinking goes back to the upstream as it was signed,   *)
(* for any number of blocks, any texts, and any bounds of the cache; and   *)
(* the cache holds what was used last.                                     *)
(***************************************************************************)
EXTENDS Conversation, MCThinking, SequenceTheorems, WellFoundedInduction, TLAPS
-----------------------------------------------------------------------------
(* What a transform makes of a body                                        *)

Marks == (PII \X {"raw", "token", "blurred"}) \cup {Note}
SystemFields == {"system", "system part"}
Fields == SystemFields \cup {"user", "answer", "result", "image", "call", "reasoning"}
Items == {item \in [field : Fields, marks : SUBSET Marks] : item.field = "image" => Note \notin item.marks}
Transforms == {"anthropic_messages", "openai_chat", "responses"}

PromisedOf(transform) ==
    CASE transform = "anthropic_messages" -> {"system", "system part", "user", "answer"}
      [] transform = "openai_chat" -> {"system", "system part", "user", "answer", "result"}
      [] transform = "responses" -> {"system", "user"}

LEMMA MarkKinds ==
    ASSUME NEW m \in Marks
    PROVE  \/ m = Note
           \/ m # Note /\ \E v \in PII, k \in {"raw", "token", "blurred"} : m = <<v, k>>
  BY ConversationAssumption DEF Marks

LEMMA NoteIsNoMark ==
    ASSUME NEW v \in PII, NEW k \in {"raw", "token", "blurred"}
    PROVE  <<v, k>> # Note
  BY ConversationAssumption

\* A masked text has no value in clear, and the note if it was there.
LEMMA MaskedMarks ==
    ASSUME NEW marks \in SUBSET Marks
    PROVE  /\ Masked(marks) \in SUBSET Marks
           /\ \A v \in PII : <<v, "raw">> \notin Masked(marks)
           /\ \A v \in PII : <<v, "token">> \in Masked(marks)
                             <=> (<<v, "token">> \in marks \/ <<v, "raw">> \in marks)
           /\ Note \in Masked(marks) <=> Note \in marks
<1>1. ASSUME NEW z \in Masked(marks)
      PROVE  \/ z \in marks /\ \A v \in PII : z # <<v, "raw">>
             \/ \E v \in PII : <<v, "raw">> \in marks /\ z = <<v, "token">>
  <2>1. PICK m \in marks : z = IF m # Note /\ m[2] = "raw" THEN <<m[1], "token">> ELSE m
    BY DEF Masked
  <2>2. CASE m = Note
    BY <2>1, <2>2, NoteIsNoMark
  <2>3. CASE m # Note
    <3>1. PICK v \in PII, k \in {"raw", "token", "blurred"} : m = <<v, k>>
      BY <2>3, MarkKinds
    <3>2. m[1] = v /\ m[2] = k
      BY <3>1
    <3> QED BY <2>1, <2>3, <3>1, <3>2
  <2> QED BY <2>2, <2>3
<1>2. ASSUME NEW z \in marks, \A v \in PII : z # <<v, "raw">> PROVE z \in Masked(marks)
  <2>1. z = Note \/ z[2] # "raw"
    BY <1>2, MarkKinds
  <2> QED BY <2>1 DEF Masked
<1>3. ASSUME NEW v \in PII, <<v, "raw">> \in marks PROVE <<v, "token">> \in Masked(marks)
  <2>1. <<v, "raw">> # Note /\ <<v, "raw">>[1] = v /\ <<v, "raw">>[2] = "raw"
    BY NoteIsNoMark
  <2> QED BY <1>3, <2>1 DEF Masked
<1>4. \A v, w \in PII : <<v, "raw">> # <<w, "token">>
  OBVIOUS
<1> HIDE DEF Marks
<1>5. Masked(marks) \in SUBSET Marks
  <2>1. \A v \in PII : <<v, "token">> \in Marks
    BY DEF Marks
  <2> QED BY <1>1, <2>1
<1>6. \A v \in PII : <<v, "raw">> \notin Masked(marks)
  BY <1>1, <1>4
<1>7. ASSUME NEW v \in PII
      PROVE  <<v, "token">> \in Masked(marks) <=> (<<v, "token">> \in marks \/ <<v, "raw">> \in marks)
  <2>1. \A w \in PII : <<v, "token">> = <<w, "token">> => v = w
    OBVIOUS
  <2> QED BY <1>1, <1>2, <1>3, <1>4, <2>1
<1>8. Note \in Masked(marks) <=> Note \in marks
  BY <1>1, <1>2, NoteIsNoMark
<1> QED BY <1>5, <1>6, <1>7, <1>8

LEMMA ItemType ==
    ASSUME NEW field \in Fields, NEW marks \in SUBSET Marks, field = "image" => Note \notin marks
    PROVE  /\ Item(field, marks) \in Items
           /\ Item(field, marks).field = field /\ Item(field, marks).marks = marks
  BY DEF Item, Items

\* The mask of an item: what its field promises, and what it leaves as it is.
LEMMA MaskOfItem ==
    ASSUME NEW transform \in Transforms, NEW item \in Items
    PROVE  LET mask == MaskOf(transform, item) IN
           /\ mask \in Items /\ mask.field = item.field
           /\ Note \in mask.marks <=> Note \in item.marks
           /\ item.field \in PromisedOf(transform) => mask = Item(item.field, Masked(item.marks))
           /\ item.field \in PromisedOf(transform) => \A v \in PII : <<v, "raw">> \notin mask.marks
           /\ \A v \in PII : <<v, "token">> \in mask.marks =>
                  <<v, "token">> \in item.marks \/ <<v, "raw">> \in item.marks
           /\ item.field # "image" => \A v \in PII : <<v, "token">> \in item.marks => <<v, "token">> \in mask.marks
<1> DEFINE mask == MaskOf(transform, item)
           whole == Item(item.field, Masked(item.marks))
           blurred == Item("image", {<<m[1], "blurred">> : m \in item.marks})
<1>1. item.field \in Fields /\ item.marks \in SUBSET Marks /\ (item.field = "image" => Note \notin item.marks)
  BY DEF Items
<1>2. \/ mask = item /\ item.field \notin PromisedOf(transform)
      \/ mask = whole /\ item.field # "image"
      \/ mask = blurred /\ item.field = "image" /\ item.field \notin PromisedOf(transform)
  BY <1>1 DEF Transforms, Fields, SystemFields, MaskOf, MaskAnthropic, MaskChat, MaskResponses, RedactedImage,
              MaskedCall, PromisedOf
<1>3. CASE mask = item /\ item.field \notin PromisedOf(transform)
  BY <1>3
<1>4. CASE mask = whole /\ item.field # "image"
  <2>1. /\ whole \in Items /\ whole.field = item.field /\ whole.marks = Masked(item.marks)
    BY <1>1, <1>4, MaskedMarks, ItemType
  <2> HIDE DEF whole
  <2>2. Note \in mask.marks <=> Note \in item.marks
    BY <1>1, <1>4, <2>1, MaskedMarks
  <2>3. \A v \in PII : /\ <<v, "raw">> \notin mask.marks
                       /\ <<v, "token">> \in mask.marks
                          <=> (<<v, "token">> \in item.marks \/ <<v, "raw">> \in item.marks)
    <3>1. \A v \in PII : /\ <<v, "raw">> \notin Masked(item.marks)
                         /\ <<v, "token">> \in Masked(item.marks)
                            <=> (<<v, "token">> \in item.marks \/ <<v, "raw">> \in item.marks)
      BY <1>1, MaskedMarks
    <3>2. mask.marks = Masked(item.marks)
      BY <1>4, <2>1
    <3> QED BY <3>1, <3>2
  <2> HIDE DEF mask
  <2> QED BY <1>4, <2>1, <2>2, <2>3 DEF mask, whole
<1>5. CASE mask = blurred /\ item.field = "image" /\ item.field \notin PromisedOf(transform)
  <2> DEFINE marks == {<<m[1], "blurred">> : m \in item.marks}
  <2>1. \A m \in item.marks : \E v \in PII : m[1] = v
    BY <1>1, <1>5, MarkKinds
  <2>2. marks \subseteq PII \X {"blurred"}
    BY <2>1
  <2>3. marks \in SUBSET Marks /\ Note \notin marks /\ \A v \in PII : <<v, "token">> \notin marks
    BY <2>2, NoteIsNoMark DEF Marks
  <2>4. blurred = Item("image", marks)
    OBVIOUS
  <2> HIDE DEF marks
  <2>5. blurred \in Items /\ blurred.field = "image" /\ blurred.marks = marks
    BY <2>3, <2>4, ItemType DEF Fields
  <2> QED BY <1>1, <1>5, <2>3, <2>5
<1> QED BY <1>2, <1>3, <1>4, <1>5

\* What a mask makes a token of is found.
LEMMA FoundIsMasked ==
    ASSUME NEW transform \in Transforms, NEW item \in Items, NEW v \in PII,
           <<v, "token">> \in MaskOf(transform, item).marks
    PROVE  <<v, "token">> \in item.marks \/ v \in Found(transform, item)
<1>1. <<v, "token">> \in item.marks \/ <<v, "raw">> \in item.marks
  BY MaskOfItem
<1>2. <<v, "raw">> # Note /\ <<v, "raw">>[1] = v /\ <<v, "raw">>[2] = "raw"
  BY NoteIsNoMark
<1>3. <<v, "raw">> \in item.marks => v \in Found(transform, item)
  BY <1>2 DEF Found
<1> QED BY <1>1, <1>3

\* The last system item, if there is one.
LEMMA LastSystemPlace ==
    ASSUME NEW body \in Seq(Items)
    PROVE  \/ LastSystem(body) = 0 /\ \A i \in 1 .. Len(body) : body[i].field \notin SystemFields
           \/ /\ LastSystem(body) \in 1 .. Len(body) /\ body[LastSystem(body)].field \in SystemFields
              /\ \A i \in 1 .. Len(body) : body[i].field \in SystemFields => i <= LastSystem(body)
<1> DEFINE at == {i \in DOMAIN body : body[i].field \in {"system", "system part"}}
           back == {Len(body) - i : i \in at}
<1>1. Len(body) \in Nat /\ DOMAIN body = 1 .. Len(body)
  BY LenProperties
<1>2. LastSystem(body) = IF at = {} THEN 0 ELSE CHOOSE i \in at : \A j \in at : j <= i
  BY DEF LastSystem
<1>3. CASE at = {}
  BY <1>1, <1>2, <1>3 DEF SystemFields
<1>4. CASE at # {}
  <2>0. at \subseteq 1 .. Len(body)
    BY <1>1
  <2> HIDE DEF at
  <2>1. back \subseteq Nat /\ back # {}
    <3>1. \A i \in at : Len(body) - i \in Nat
      BY <1>1, <2>0
    <3> QED BY <1>4, <3>1
  <2> HIDE DEF back
  <2>2. PICK x \in back : \A y \in back : ~ (<<y, x>> \in OpToRel(<, Nat))
    BY <2>1, NatLessThanWellFounded, WFMin, Zenon
  <2>3. ASSUME NEW y \in back, y < x PROVE FALSE
    <3>1. <<y, x>> \in Nat \X Nat /\ <<y, x>>[1] < <<y, x>>[2]
      BY <2>1, <2>3
    <3>2. <<y, x>> \in OpToRel(<, Nat)
      BY <3>1, Zenon DEF OpToRel
    <3> QED BY <2>2, <3>2
  <2>4. PICK i \in at : x = Len(body) - i
    BY DEF back
  <2>5. ASSUME NEW j \in at PROVE j <= i
    <3>1. Len(body) - j \in back
      BY DEF back
    <3>2. ~(Len(body) - j < Len(body) - i)
      BY <2>3, <2>4, <3>1
    <3>3. i \in 1 .. Len(body) /\ j \in 1 .. Len(body)
      BY <2>0
    <3> QED BY <1>1, <3>2, <3>3
  <2>6. LastSystem(body) \in at /\ \A j \in at : j <= LastSystem(body)
    BY <1>2, <1>4, <2>5
  <2> QED BY <1>1, <2>6 DEF at, SystemFields
<1> QED BY <1>3, <1>4

\* What an insertion leaves at each place.
LEMMA InsertAtPoints ==
    ASSUME NEW S, NEW s \in Seq(S), NEW e \in S, NEW n \in 1 .. Len(s) + 1
    PROVE  /\ InsertAt(s, n, e) \in Seq(S) /\ Len(InsertAt(s, n, e)) = Len(s) + 1
           /\ \A i \in 1 .. Len(s) + 1 :
                  InsertAt(s, n, e)[i] = IF i < n THEN s[i] ELSE IF i = n THEN e ELSE s[i - 1]
<1> DEFINE a == SubSeq(s, 1, n - 1)
           b == SubSeq(s, n, Len(s))
<1>1. Len(s) \in Nat /\ \A i \in 1 .. Len(s) : s[i] \in S
  BY ElementOfSeq, LenProperties
<1>2. a \in Seq(S) /\ Len(a) = n - 1 /\ \A i \in 1 .. (n - 1) : a[i] = s[i]
  <2>1. \A i \in 1 .. (n - 1) : s[i] \in S
    BY <1>1
  <2> QED BY <1>1, <2>1, SubSeqProperties
<1>3. b \in Seq(S) /\ Len(b) = Len(s) - n + 1 /\ \A i \in 1 .. (Len(s) - n + 1) : b[i] = s[n + i - 1]
  <2>1. \A i \in n .. Len(s) : s[i] \in S
    BY <1>1
  <2> QED BY <1>1, <2>1, SubSeqProperties
<1>4. InsertAt(s, n, e) = a \o <<e>> \o b
  BY DEF InsertAt
<1> HIDE DEF a, b
<1>5. <<e>> \in Seq(S) /\ Len(<<e>>) = 1 /\ <<e>>[1] = e
  OBVIOUS
<1> DEFINE one == <<e>>
           c == a \o one
<1>6. one \in Seq(S) /\ Len(one) = 1 /\ one[1] = e
  BY <1>5
<1> HIDE DEF one
<1>7. c \in Seq(S) /\ Len(c) = n /\ \A i \in 1 .. n : c[i] = IF i <= n - 1 THEN a[i] ELSE one[i - (n - 1)]
  <2>1. /\ c \in Seq(S) /\ Len(c) = Len(a) + Len(one)
        /\ \A i \in 1 .. Len(a) + Len(one) : c[i] = IF i <= Len(a) THEN a[i] ELSE one[i - Len(a)]
    BY <1>2, <1>6, ConcatProperties
  <2>2. Len(a) + Len(one) = n
    BY <1>1, <1>2, <1>6
  <2> QED BY <1>2, <2>1, <2>2
<1> HIDE DEF c
<1>8. c \o b \in Seq(S) /\ Len(c \o b) = n + (Len(s) - n + 1)
      /\ \A i \in 1 .. n + (Len(s) - n + 1) : (c \o b)[i] = IF i <= n THEN c[i] ELSE b[i - n]
  <2>1. /\ c \o b \in Seq(S) /\ Len(c \o b) = Len(c) + Len(b)
        /\ \A i \in 1 .. Len(c) + Len(b) : (c \o b)[i] = IF i <= Len(c) THEN c[i] ELSE b[i - Len(c)]
    BY <1>3, <1>7, ConcatProperties
  <2> QED BY <1>3, <1>7, <2>1
<1>9. InsertAt(s, n, e) = c \o b
  BY <1>4 DEF c, one
<1>10. n + (Len(s) - n + 1) = Len(s) + 1
  BY <1>1
<1>11. ASSUME NEW i \in 1 .. Len(s) + 1
       PROVE  (c \o b)[i] = IF i < n THEN s[i] ELSE IF i = n THEN e ELSE s[i - 1]
  <2>0. (c \o b)[i] = IF i <= n THEN c[i] ELSE b[i - n]
    BY <1>8, <1>10
  <2>1. CASE i < n
    <3>1. i \in 1 .. n /\ i <= n /\ i <= n - 1 /\ i \in 1 .. (n - 1)
      BY <1>1, <2>1
    <3> QED BY <1>2, <1>7, <2>0, <2>1, <3>1
  <2>2. CASE i = n
    <3>1. n \in 1 .. n /\ ~(n <= n - 1) /\ n - (n - 1) = 1
      BY <1>1
    <3> QED BY <1>6, <1>7, <2>0, <2>2, <3>1
  <2>3. CASE n < i
    <3>1. i - n \in 1 .. (Len(s) - n + 1) /\ n + (i - n) - 1 = i - 1 /\ ~(i <= n) /\ i # n
      BY <1>1, <2>3
    <3> QED BY <1>3, <2>0, <2>3, <3>1
  <2>4. i < n \/ i = n \/ n < i
    BY <1>1
  <2> QED BY <2>1, <2>2, <2>3, <2>4
<1> QED BY <1>8, <1>9, <1>10, <1>11

-----------------------------------------------------------------------------
(* Where the note goes                                                     *)

MaskedBody(transform, body) == [i \in DOMAIN body |-> MaskOf(transform, body[i])]

Noted(transform, body) ==
    CASE transform = "anthropic_messages" -> AnthropicNote(body)
      [] transform = "openai_chat" -> ChatNote(body)
      [] transform = "responses" -> ResponsesNote(body)

\* In a body of responses the system prompt comes first.
SystemFirst(transform, body) ==
    transform = "responses" /\ LastSystem(body) # 0 => body[1].field \in SystemFields

LEMMA MaskedBodyPoints ==
    ASSUME NEW transform \in Transforms, NEW body \in Seq(Items)
    PROVE  /\ MaskedBody(transform, body) \in Seq(Items)
           /\ Len(MaskedBody(transform, body)) = Len(body)
           /\ \A i \in 1 .. Len(body) : MaskedBody(transform, body)[i] = MaskOf(transform, body[i])
           /\ Transformed(transform, body) = Noted(transform, MaskedBody(transform, body))
<1>1. Len(body) \in Nat /\ DOMAIN body = 1 .. Len(body) /\ \A i \in 1 .. Len(body) : body[i] \in Items
  BY LenProperties, ElementOfSeq
<1>2. \A i \in 1 .. Len(body) : MaskOf(transform, body[i]) \in Items
  BY <1>1, MaskOfItem
<1>3. MaskedBody(transform, body) = [i \in 1 .. Len(body) |-> MaskOf(transform, body[i])]
  BY <1>1 DEF MaskedBody
<1>4. MaskedBody(transform, body) \in Seq(Items)
  <2>1. MaskedBody(transform, body) \in [1 .. Len(body) -> Items]
    BY <1>2, <1>3
  <2> QED BY <1>1, <2>1, SeqDef
<1>5. Len(MaskedBody(transform, body)) = Len(body)
  <2>1. DOMAIN MaskedBody(transform, body) = 1 .. Len(body)
    BY <1>3
  <2> QED BY <1>1, <1>4, <2>1, LenProperties
<1>6. Transformed(transform, body) = Noted(transform, MaskedBody(transform, body))
  BY DEF Transformed, Noted, MaskedBody
<1> QED BY <1>3, <1>4, <1>5, <1>6

\* The note is added to an item of the system prompt, or an item of its own, or there.
LEMMA NotedKinds ==
    ASSUME NEW transform \in Transforms, NEW body \in Seq(Items), SystemFirst(transform, body)
    PROVE  LET last == LastSystem(body) IN
           \/ \E at \in 1 .. Len(body) :
                  body[at].field \in SystemFields /\ Noted(transform, body) = Appended(body, at)
           \/ \E field \in SystemFields : Noted(transform, body) = NoteBehind(body, last, field)
           \/ Noted(transform, body) = body /\ \E i \in 1 .. last : body[i].marks = {Note}
<1>1. Len(body) \in Nat
  BY LenProperties
<1>2. \/ LastSystem(body) = 0
      \/ LastSystem(body) \in 1 .. Len(body) /\ body[LastSystem(body)].field \in SystemFields
  BY LastSystemPlace
<1>3. CASE transform = "anthropic_messages"
  <2>1. Noted(transform, body) = AnthropicNote(body)
    BY <1>3 DEF Noted
  <2>2. "system" \in SystemFields /\ "system part" \in SystemFields
    BY DEF SystemFields
  <2> DEFINE last == LastSystem(body)
  <2>3. CASE last # 0 /\ body[last].field = "system"
    BY <1>2, <2>1, <2>3 DEF AnthropicNote
  <2>4. CASE ~(last # 0 /\ body[last].field = "system") /\ \E i \in 1 .. last : body[i].marks = {Note}
    BY <2>1, <2>4 DEF AnthropicNote
  <2>5. CASE ~(last # 0 /\ body[last].field = "system") /\ ~ \E i \in 1 .. last : body[i].marks = {Note}
    <3>1. Noted(transform, body) = NoteBehind(body, last, IF last = 0 THEN "system" ELSE "system part")
      BY <2>1, <2>5 DEF AnthropicNote
    <3> QED BY <2>2, <3>1
  <2> QED BY <2>3, <2>4, <2>5
<1>4. CASE transform = "openai_chat"
  <2>1. Noted(transform, body) = ChatNote(body)
    BY <1>4 DEF Noted
  <2>2. "system" \in SystemFields
    BY DEF SystemFields
  <2> DEFINE last == LastSystem(body)
  <2>3. CASE last # 0 /\ body[last].field = "system"
    BY <1>2, <2>1, <2>3 DEF ChatNote
  <2>4. CASE ~(last # 0 /\ body[last].field = "system")
    <3>1. Noted(transform, body) = NoteBehind(body, last, "system")
      BY <2>1, <2>4 DEF ChatNote
    <3> QED BY <2>2, <3>1
  <2> QED BY <2>3, <2>4
<1>5. CASE transform = "responses"
  <2>1. CASE LastSystem(body) = 0
    BY <1>5, <2>1 DEF Noted, ResponsesNote, SystemFields
  <2>2. CASE LastSystem(body) # 0
    <3>1. 1 \in 1 .. Len(body) /\ body[1].field \in SystemFields
      BY <1>1, <1>2, <1>5, <2>2 DEF SystemFirst
    <3>2. Noted(transform, body) = Appended(body, 1)
      BY <1>5, <2>2 DEF Noted, ResponsesNote
    <3> QED BY <3>1, <3>2
  <2> QED BY <2>1, <2>2
<1> QED BY <1>3, <1>4, <1>5 DEF Transforms

LEMMA AppendedPoints ==
    ASSUME NEW body \in Seq(Items), NEW at \in 1 .. Len(body), body[at].field \in SystemFields
    PROVE  /\ Appended(body, at) \in Seq(Items) /\ Len(Appended(body, at)) = Len(body)
           /\ \A i \in 1 .. Len(body) :
                  Appended(body, at)[i] = IF i = at THEN Item(body[at].field, body[at].marks \cup {Note})
                                          ELSE body[i]
<1>1. Len(body) \in Nat /\ DOMAIN body = 1 .. Len(body) /\ \A i \in 1 .. Len(body) : body[i] \in Items
  BY LenProperties, ElementOfSeq
<1> DEFINE new == Item(body[at].field, body[at].marks \cup {Note})
<1>2. [body[at] EXCEPT !.marks = @ \cup {Note}] = new
  <2>1. body[at] \in [field : Fields, marks : SUBSET Marks]
    BY <1>1 DEF Items
  <2>2. ASSUME NEW F, NEW M, NEW r \in [field : F, marks : M], NEW marks
        PROVE  [r EXCEPT !.marks = marks] = [field |-> r.field, marks |-> marks]
    OBVIOUS
  <2> QED BY <2>1, <2>2 DEF Item
<1>3. new \in Items
  <2>1. body[at].field \in Fields /\ body[at].field # "image" /\ body[at].marks \cup {Note} \in SUBSET Marks
    BY <1>1 DEF Items, Fields, SystemFields, Marks
  <2> QED BY <2>1, ItemType
<1>4. Appended(body, at) = [body EXCEPT ![at] = new]
  BY <1>2 DEF Appended
<1> HIDE DEF new
<1>5. [body EXCEPT ![at] = new] \in Seq(Items) /\ Len([body EXCEPT ![at] = new]) = Len(body)
      /\ \A i \in 1 .. Len(body) : [body EXCEPT ![at] = new][i] = IF i = at THEN new ELSE body[i]
  BY <1>1, <1>3, ExceptSeq
<1> QED BY <1>4, <1>5 DEF new

LEMMA NoteBehindPoints ==
    ASSUME NEW body \in Seq(Items), NEW at \in 0 .. Len(body), NEW field \in SystemFields
    PROVE  /\ Item(field, {Note}) \in Items
           /\ NoteBehind(body, at, field) \in Seq(Items) /\ Len(NoteBehind(body, at, field)) = Len(body) + 1
           /\ \A i \in 1 .. Len(body) + 1 :
                  NoteBehind(body, at, field)[i] = IF i <= at THEN body[i]
                                                   ELSE IF i = at + 1 THEN Item(field, {Note}) ELSE body[i - 1]
<1>1. Len(body) \in Nat /\ at \in Nat /\ at + 1 \in 1 .. Len(body) + 1
  BY LenProperties
<1>2. Item(field, {Note}) \in Items
  BY ItemType DEF Fields, SystemFields, Marks
<1> DEFINE item == Item(field, {Note})
<1>3. item \in Items
  BY <1>2
<1> HIDE DEF item
<1>4. /\ InsertAt(body, at + 1, item) \in Seq(Items) /\ Len(InsertAt(body, at + 1, item)) = Len(body) + 1
      /\ \A i \in 1 .. Len(body) + 1 :
             InsertAt(body, at + 1, item)[i] = IF i < at + 1 THEN body[i] ELSE IF i = at + 1 THEN item ELSE body[i - 1]
  <2>1. \A n \in 1 .. Len(body) + 1 :
            /\ InsertAt(body, n, item) \in Seq(Items) /\ Len(InsertAt(body, n, item)) = Len(body) + 1
            /\ \A i \in 1 .. Len(body) + 1 :
                  InsertAt(body, n, item)[i] = IF i < n THEN body[i] ELSE IF i = n THEN item ELSE body[i - 1]
    BY <1>3, InsertAtPoints
  <2> QED BY <1>1, <2>1
<1>5. NoteBehind(body, at, field) = InsertAt(body, at + 1, item)
  BY DEF NoteBehind, item
<1>6. \A i \in 1 .. Len(body) + 1 : i < at + 1 <=> i <= at
  BY <1>1
<1>7. item = Item(field, {Note})
  BY DEF item
<1>8. ASSUME NEW i \in 1 .. Len(body) + 1
      PROVE  NoteBehind(body, at, field)[i] = IF i <= at THEN body[i]
                                              ELSE IF i = at + 1 THEN Item(field, {Note}) ELSE body[i - 1]
  <2>1. InsertAt(body, at + 1, item)[i] = IF i < at + 1 THEN body[i] ELSE IF i = at + 1 THEN item ELSE body[i - 1]
    BY <1>4
  <2> QED BY <1>5, <1>6, <1>7, <2>1
<1> QED BY <1>2, <1>4, <1>5, <1>8

\* With the note a body has the items it had, and an item with the note.
LEMMA NotedItems ==
    ASSUME NEW transform \in Transforms, NEW body \in Seq(Items), SystemFirst(transform, body)
    PROVE  LET noted == Noted(transform, body) IN
           /\ noted \in Seq(Items)
           /\ \A j \in 1 .. Len(noted) :
                  \/ noted[j].marks = {Note}
                  \/ \E i \in 1 .. Len(body) : /\ noted[j].field = body[i].field
                                               /\ noted[j].marks \subseteq body[i].marks \cup {Note}
           /\ \E j \in 1 .. Len(noted) : Note \in noted[j].marks
           /\ \A i \in 1 .. Len(body) :
                  body[i].field \notin SystemFields => \E j \in 1 .. Len(noted) : noted[j] = body[i]
<1> DEFINE noted == Noted(transform, body)
           last == LastSystem(body)
<1>1. Len(body) \in Nat /\ last \in 0 .. Len(body)
  BY LenProperties, LastSystemPlace
<1>2. ASSUME NEW at \in 1 .. Len(body), body[at].field \in SystemFields, noted = Appended(body, at)
      PROVE  /\ noted \in Seq(Items)
             /\ \A j \in 1 .. Len(noted) :
                    \E i \in 1 .. Len(body) : /\ noted[j].field = body[i].field
                                              /\ noted[j].marks \subseteq body[i].marks \cup {Note}
             /\ \E j \in 1 .. Len(noted) : Note \in noted[j].marks
             /\ \A i \in 1 .. Len(body) :
                    body[i].field \notin SystemFields => \E j \in 1 .. Len(noted) : noted[j] = body[i]
  <2> HIDE DEF noted
  <2>1. /\ noted \in Seq(Items) /\ Len(noted) = Len(body)
        /\ \A i \in 1 .. Len(body) : noted[i] = IF i = at THEN Item(body[at].field, body[at].marks \cup {Note})
                                               ELSE body[i]
    BY <1>2, AppendedPoints
  <2>2. noted[at].field = body[at].field /\ noted[at].marks = body[at].marks \cup {Note}
    BY <2>1 DEF Item
  <2>3. \A j \in 1 .. Len(body) : j # at => noted[j] = body[j]
    BY <2>1
  <2>4. \A j \in 1 .. Len(noted) : /\ noted[j].field = body[j].field
                                   /\ noted[j].marks \subseteq body[j].marks \cup {Note}
    BY <2>1, <2>2, <2>3
  <2>5. Note \in noted[at].marks
    BY <2>2
  <2>6. \A i \in 1 .. Len(body) : body[i].field \notin SystemFields => noted[i] = body[i]
    BY <1>2, <2>3
  <2> QED BY <2>1, <2>4, <2>5, <2>6
<1>3. ASSUME NEW field \in SystemFields, noted = NoteBehind(body, last, field)
      PROVE  /\ noted \in Seq(Items)
             /\ \A j \in 1 .. Len(noted) :
                    noted[j].marks = {Note} \/ \E i \in 1 .. Len(body) : noted[j] = body[i]
             /\ \E j \in 1 .. Len(noted) : Note \in noted[j].marks
             /\ \A i \in 1 .. Len(body) : \E j \in 1 .. Len(noted) : noted[j] = body[i]
  <2> HIDE DEF noted, last
  <2>1. /\ noted \in Seq(Items) /\ Len(noted) = Len(body) + 1
        /\ \A i \in 1 .. Len(body) + 1 : noted[i] = IF i <= last THEN body[i]
                                                   ELSE IF i = last + 1 THEN Item(field, {Note}) ELSE body[i - 1]
    BY <1>1, <1>3, NoteBehindPoints
  <2>2. last + 1 \in 1 .. Len(body) + 1 /\ noted[last + 1].marks = {Note}
    BY <1>1, <2>1 DEF Item
  <2>3. ASSUME NEW j \in 1 .. Len(body) + 1, j # last + 1
        PROVE  \E i \in 1 .. Len(body) : noted[j] = body[i]
    <3>1. CASE j <= last
      BY <1>1, <2>1, <3>1
    <3>2. CASE ~(j <= last)
      <4>1. j - 1 \in 1 .. Len(body) /\ noted[j] = body[j - 1]
        BY <1>1, <2>1, <2>3, <3>2
      <4> QED BY <4>1
    <3> QED BY <3>1, <3>2
  <2>4. ASSUME NEW i \in 1 .. Len(body)
        PROVE  \E j \in 1 .. Len(body) + 1 : noted[j] = body[i]
    <3>1. CASE i <= last
      BY <1>1, <2>1, <3>1
    <3>2. CASE ~(i <= last)
      <4>1. i + 1 \in 1 .. Len(body) + 1 /\ ~(i + 1 <= last) /\ i + 1 # last + 1 /\ (i + 1) - 1 = i
        BY <1>1, <3>2
      <4>2. noted[i + 1] = body[i]
        BY <2>1, <4>1
      <4> QED BY <4>1, <4>2
    <3> QED BY <3>1, <3>2
  <2>5. \A j \in 1 .. Len(noted) : noted[j].marks = {Note} \/ \E i \in 1 .. Len(body) : noted[j] = body[i]
    BY <2>1, <2>2, <2>3
  <2>6. Note \in noted[last + 1].marks
    BY <2>2
  <2> QED BY <2>1, <2>2, <2>4, <2>5, <2>6
<1>4. ASSUME noted = body, NEW i \in 1 .. last, body[i].marks = {Note}
      PROVE  /\ \E j \in 1 .. Len(body) : Note \in body[j].marks
             /\ \A j \in 1 .. Len(body) : /\ body[j].field = body[j].field
                                          /\ body[j].marks \subseteq body[j].marks \cup {Note}
  <2>1. i \in 1 .. Len(body)
    BY <1>1
  <2> QED BY <1>4, <2>1
<1>5. \/ \E at \in 1 .. Len(body) : body[at].field \in SystemFields /\ noted = Appended(body, at)
      \/ \E field \in SystemFields : noted = NoteBehind(body, last, field)
      \/ noted = body /\ \E i \in 1 .. last : body[i].marks = {Note}
  BY NotedKinds
<1> HIDE DEF noted, last
<1>6. CASE \E at \in 1 .. Len(body) : body[at].field \in SystemFields /\ noted = Appended(body, at)
  BY <1>2, <1>6 DEF noted
<1>7. CASE \E field \in SystemFields : noted = NoteBehind(body, last, field)
  <2>1. PICK field \in SystemFields : noted = NoteBehind(body, last, field)
    BY <1>7
  <2>2. \A j \in 1 .. Len(noted) :
            \/ noted[j].marks = {Note}
            \/ \E i \in 1 .. Len(body) : /\ noted[j].field = body[i].field
                                         /\ noted[j].marks \subseteq body[i].marks \cup {Note}
    BY <1>3, <2>1
  <2> QED BY <1>3, <2>1, <2>2 DEF noted
<1>8. CASE noted = body /\ \E i \in 1 .. last : body[i].marks = {Note}
  BY <1>4, <1>8 DEF noted
<1> QED BY <1>5, <1>6, <1>7, <1>8

\* The note stays where it is when a body grows by an item that is no system item.
LEMMA LastSystemStays ==
    ASSUME NEW body \in Seq(Items), NEW x \in Items, x.field \notin SystemFields
    PROVE  LastSystem(Append(body, x)) = LastSystem(body)
<1> DEFINE long == Append(body, x)
<1>1. /\ Len(body) \in Nat /\ long \in Seq(Items) /\ Len(long) = Len(body) + 1
      /\ \A i \in 1 .. Len(body) : long[i] = body[i]
      /\ long[Len(body) + 1] = x
  BY LenProperties, AppendProperties
<1> HIDE DEF long
<1>2. \/ LastSystem(body) = 0 /\ \A i \in 1 .. Len(body) : body[i].field \notin SystemFields
      \/ /\ LastSystem(body) \in 1 .. Len(body) /\ body[LastSystem(body)].field \in SystemFields
         /\ \A i \in 1 .. Len(body) : body[i].field \in SystemFields => i <= LastSystem(body)
  BY LastSystemPlace
<1>3. \/ LastSystem(long) = 0 /\ \A i \in 1 .. Len(long) : long[i].field \notin SystemFields
      \/ /\ LastSystem(long) \in 1 .. Len(long) /\ long[LastSystem(long)].field \in SystemFields
         /\ \A i \in 1 .. Len(long) : long[i].field \in SystemFields => i <= LastSystem(long)
  BY <1>1, LastSystemPlace
<1>4. \A i \in 1 .. Len(long) : long[i].field \in SystemFields => i \in 1 .. Len(body) /\ body[i].field \in SystemFields
  <2>1. \A i \in 1 .. Len(long) : i \in 1 .. Len(body) \/ i = Len(body) + 1
    BY <1>1
  <2> QED BY <1>1, <2>1
<1>5. \A i \in 1 .. Len(body) : body[i].field \in SystemFields => i \in 1 .. Len(long) /\ long[i].field \in SystemFields
  BY <1>1
<1>6. LastSystem(long) = LastSystem(body)
  <2>1. CASE LastSystem(body) = 0 /\ \A i \in 1 .. Len(body) : body[i].field \notin SystemFields
    BY <1>3, <1>4, <2>1
  <2>2. CASE /\ LastSystem(body) \in 1 .. Len(body) /\ body[LastSystem(body)].field \in SystemFields
             /\ \A i \in 1 .. Len(body) : body[i].field \in SystemFields => i <= LastSystem(body)
    <3>1. LastSystem(body) \in 1 .. Len(long) /\ long[LastSystem(body)].field \in SystemFields
      BY <1>5, <2>2
    <3>2. /\ LastSystem(long) \in 1 .. Len(long) /\ long[LastSystem(long)].field \in SystemFields
          /\ LastSystem(body) <= LastSystem(long)
      BY <1>3, <3>1
    <3>3. LastSystem(long) <= LastSystem(body)
      BY <1>4, <2>2, <3>2
    <3>4. LastSystem(long) \in Nat /\ LastSystem(body) \in Nat
      BY <1>1, <2>2, <3>2
    <3> QED BY <3>2, <3>3, <3>4
  <2> QED BY <1>2, <2>1, <2>2
<1> QED BY <1>6 DEF long

LEMMA NotedAppend ==
    ASSUME NEW transform \in Transforms, NEW body \in Seq(Items), SystemFirst(transform, body),
           NEW x \in Items, x.field \notin SystemFields
    PROVE  /\ Noted(transform, Append(body, x)) = Append(Noted(transform, body), x)
           /\ SystemFirst(transform, Append(body, x))
<1> DEFINE long == Append(body, x)
           last == LastSystem(body)
<1>1. /\ Len(body) \in Nat /\ long \in Seq(Items) /\ Len(long) = Len(body) + 1
      /\ \A i \in 1 .. Len(body) : long[i] = body[i]
      /\ long[Len(body) + 1] = x
  BY LenProperties, AppendProperties
<1>2. LastSystem(long) = last
  BY LastSystemStays
<1>3. \/ last = 0
      \/ last \in 1 .. Len(body) /\ body[last].field \in SystemFields
  BY LastSystemPlace
<1> HIDE DEF long, last
<1>4. ASSUME NEW at \in 1 .. Len(body), body[at].field \in SystemFields
      PROVE  Appended(long, at) = Append(Appended(body, at), x)
  <2> DEFINE s == Appended(body, at)
             t == Append(s, x)
  <2>1. /\ s \in Seq(Items) /\ Len(s) = Len(body)
        /\ \A i \in 1 .. Len(body) : s[i] = IF i = at THEN Item(body[at].field, body[at].marks \cup {Note})
                                           ELSE body[i]
    BY <1>4, AppendedPoints
  <2> HIDE DEF s
  <2>2. /\ t \in Seq(Items) /\ Len(t) = Len(body) + 1
        /\ \A i \in 1 .. Len(body) : t[i] = s[i]
        /\ t[Len(body) + 1] = x
    BY <2>1, AppendProperties
  <2> HIDE DEF t
  <2>3. at \in 1 .. Len(long) /\ long[at] = body[at]
    BY <1>1
  <2>4. /\ Appended(long, at) \in Seq(Items) /\ Len(Appended(long, at)) = Len(long)
        /\ \A i \in 1 .. Len(long) :
               Appended(long, at)[i] = IF i = at THEN Item(long[at].field, long[at].marks \cup {Note}) ELSE long[i]
    BY <1>1, <1>4, <2>3, AppendedPoints
  <2>5. ASSUME NEW i \in 1 .. Len(long) PROVE Appended(long, at)[i] = t[i]
    <3>1. CASE i \in 1 .. Len(body)
      BY <1>1, <2>1, <2>2, <2>3, <2>4, <3>1
    <3>2. CASE i = Len(body) + 1
      <4>1. i # at
        BY <1>1, <3>2
      <4> QED BY <1>1, <2>2, <2>4, <3>2, <4>1
    <3>3. i \in 1 .. Len(body) \/ i = Len(body) + 1
      BY <1>1
    <3> QED BY <3>1, <3>2, <3>3
  <2>6. Appended(long, at) = t
    BY <1>1, <2>2, <2>4, <2>5, SeqEqual
  <2> QED BY <2>6 DEF t, s
<1>5. ASSUME NEW field \in SystemFields
      PROVE  NoteBehind(long, last, field) = Append(NoteBehind(body, last, field), x)
  <2> DEFINE s == NoteBehind(body, last, field)
             t == Append(s, x)
             u == NoteBehind(long, last, field)
  <2>0. last \in 0 .. Len(body) /\ last \in 0 .. Len(long)
    BY <1>1, <1>3
  <2>1. /\ s \in Seq(Items) /\ Len(s) = Len(body) + 1
        /\ \A i \in 1 .. Len(body) + 1 : s[i] = IF i <= last THEN body[i]
                                               ELSE IF i = last + 1 THEN Item(field, {Note}) ELSE body[i - 1]
    BY <2>0, NoteBehindPoints
  <2>2. /\ u \in Seq(Items) /\ Len(u) = Len(long) + 1
        /\ \A i \in 1 .. Len(long) + 1 : u[i] = IF i <= last THEN long[i]
                                               ELSE IF i = last + 1 THEN Item(field, {Note}) ELSE long[i - 1]
    BY <1>1, <2>0, NoteBehindPoints
  <2> HIDE DEF s, u
  <2>3. /\ t \in Seq(Items) /\ Len(t) = Len(body) + 2
        /\ \A i \in 1 .. Len(body) + 1 : t[i] = s[i]
        /\ t[Len(body) + 2] = x
    BY <1>1, <2>1, AppendProperties
  <2> HIDE DEF t
  <2>4. ASSUME NEW i \in 1 .. Len(long) + 1 PROVE u[i] = t[i]
    <3>1. CASE i <= last
      <4>1. i \in 1 .. Len(body) /\ i \in 1 .. Len(body) + 1
        BY <1>1, <2>0, <3>1
      <4> QED BY <1>1, <2>1, <2>2, <2>3, <3>1, <4>1
    <3>2. CASE i = last + 1
      <4>1. i \in 1 .. Len(body) + 1 /\ ~(i <= last)
        BY <1>1, <2>0, <3>2
      <4> QED BY <2>1, <2>2, <2>3, <3>2, <4>1
    <3>3. CASE last + 1 < i /\ i # Len(body) + 2
      <4>1. i \in 1 .. Len(body) + 1 /\ i - 1 \in 1 .. Len(body) /\ ~(i <= last) /\ i # last + 1
        BY <1>1, <2>0, <3>3
      <4>2. u[i] = long[i - 1] /\ t[i] = body[i - 1]
        BY <2>1, <2>2, <2>3, <4>1
      <4> QED BY <1>1, <4>1, <4>2
    <3>4. CASE i = Len(body) + 2
      <4>1. i - 1 = Len(body) + 1 /\ ~(i <= last) /\ i # last + 1
        BY <1>1, <2>0, <3>4
      <4>2. u[i] = long[i - 1]
        BY <2>2, <4>1
      <4> QED BY <1>1, <2>3, <3>4, <4>1, <4>2
    <3> QED BY <1>1, <2>0, <3>1, <3>2, <3>3, <3>4
  <2>5. Len(u) = Len(t)
    BY <1>1, <2>2, <2>3
  <2>6. u = t
    BY <2>2, <2>3, <2>4, <2>5, SeqEqual
  <2> QED BY <2>6 DEF t, s, u
<1>6. (last = 0 <=> LastSystem(long) = 0) /\ (last # 0 => long[last] = body[last])
      /\ \A i \in 1 .. last : long[i] = body[i]
  <2>1. \A i \in 1 .. last : i \in 1 .. Len(body)
    BY <1>1, <1>3
  <2> QED BY <1>1, <1>2, <1>3, <2>1
<1>7. SystemFirst(transform, long)
  <2>1. transform = "responses" /\ last # 0 => 1 \in 1 .. Len(body) /\ body[1].field \in SystemFields
    BY <1>1, <1>3 DEF SystemFirst, last
  <2> QED BY <1>1, <1>2, <2>1 DEF SystemFirst
<1>8. "system" \in SystemFields /\ "system part" \in SystemFields
  BY DEF SystemFields
<1>9. Noted(transform, long) = Append(Noted(transform, body), x)
  <2>1. CASE transform = "anthropic_messages"
    <3>1. Noted(transform, long) = AnthropicNote(long) /\ Noted(transform, body) = AnthropicNote(body)
      BY <2>1 DEF Noted
    <3>2. CASE last # 0 /\ body[last].field = "system"
      <4>1. AnthropicNote(long) = Appended(long, last) /\ AnthropicNote(body) = Appended(body, last)
        BY <1>2, <1>6, <3>2 DEF AnthropicNote, last
      <4> QED BY <1>3, <1>4, <3>1, <3>2, <4>1
    <3>3. CASE ~(last # 0 /\ body[last].field = "system") /\ \E i \in 1 .. last : body[i].marks = {Note}
      <4>1. AnthropicNote(body) = body
        BY <3>3 DEF AnthropicNote, last
      <4>2. ~(last # 0 /\ long[last].field = "system") /\ \E i \in 1 .. last : long[i].marks = {Note}
        BY <1>6, <3>3
      <4>3. AnthropicNote(long) = long
        BY <1>2, <4>2 DEF AnthropicNote
      <4> QED BY <3>1, <4>1, <4>3 DEF long
    <3>4. CASE ~(last # 0 /\ body[last].field = "system") /\ ~ \E i \in 1 .. last : body[i].marks = {Note}
      <4> DEFINE field == IF last = 0 THEN "system" ELSE "system part"
      <4>1. AnthropicNote(body) = NoteBehind(body, last, field)
        BY <3>4 DEF AnthropicNote, last
      <4>2. ~(last # 0 /\ long[last].field = "system") /\ ~ \E i \in 1 .. last : long[i].marks = {Note}
        BY <1>6, <3>4
      <4>3. AnthropicNote(long) = NoteBehind(long, last, field)
        BY <1>2, <4>2 DEF AnthropicNote
      <4>4. field \in SystemFields
        BY <1>8
      <4> HIDE DEF field
      <4> QED BY <1>5, <3>1, <4>1, <4>3, <4>4
    <3> QED BY <3>2, <3>3, <3>4
  <2>2. CASE transform = "openai_chat"
    <3>1. Noted(transform, long) = ChatNote(long) /\ Noted(transform, body) = ChatNote(body)
      BY <2>2 DEF Noted
    <3>2. CASE last # 0 /\ body[last].field = "system"
      <4>1. ChatNote(long) = Appended(long, last) /\ ChatNote(body) = Appended(body, last)
        BY <1>2, <1>6, <3>2 DEF ChatNote, last
      <4> QED BY <1>3, <1>4, <3>1, <3>2, <4>1
    <3>3. CASE ~(last # 0 /\ body[last].field = "system")
      <4>1. ChatNote(body) = NoteBehind(body, last, "system")
        BY <3>3 DEF ChatNote, last
      <4>2. ~(last # 0 /\ long[last].field = "system")
        BY <1>6, <3>3
      <4>3. ChatNote(long) = NoteBehind(long, last, "system")
        BY <1>2, <4>2 DEF ChatNote
      <4> QED BY <1>5, <1>8, <3>1, <4>1, <4>3
    <3> QED BY <3>2, <3>3
  <2>3. CASE transform = "responses"
    <3>1. Noted(transform, long) = ResponsesNote(long) /\ Noted(transform, body) = ResponsesNote(body)
      BY <2>3 DEF Noted
    <3>2. CASE last = 0
      <4>1. ResponsesNote(body) = NoteBehind(body, last, "system") /\ ResponsesNote(long) = NoteBehind(long, last, "system")
        BY <1>2, <3>2 DEF ResponsesNote, last
      <4> QED BY <1>5, <1>8, <3>1, <4>1
    <3>3. CASE last # 0
      <4>1. ResponsesNote(body) = Appended(body, 1) /\ ResponsesNote(long) = Appended(long, 1)
        BY <1>2, <3>3 DEF ResponsesNote, last
      <4>2. 1 \in 1 .. Len(body) /\ body[1].field \in SystemFields
        BY <1>1, <1>3, <2>3, <3>3 DEF SystemFirst, last
      <4> QED BY <1>4, <3>1, <4>1, <4>2
    <3> QED BY <3>2, <3>3
  <2> QED BY <2>1, <2>2, <2>3 DEF Transforms
<1> QED BY <1>7, <1>9 DEF long

-----------------------------------------------------------------------------
(* A conversation without late system messages                             *)

Plain(item) == item.field \notin SystemFields /\ Note \notin item.marks

\* The system prompt, nothing, a string or one or two blocks, and plain items behind it.
HeadIs(transform, body, n) ==
    /\ n <= Len(body) /\ \A i \in n + 1 .. Len(body) : Plain(body[i])
    /\ n = 1 => \/ body[1].field = "system"
                \/ body[1].field = "system part" /\ Note \notin body[1].marks
    /\ n = 2 => /\ transform # "responses"
                /\ body[1].field = "system part" /\ Note \notin body[1].marks
                /\ body[2].field = "system part" /\ body[2].marks = {Note}

Headed(transform, body) == \E n \in 0 .. 2 : HeadIs(transform, body, n)

LEMMA HeadIsLast ==
    ASSUME NEW transform, NEW body \in Seq(Items), NEW n \in 0 .. 2, HeadIs(transform, body, n)
    PROVE  /\ LastSystem(body) = n
           /\ SystemFirst(transform, body)
<1>1. Len(body) \in Nat
  BY LenProperties
<1>2. \/ LastSystem(body) = 0 /\ \A i \in 1 .. Len(body) : body[i].field \notin SystemFields
      \/ /\ LastSystem(body) \in 1 .. Len(body) /\ body[LastSystem(body)].field \in SystemFields
         /\ \A i \in 1 .. Len(body) : body[i].field \in SystemFields => i <= LastSystem(body)
  BY LastSystemPlace
<1>3. n <= Len(body) /\ \A i \in n + 1 .. Len(body) : body[i].field \notin SystemFields
  BY DEF HeadIs, Plain
<1>5. n # 0 => n \in 1 .. Len(body) /\ body[n].field \in SystemFields /\ body[1].field \in SystemFields
  <2>1. n = 0 \/ n = 1 \/ n = 2
    OBVIOUS
  <2>2. n # 0 => n \in 1 .. Len(body)
    BY <1>1, <1>3
  <2>3. n = 1 => body[1].field \in SystemFields
    BY DEF HeadIs, SystemFields
  <2>4. n = 2 => body[1].field \in SystemFields /\ body[2].field \in SystemFields
    BY DEF HeadIs, SystemFields
  <2> QED BY <2>1, <2>2, <2>3, <2>4
<1>4. LastSystem(body) = n
  <2>1. CASE n = 0
    <3>1. \A i \in 1 .. Len(body) : body[i].field \notin SystemFields
      BY <1>3, <2>1
    <3> QED BY <1>2, <2>1, <3>1
  <2>2. CASE n # 0
    <3>1. LastSystem(body) \in 1 .. Len(body) /\ n <= LastSystem(body) /\ body[LastSystem(body)].field \in SystemFields
      BY <1>2, <1>5, <2>2
    <3>2. ~(LastSystem(body) \in n + 1 .. Len(body))
      BY <1>3, <3>1
    <3> QED BY <1>1, <3>1, <3>2
  <2> QED BY <2>1, <2>2
<1> QED BY <1>4, <1>5 DEF SystemFirst

\* Masks leave the head of a body as it is.
LEMMA MaskedHead ==
    ASSUME NEW transform \in Transforms, NEW body \in Seq(Items), NEW n \in 0 .. 2, HeadIs(transform, body, n)
    PROVE  HeadIs(transform, MaskedBody(transform, body), n)
<1> DEFINE masked == MaskedBody(transform, body)
<1>1. /\ Len(body) \in Nat /\ Len(masked) = Len(body)
      /\ \A i \in 1 .. Len(body) : body[i] \in Items /\ masked[i] = MaskOf(transform, body[i])
  BY MaskedBodyPoints, LenProperties, ElementOfSeq
<1> HIDE DEF masked
<1>2. \A i \in 1 .. Len(body) : /\ masked[i].field = body[i].field
                                /\ Note \in masked[i].marks <=> Note \in body[i].marks
  BY <1>1, MaskOfItem
<1>3. n <= Len(masked) /\ \A i \in n + 1 .. Len(masked) : Plain(masked[i])
  <2>1. \A i \in n + 1 .. Len(body) : i \in 1 .. Len(body)
    BY <1>1
  <2>2. n <= Len(body) /\ \A i \in n + 1 .. Len(body) : Plain(body[i])
    BY DEF HeadIs
  <2> QED BY <1>1, <1>2, <2>1, <2>2 DEF Plain
<1>4. CASE n = 0
  BY <1>3, <1>4 DEF HeadIs, masked
<1>5. CASE n = 1
  <2>1. 1 \in 1 .. Len(body)
    BY <1>1, <1>3, <1>5
  <2>2. body[1].field = "system" \/ (body[1].field = "system part" /\ Note \notin body[1].marks)
    BY <1>5 DEF HeadIs
  <2>3. masked[1].field = "system" \/ (masked[1].field = "system part" /\ Note \notin masked[1].marks)
    BY <1>2, <2>1, <2>2
  <2> QED BY <1>3, <1>5, <2>3 DEF HeadIs, masked
<1>6. CASE n = 2
  <2>1. 1 \in 1 .. Len(body) /\ 2 \in 1 .. Len(body)
    BY <1>1, <1>3, <1>6
  <2>2. /\ transform # "responses"
        /\ body[1].field = "system part" /\ Note \notin body[1].marks
        /\ body[2].field = "system part" /\ body[2].marks = {Note}
    BY <1>6 DEF HeadIs
  <2>3. Masked({Note}) = {Note}
    BY DEF Masked
  <2>4. masked[2].marks = {Note}
    <3>1. body[2].field \in PromisedOf(transform)
      BY <2>2 DEF PromisedOf, Transforms
    <3>2. MaskOf(transform, body[2]) = Item(body[2].field, Masked(body[2].marks))
      BY <1>1, <2>1, <3>1, MaskOfItem
    <3>3. Item(body[2].field, Masked(body[2].marks)).marks = {Note}
      BY <2>2, <2>3 DEF Item
    <3> QED BY <1>1, <2>1, <3>2, <3>3
  <2>5. masked[1].field = "system part" /\ Note \notin masked[1].marks /\ masked[2].field = "system part"
    BY <1>2, <2>1, <2>2
  <2> QED BY <1>3, <1>6, <2>2, <2>4, <2>5 DEF HeadIs, masked
<1> QED BY <1>4, <1>5, <1>6

\* Plain items leave the head of a body as it is.
LEMMA HeadAppend ==
    ASSUME NEW transform, NEW body \in Seq(Items), Headed(transform, body), NEW x \in Items, Plain(x)
    PROVE  Headed(transform, Append(body, x))
<1>1. PICK n \in 0 .. 2 : HeadIs(transform, body, n)
  BY DEF Headed
<1> DEFINE long == Append(body, x)
<1>2. /\ Len(body) \in Nat /\ Len(long) = Len(body) + 1
      /\ \A i \in 1 .. Len(body) : long[i] = body[i]
      /\ long[Len(body) + 1] = x
  BY LenProperties, AppendProperties
<1> HIDE DEF long
<1>3. n <= Len(long) /\ \A i \in n + 1 .. Len(long) : Plain(long[i])
  <2>1. n <= Len(body) /\ \A i \in n + 1 .. Len(body) : Plain(body[i])
    BY <1>1 DEF HeadIs
  <2>2. \A i \in n + 1 .. Len(long) : i = Len(body) + 1 \/ (i \in n + 1 .. Len(body) /\ i \in 1 .. Len(body))
    BY <1>2, <2>1
  <2> QED BY <1>2, <2>1, <2>2
<1>4. \A i \in 1 .. n : long[i] = body[i]
  <2>1. n <= Len(body)
    BY <1>1 DEF HeadIs
  <2>2. \A i \in 1 .. n : i \in 1 .. Len(body)
    BY <1>2, <2>1
  <2> QED BY <1>2, <2>2
<1>5. HeadIs(transform, long, n)
  <2>1. CASE n = 0
    BY <1>3, <2>1 DEF HeadIs
  <2>2. CASE n = 1
    <3>1. long[1] = body[1]
      BY <1>4, <2>2
    <3> QED BY <1>1, <1>3, <2>2, <3>1 DEF HeadIs
  <2>3. CASE n = 2
    <3>1. long[1] = body[1] /\ long[2] = body[2]
      BY <1>4, <2>3
    <3> QED BY <1>1, <1>3, <2>3, <3>1 DEF HeadIs
  <2> QED BY <2>1, <2>2, <2>3
<1> QED BY <1>5 DEF Headed, long

\* With a head that is whole there is one note, but in a chat whose prompt is in blocks.
LEMMA NoteIsAlone ==
    ASSUME NEW transform \in Transforms, NEW body \in Seq(Items), Headed(transform, body)
    PROVE  LET noted == Noted(transform, body) IN
           \/ \E k \in 1 .. Len(noted) : \A j \in 1 .. Len(noted) : Note \in noted[j].marks => j = k
           \/ transform = "openai_chat" /\ noted[1].field = "system part"
<1> DEFINE noted == Noted(transform, body)
           Alone == \E k \in 1 .. Len(noted) : \A j \in 1 .. Len(noted) : Note \in noted[j].marks => j = k
<1>1. PICK n \in 0 .. 2 : HeadIs(transform, body, n)
  BY DEF Headed
<1>2. /\ Len(body) \in Nat /\ LastSystem(body) = n /\ SystemFirst(transform, body)
      /\ \A i \in 1 .. Len(body) : body[i] \in Items
  BY <1>1, LenProperties, ElementOfSeq, HeadIsLast
<1>3. n <= Len(body) /\ \A i \in n + 1 .. Len(body) : Note \notin body[i].marks
  BY <1>1 DEF HeadIs, Plain
<1>4. "system" \in SystemFields /\ "system part" \in SystemFields
  BY DEF SystemFields
<1>5. ASSUME NEW field \in SystemFields, noted = NoteBehind(body, n, field),
             \A i \in 1 .. n : Note \notin body[i].marks
      PROVE  Alone
  <2> HIDE DEF noted
  <2>1. n \in 0 .. Len(body)
    BY <1>2, <1>3
  <2>2. /\ Len(noted) = Len(body) + 1
        /\ \A i \in 1 .. Len(body) + 1 : noted[i] = IF i <= n THEN body[i]
                                                   ELSE IF i = n + 1 THEN Item(field, {Note}) ELSE body[i - 1]
    BY <1>5, <2>1, NoteBehindPoints
  <2>3. ASSUME NEW j \in 1 .. Len(noted), j # n + 1 PROVE Note \notin noted[j].marks
    <3>1. CASE j <= n
      <4>1. j \in 1 .. n /\ noted[j] = body[j]
        BY <2>1, <2>2, <3>1
      <4> QED BY <1>5, <4>1
    <3>2. CASE ~(j <= n)
      <4>1. j - 1 \in n + 1 .. Len(body) /\ noted[j] = body[j - 1]
        BY <1>2, <2>1, <2>2, <2>3, <3>2
      <4> QED BY <1>3, <4>1
    <3> QED BY <3>1, <3>2
  <2>4. n + 1 \in 1 .. Len(noted)
    BY <1>2, <2>1, <2>2
  <2> QED BY <2>3, <2>4
<1>6. ASSUME n = 1, noted = Appended(body, 1), body[1].field \in SystemFields PROVE Alone
  <2> HIDE DEF noted
  <2>1. 1 \in 1 .. Len(body)
    BY <1>2, <1>3, <1>6
  <2>2. /\ Len(noted) = Len(body)
        /\ \A i \in 1 .. Len(body) : i # 1 => noted[i] = body[i]
    BY <1>6, <2>1, AppendedPoints
  <2>3. \A j \in 1 .. Len(noted) : j # 1 => j \in n + 1 .. Len(body)
    BY <1>2, <1>6, <2>2
  <2>4. \A j \in 1 .. Len(noted) : Note \in noted[j].marks => j = 1
    BY <1>3, <2>2, <2>3
  <2> QED BY <2>1, <2>2, <2>4
<1>7. CASE n = 0
  <2>1. ~ \E i \in 1 .. n : body[i].marks = {Note}
    BY <1>7
  <2>2. noted = NoteBehind(body, n, "system")
    <3>1. CASE transform = "anthropic_messages"
      BY <1>2, <1>7, <2>1, <3>1 DEF Noted, AnthropicNote
    <3>2. CASE transform = "openai_chat"
      BY <1>2, <1>7, <3>2 DEF Noted, ChatNote
    <3>3. CASE transform = "responses"
      BY <1>2, <1>7, <3>3 DEF Noted, ResponsesNote
    <3> QED BY <3>1, <3>2, <3>3 DEF Transforms
  <2>3. \A i \in 1 .. n : Note \notin body[i].marks
    BY <1>7
  <2> HIDE DEF noted
  <2> QED BY <1>4, <1>5, <2>2, <2>3 DEF noted
<1>8. CASE n = 1 /\ body[1].field = "system"
  <2>1. noted = Appended(body, 1)
    <3>1. CASE transform = "anthropic_messages"
      BY <1>2, <1>8, <3>1 DEF Noted, AnthropicNote
    <3>2. CASE transform = "openai_chat"
      BY <1>2, <1>8, <3>2 DEF Noted, ChatNote
    <3>3. CASE transform = "responses"
      BY <1>2, <1>8, <3>3 DEF Noted, ResponsesNote
    <3> QED BY <3>1, <3>2, <3>3 DEF Transforms
  <2> HIDE DEF noted
  <2> QED BY <1>4, <1>6, <1>8, <2>1 DEF noted
<1>9. CASE n = 1 /\ body[1].field = "system part" /\ Note \notin body[1].marks
  <2>a. n = 1
    BY <1>9, Zenon
  <2>b. body[1].field # "system"
    BY <1>9
  <2>0. n = 1 /\ 1 # 0 /\ LastSystem(body) = 1 /\ body[1].field # "system"
    BY <1>2, <2>a, <2>b
  <2>1. \A i \in 1 .. n : i = 1
    BY <2>0
  <2>2. (\A i \in 1 .. n : Note \notin body[i].marks) /\ ~ \E i \in 1 .. n : body[i].marks = {Note}
    BY <1>9, <2>1
  <2>3. CASE transform = "anthropic_messages"
    <3>1. noted = NoteBehind(body, n, "system part")
      BY <2>0, <2>2, <2>3 DEF Noted, AnthropicNote
    <3> HIDE DEF noted
    <3> QED BY <1>4, <1>5, <2>2, <3>1 DEF noted
  <2>4. CASE transform = "openai_chat"
    <3>1. noted = NoteBehind(body, n, "system")
      BY <2>0, <2>4 DEF Noted, ChatNote
    <3> HIDE DEF noted
    <3> QED BY <1>4, <1>5, <2>2, <3>1 DEF noted
  <2>5. CASE transform = "responses"
    <3>1. noted = Appended(body, 1)
      BY <2>0, <2>5 DEF Noted, ResponsesNote
    <3> HIDE DEF noted
    <3> QED BY <1>4, <1>6, <1>9, <3>1 DEF noted
  <2> QED BY <2>3, <2>4, <2>5 DEF Transforms
<1>10. CASE n = 2
  <2>1. /\ transform # "responses"
        /\ body[1].field = "system part" /\ Note \notin body[1].marks
        /\ body[2].field = "system part" /\ body[2].marks = {Note}
    BY <1>1, <1>10 DEF HeadIs
  <2>2. 1 \in 1 .. Len(body) /\ 2 \in 1 .. Len(body)
    BY <1>2, <1>3, <1>10
  <2>3. CASE transform = "anthropic_messages"
    <3>1. \E i \in 1 .. n : body[i].marks = {Note}
      <4>1. 2 \in 1 .. n
        BY <1>10
      <4> QED BY <2>1, <4>1
    <3>2. noted = body
      BY <1>2, <1>10, <2>1, <2>3, <3>1 DEF Noted, AnthropicNote
    <3>3. \A j \in 1 .. Len(body) : j = 1 \/ j = 2 \/ j \in n + 1 .. Len(body)
      BY <1>2, <1>10
    <3>4. \A j \in 1 .. Len(body) : Note \in body[j].marks => j = 2
      BY <1>3, <2>1, <3>3
    <3> HIDE DEF noted
    <3> QED BY <2>2, <3>2, <3>4 DEF noted
  <2>4. CASE transform = "openai_chat"
    <3>1. noted = NoteBehind(body, 2, "system")
      BY <1>2, <1>10, <2>1, <2>4 DEF Noted, ChatNote
    <3> HIDE DEF noted
    <3>2. 2 \in 0 .. Len(body) /\ 1 \in 1 .. Len(body) + 1 /\ 1 <= 2
      BY <1>2, <2>2
    <3>3. noted[1] = body[1]
      BY <1>4, <3>1, <3>2, NoteBehindPoints
    <3> QED BY <2>1, <2>4, <3>3 DEF noted
  <2> QED BY <2>1, <2>3, <2>4 DEF Transforms
<1>11. n = 0 \/ n = 1 \/ n = 2
  OBVIOUS
<1>12. n = 1 => body[1].field = "system" \/ (body[1].field = "system part" /\ Note \notin body[1].marks)
  BY <1>1 DEF HeadIs
<1> QED BY <1>7, <1>8, <1>9, <1>10, <1>11, <1>12

LEMMA PrefixPoints ==
    ASSUME NEW S, NEW s \in Seq(S), NEW t \in Seq(S)
    PROVE  IsPrefix(s, t) <=> Len(s) <= Len(t) /\ \A i \in 1 .. Len(s) : s[i] = t[i]
<1>1. /\ Len(s) \in Nat /\ Len(t) \in Nat
      /\ \A i \in 1 .. Len(s) : s[i] \in S
      /\ \A i \in 1 .. Len(t) : t[i] \in S
  BY LenProperties, ElementOfSeq
<1> DEFINE a == SubSeq(s, 1, Len(s))
           b == SubSeq(t, 1, Len(s))
<1>2. a \in Seq(S) /\ Len(a) = Len(s) /\ \A i \in 1 .. Len(s) : a[i] = s[i]
  BY <1>1, SubSeqProperties
<1>3. CASE Len(s) <= Len(t)
  <2>1. \A i \in 1 .. Len(s) : t[i] \in S
    BY <1>1, <1>3
  <2>2. b \in Seq(S) /\ Len(b) = Len(s) /\ \A i \in 1 .. Len(s) : b[i] = t[i]
    BY <1>1, <2>1, SubSeqProperties
  <2> HIDE DEF a, b
  <2>3. a = b => \A i \in 1 .. Len(s) : s[i] = t[i]
    BY <1>2, <2>2
  <2>4. (\A i \in 1 .. Len(s) : s[i] = t[i]) => a = b
    <3>1. SUFFICES ASSUME \A i \in 1 .. Len(s) : s[i] = t[i] PROVE a = b
      OBVIOUS
    <3>2. Len(a) = Len(b) /\ \A i \in 1 .. Len(a) : a[i] = b[i]
      BY <1>2, <2>2, <3>1
    <3> QED BY <1>2, <2>2, <3>2, SeqEqual
  <2> QED BY <1>3, <2>3, <2>4 DEF IsPrefix, a, b
<1>4. CASE ~(Len(s) <= Len(t))
  BY <1>4 DEF IsPrefix
<1> QED BY <1>3, <1>4

LEMMA PrefixOfAppend ==
    ASSUME NEW S, NEW s \in Seq(S), NEW t \in Seq(S), NEW x \in S, IsPrefix(s, t)
    PROVE  IsPrefix(s, Append(t, x))
<1> DEFINE long == Append(t, x)
<1>1. /\ Len(s) \in Nat /\ Len(t) \in Nat /\ long \in Seq(S) /\ Len(long) = Len(t) + 1
      /\ \A i \in 1 .. Len(t) : long[i] = t[i]
  BY LenProperties, AppendProperties
<1> HIDE DEF long
<1>2. Len(s) <= Len(t) /\ \A i \in 1 .. Len(s) : s[i] = t[i]
  BY PrefixPoints
<1>3. Len(s) <= Len(long) /\ \A i \in 1 .. Len(s) : s[i] = long[i]
  <2>1. \A i \in 1 .. Len(s) : i \in 1 .. Len(t)
    BY <1>1, <1>2
  <2> QED BY <1>1, <1>2, <2>1
<1>4. IsPrefix(s, long)
  BY <1>1, <1>3, PrefixPoints
<1> QED BY <1>4 DEF long

-----------------------------------------------------------------------------
(* The conversation                                                        *)

\* What a request would send of the thread.
Sent ==
    IF Route.transform = "passthrough" THEN thread ELSE Transformed(Route.transform, thread)

TypeInv ==
    /\ path \in Paths /\ thread \in Seq(Items) /\ turn \in {"client", "upstream"}
    /\ known \in SUBSET PII /\ bodies \in Seq(Seq(Items)) /\ late \in BOOLEAN

\* System messages that are late are of a chat; without them the thread has a head.
HeadInv == IF late THEN Family = "openai_chat" ELSE Headed(Family, thread)

\* Upstream answers what the thread still is.
LastInv == turn = "upstream" => bodies # <<>> /\ bodies[Len(bodies)] = Sent

\* The next request begins with the last one.
PrefixInv == ~late /\ bodies # <<>> => IsPrefix(bodies[Len(bodies)], Sent)

\* The thread has no token but of values it also has where they are masked, and the vault
\* has these when upstream answers.
TokenInv ==
    IsConversation =>
        \A i \in 1 .. Len(thread), v \in PII :
            <<v, "token">> \in thread[i].marks =>
                \E j \in 1 .. Len(thread) : v \in Found(Family, thread[j])

VaultInv ==
    IsConversation /\ turn = "upstream" =>
        \A j \in 1 .. Len(thread) : Found(Family, thread[j]) \subseteq known

\* What the client got of an answer: its value in clear, but in a text nobody restores.
Got(item, shown) ==
    \/ item.field = "reasoning" /\ shown.field = "reasoning"
    \/ /\ item.field \in {"answer", "call"}
       /\ \E v \in PII :
              /\ shown = Item(item.field, {<<v, "raw">>})
              /\ item \in {Item(item.field, {<<v, "raw">>}), Item(item.field, {<<v, "token">>})}

ToldInv ==
    /\ DOMAIN told \subseteq 1 .. Len(thread)
    /\ IsConversation => \A i \in DOMAIN told : Got(told[i], thread[i])

ThreadInv ==
    /\ TypeInv /\ HeadInv /\ LastInv /\ PrefixInv /\ TokenInv /\ VaultInv /\ ToldInv
    /\ PromisedIsHidden /\ NoteIsOnce /\ PrefixIsStable

\* A conversation is masked in the language of its body, and nothing else is masked.
LEMMA RouteIsFamily ==
    ASSUME path \in Paths
    PROVE  /\ Family \in Transforms /\ Promised = PromisedOf(Family)
           /\ IsConversation => Route.transform = Family
           /\ ~IsConversation => Route.transform = "passthrough"
<1>1. PICK prefix, rest : /\ path = <<prefix, rest>>
                          /\ <<prefix, rest>> \in Paths
  BY DEF Paths
<1>2. path[1] = prefix /\ path[2] = rest
  BY <1>1
<1>3. \/ prefix = "anthropic" /\ rest = "/v1/messages"
      \/ prefix = "anthropic" /\ rest = "/v1/messages/count_tokens"
      \/ prefix = "anthropic" /\ rest = "/api/"
      \/ prefix = "openai" /\ rest = "/v1/chat/completions"
      \/ prefix = "openai" /\ rest = "/v1/responses"
      \/ prefix = "openai" /\ rest = "/v1/embeddings"
      \/ prefix = "codex" /\ rest = "/v1/responses"
      \/ prefix = "codex" /\ rest = "/v1/models"
  BY <1>1 DEF Paths
<1>4. Family = CASE prefix = "anthropic" -> "anthropic_messages"
                 [] rest = "/v1/chat/completions" -> "openai_chat"
                 [] OTHER -> "responses"
  BY <1>2 DEF Family
<1>5. Family \in Transforms
  BY <1>3, <1>4 DEF Transforms
<1>6. Promised = PromisedOf(Family)
  BY <1>5 DEF Promised, PromisedOf, Transforms
<1>7. IsConversation <=> rest \notin {"/api/", "/v1/embeddings", "/v1/models"}
  BY <1>2 DEF IsConversation
<1>8. Route.transform = CASE prefix = "anthropic" /\ rest # "/api/" -> "anthropic_messages"
                          [] prefix = "openai" /\ rest = "/v1/chat/completions" -> "openai_chat"
                          [] prefix # "anthropic" /\ rest = "/v1/responses" -> "responses"
                          [] OTHER -> "passthrough"
  BY <1>2, <1>3 DEF Route, ProviderRoute, Match
<1> QED BY <1>3, <1>4, <1>5, <1>6, <1>7, <1>8

\* What a request sends: no promised value in clear, the note, and every item masked.
LEMMA SentItems ==
    ASSUME TypeInv, HeadInv
    PROVE  /\ Sent \in Seq(Items)
           /\ IsConversation =>
                  /\ Sent = Noted(Family, MaskedBody(Family, thread))
                  /\ SystemFirst(Family, MaskedBody(Family, thread))
                  /\ \A j \in 1 .. Len(Sent) : Sent[j].field \in Promised =>
                         ~ \E v \in PII : <<v, "raw">> \in Sent[j].marks
                  /\ \E j \in 1 .. Len(Sent) : Note \in Sent[j].marks
                  /\ \A i \in 1 .. Len(thread) : thread[i].field \notin SystemFields =>
                         \E j \in 1 .. Len(Sent) : Sent[j] = MaskOf(Family, thread[i])
                  /\ \A j \in 1 .. Len(Sent), v \in PII : <<v, "token">> \in Sent[j].marks =>
                         \E i \in 1 .. Len(thread) : <<v, "token">> \in MaskOf(Family, thread[i]).marks
                  /\ \/ \E k \in 1 .. Len(Sent) : \A j \in 1 .. Len(Sent) : Note \in Sent[j].marks => j = k
                     \/ late
                     \/ Family = "openai_chat" /\ Sent[1].field = "system part"
<1>0. path \in Paths /\ thread \in Seq(Items)
  BY DEF TypeInv
<1>1. CASE ~IsConversation
  <2>1. Sent = thread
    BY <1>0, <1>1, RouteIsFamily DEF Sent
  <2> QED BY <1>0, <1>1, <2>1
<1>2. CASE IsConversation
  <2> DEFINE masked == MaskedBody(Family, thread)
             sent == Noted(Family, masked)
  <2>1. Family \in Transforms /\ Promised = PromisedOf(Family) /\ Route.transform = Family
    BY <1>0, <1>2, RouteIsFamily
  <2>2. /\ masked \in Seq(Items) /\ Len(masked) = Len(thread) /\ Len(thread) \in Nat
        /\ \A i \in 1 .. Len(thread) : masked[i] = MaskOf(Family, thread[i]) /\ thread[i] \in Items
        /\ Transformed(Family, thread) = sent
    BY <1>0, <2>1, MaskedBodyPoints, LenProperties, ElementOfSeq
  <2>3. Sent = sent
    <3>1. Route.transform # "passthrough"
      BY <2>1 DEF Transforms
    <3> QED BY <2>1, <2>2, <3>1 DEF Sent
  <2> HIDE DEF masked
  <2>4. ~late => Headed(Family, masked)
    <3>1. SUFFICES ASSUME ~late PROVE Headed(Family, masked)
      OBVIOUS
    <3>2. PICK n \in 0 .. 2 : HeadIs(Family, thread, n)
      BY <3>1 DEF HeadInv, Headed
    <3>3. HeadIs(Family, masked, n)
      BY <1>0, <2>1, <3>2, MaskedHead DEF masked
    <3> QED BY <3>3 DEF Headed
  <2>5. SystemFirst(Family, masked)
    <3>1. CASE late
      BY <3>1 DEF HeadInv, SystemFirst
    <3>2. CASE ~late
      BY <2>1, <2>2, <2>4, <3>2, HeadIsLast DEF Headed
    <3> QED BY <3>1, <3>2
  <2>6. /\ sent \in Seq(Items)
        /\ \A j \in 1 .. Len(sent) :
               \/ sent[j].marks = {Note}
               \/ \E i \in 1 .. Len(masked) : /\ sent[j].field = masked[i].field
                                              /\ sent[j].marks \subseteq masked[i].marks \cup {Note}
        /\ \E j \in 1 .. Len(sent) : Note \in sent[j].marks
        /\ \A i \in 1 .. Len(masked) :
               masked[i].field \notin SystemFields => \E j \in 1 .. Len(sent) : sent[j] = masked[i]
    BY <2>1, <2>2, <2>5, NotedItems
  <2>7. ~late => \/ \E k \in 1 .. Len(sent) : \A j \in 1 .. Len(sent) : Note \in sent[j].marks => j = k
                 \/ Family = "openai_chat" /\ sent[1].field = "system part"
    BY <2>1, <2>2, <2>4, NoteIsAlone
  <2> HIDE DEF sent
  <2>8. ASSUME NEW j \in 1 .. Len(sent), sent[j].field \in Promised, NEW v \in PII PROVE <<v, "raw">> \notin sent[j].marks
    <3>1. <<v, "raw">> # Note
      BY NoteIsNoMark
    <3>2. CASE sent[j].marks = {Note}
      BY <3>1, <3>2
    <3>3. ASSUME NEW i \in 1 .. Len(masked), sent[j].field = masked[i].field,
                 sent[j].marks \subseteq masked[i].marks \cup {Note}
          PROVE  <<v, "raw">> \notin sent[j].marks
      <4>1. masked[i] = MaskOf(Family, thread[i]) /\ thread[i] \in Items
        BY <2>2
      <4>2. thread[i].field \in PromisedOf(Family)
        BY <2>1, <2>8, <3>3, <4>1, MaskOfItem
      <4>3. <<v, "raw">> \notin masked[i].marks
        BY <2>1, <4>1, <4>2, MaskOfItem
      <4> QED BY <3>1, <3>3, <4>3
    <3> QED BY <2>6, <3>2, <3>3
  <2>9. ASSUME NEW j \in 1 .. Len(sent), NEW v \in PII, <<v, "token">> \in sent[j].marks
        PROVE  \E i \in 1 .. Len(thread) : <<v, "token">> \in MaskOf(Family, thread[i]).marks
    <3>1. <<v, "token">> # Note
      BY NoteIsNoMark
    <3>2. PICK i \in 1 .. Len(masked) : sent[j].marks \subseteq masked[i].marks \cup {Note}
      BY <2>6, <2>9, <3>1
    <3>3. <<v, "token">> \in masked[i].marks /\ i \in 1 .. Len(thread)
      BY <2>2, <2>9, <3>1, <3>2
    <3> QED BY <2>2, <3>3
  <2>10. \A i \in 1 .. Len(thread) : thread[i].field \notin SystemFields =>
             \E j \in 1 .. Len(sent) : sent[j] = MaskOf(Family, thread[i])
    <3>1. \A i \in 1 .. Len(thread) : masked[i].field = thread[i].field
      BY <2>1, <2>2, MaskOfItem
    <3> QED BY <2>2, <2>6, <3>1
  <2>11. Sent = Noted(Family, MaskedBody(Family, thread)) /\ SystemFirst(Family, MaskedBody(Family, thread))
    BY <2>3, <2>5 DEF masked, sent
  <2> QED BY <2>3, <2>6, <2>7, <2>8, <2>9, <2>10, <2>11
<1> QED BY <1>1, <1>2

\* A body that grows by an item that is no system item is sent as it was, and the item masked.
LEMMA TransformedGrows ==
    ASSUME NEW transform \in Transforms, NEW body \in Seq(Items), NEW x \in Items,
           x.field \notin SystemFields, SystemFirst(transform, MaskedBody(transform, body))
    PROVE  /\ MaskOf(transform, x) \in Items
           /\ Transformed(transform, Append(body, x)) = Append(Transformed(transform, body), MaskOf(transform, x))
<1> DEFINE long == Append(body, x)
           y == MaskOf(transform, x)
           masked == MaskedBody(transform, body)
           t == Append(masked, y)
           u == MaskedBody(transform, long)
<1>1. y \in Items /\ y.field \notin SystemFields
  BY MaskOfItem
<1>2. /\ Len(body) \in Nat /\ long \in Seq(Items) /\ Len(long) = Len(body) + 1
      /\ \A i \in 1 .. Len(body) : long[i] = body[i]
      /\ long[Len(body) + 1] = x
  BY LenProperties, AppendProperties
<1> HIDE DEF long, y
<1>3. /\ masked \in Seq(Items) /\ Len(masked) = Len(body)
      /\ \A i \in 1 .. Len(body) : masked[i] = MaskOf(transform, body[i])
  BY MaskedBodyPoints
<1>4. /\ u \in Seq(Items) /\ Len(u) = Len(long)
      /\ \A i \in 1 .. Len(long) : u[i] = MaskOf(transform, long[i])
      /\ Transformed(transform, long) = Noted(transform, u)
  BY <1>2, MaskedBodyPoints
<1> HIDE DEF masked, u
<1>5. /\ t \in Seq(Items) /\ Len(t) = Len(body) + 1
      /\ \A i \in 1 .. Len(body) : t[i] = masked[i]
      /\ t[Len(body) + 1] = y
  BY <1>1, <1>3, AppendProperties
<1> HIDE DEF t
<1>6. ASSUME NEW i \in 1 .. Len(u) PROVE u[i] = t[i]
  <2>1. CASE i \in 1 .. Len(body)
    <3>1. u[i] = MaskOf(transform, body[i])
      BY <1>2, <1>4, <2>1
    <3> QED BY <1>3, <1>5, <2>1, <3>1
  <2>2. CASE i = Len(body) + 1
    <3>1. u[i] = MaskOf(transform, x)
      BY <1>2, <1>4, <2>2
    <3> QED BY <1>5, <2>2, <3>1 DEF y
  <2>3. i \in 1 .. Len(body) \/ i = Len(body) + 1
    BY <1>2, <1>4
  <2> QED BY <2>1, <2>2, <2>3
<1>7. u = t
  <2>1. Len(u) = Len(t)
    BY <1>2, <1>4, <1>5
  <2> QED BY <1>4, <1>5, <1>6, <2>1, SeqEqual
<1>8. Noted(transform, t) = Append(Noted(transform, masked), y)
  BY <1>1, <1>3, NotedAppend DEF masked, t
<1>9. Transformed(transform, body) = Noted(transform, masked)
  BY MaskedBodyPoints DEF masked
<1> QED BY <1>1, <1>4, <1>7, <1>8, <1>9 DEF long, y

LEMMA SentGrows ==
    ASSUME TypeInv, HeadInv, NEW x \in Items, x.field \notin SystemFields,
           path' = path, thread' = Append(thread, x), NEW s \in Seq(Items), IsPrefix(s, Sent)
    PROVE  IsPrefix(s, Sent')
<1>1. path \in Paths /\ thread \in Seq(Items) /\ Sent \in Seq(Items)
  BY SentItems DEF TypeInv
<1>2. Route' = Route
  BY DEF Route
<1>3. CASE Route.transform = "passthrough"
  <2>1. Sent = thread /\ Sent' = Append(thread, x)
    BY <1>2, <1>3 DEF Sent
  <2> QED BY <1>1, <2>1, PrefixOfAppend
<1>4. CASE Route.transform # "passthrough"
  <2>1. Family \in Transforms /\ Route.transform = Family /\ IsConversation
    BY <1>1, <1>4, RouteIsFamily
  <2>2. SystemFirst(Family, MaskedBody(Family, thread))
    BY <2>1, SentItems
  <2>3. Sent = Transformed(Family, thread)
    BY <1>4, <2>1 DEF Sent
  <2>4. Sent' = Transformed(Family, Append(thread, x))
    BY <1>2, <1>4, <2>1 DEF Sent
  <2>5. MaskOf(Family, x) \in Items /\ Sent' = Append(Sent, MaskOf(Family, x))
    BY <1>1, <2>1, <2>2, <2>3, <2>4, TransformedGrows
  <2>6. IsPrefix(s, Append(Sent, MaskOf(Family, x)))
    BY <1>1, <2>5, PrefixOfAppend
  <2> QED BY <2>5, <2>6
<1> QED BY <1>3, <1>4

\* What upstream has seen of a token, the vault knows.
LEMMA TokenSeen ==
    ASSUME ThreadInv, IsConversation, turn = "upstream", NEW v \in PII, <<v, "token">> \in Seen
    PROVE  v \in known /\ \E j \in 1 .. Len(thread) : v \in Found(Family, thread[j])
<1>1. /\ TypeInv /\ HeadInv /\ bodies # <<>> /\ bodies[Len(bodies)] = Sent
      /\ thread \in Seq(Items) /\ Sent \in Seq(Items) /\ Family \in Transforms
  BY SentItems, RouteIsFamily DEF ThreadInv, LastInv, TypeInv
<1>2. PICK j \in DOMAIN Sent : <<v, "token">> \in Sent[j].marks
  BY <1>1 DEF Seen
<1>3. j \in 1 .. Len(Sent)
  BY <1>1, LenProperties
<1>4. PICK i \in 1 .. Len(thread) : <<v, "token">> \in MaskOf(Family, thread[i]).marks
  BY <1>1, <1>2, <1>3, SentItems
<1>5. thread[i] \in Items
  BY <1>1, ElementOfSeq
<1>6. <<v, "token">> \in thread[i].marks \/ v \in Found(Family, thread[i])
  BY <1>1, <1>4, <1>5, FoundIsMasked
<1>7. \E k \in 1 .. Len(thread) : v \in Found(Family, thread[k])
  BY <1>6 DEF ThreadInv, TokenInv
<1>8. v \in known
  BY <1>7 DEF ThreadInv, VaultInv
<1> QED BY <1>7, <1>8

-----------------------------------------------------------------------------
(* Steps                                                                   *)

LEMMA ThreadInvInit == ConversationInit => ThreadInv
<1> SUFFICES ASSUME ConversationInit PROVE ThreadInv
  OBVIOUS
<1>1. /\ path \in Paths /\ thread \in Systems /\ turn = "client"
      /\ known = {} /\ bodies = <<>> /\ told = <<>> /\ late = FALSE
  BY DEF ConversationInit
<1>2. Family \in Transforms
  BY <1>1, RouteIsFamily
<1>3. Raw(PII) \in SUBSET Marks /\ Note \notin Raw(PII) /\ \A v \in PII : <<v, "token">> \notin Raw(PII)
  <2>1. \A v \in PII : <<v, "raw">> \in Marks /\ <<v, "raw">> # Note
    BY NoteIsNoMark DEF Marks
  <2> QED BY <2>1 DEF Raw
<1> DEFINE string == Item("system", Raw(PII))
           noted == Item("system", Raw(PII) \cup {Note})
           part == Item("system part", Raw(PII))
           note == Item("system part", {Note})
<1>4. /\ string \in Items /\ string.field = "system" /\ string.marks = Raw(PII)
      /\ noted \in Items /\ noted.field = "system" /\ noted.marks = Raw(PII) \cup {Note}
      /\ part \in Items /\ part.field = "system part" /\ part.marks = Raw(PII)
      /\ note \in Items /\ note.field = "system part" /\ note.marks = {Note}
  <2>1. Raw(PII) \cup {Note} \in SUBSET Marks /\ {Note} \in SUBSET Marks
    BY <1>3 DEF Marks
  <2>2. "system" \in Fields /\ "system part" \in Fields /\ "system" # "image" /\ "system part" # "image"
    BY DEF Fields, SystemFields
  <2> QED BY <1>3, <2>1, <2>2, ItemType
<1>5. \/ thread = <<>> \/ thread = <<string>> \/ thread = <<noted>>
      \/ Family # "responses" /\ thread = <<part>>
      \/ Family # "responses" /\ thread = <<part, note>>
  BY <1>1 DEF Systems
<1> HIDE DEF string, noted, part, note
<1>6. thread \in Seq(Items) /\ Headed(Family, thread)
  <2>1. CASE thread = <<>>
    <3>1. Len(thread) = 0 /\ thread \in Seq(Items)
      BY <2>1
    <3>2. HeadIs(Family, thread, 0)
      BY <3>1 DEF HeadIs
    <3> QED BY <3>1, <3>2 DEF Headed
  <2>2. ASSUME NEW item \in Items, thread = <<item>>,
               item.field = "system" \/ (item.field = "system part" /\ Note \notin item.marks)
        PROVE  thread \in Seq(Items) /\ Headed(Family, thread)
    <3>1. Len(thread) = 1 /\ thread \in Seq(Items) /\ thread[1] = item
      <4>1. Len(<<item>>) = 1 /\ <<item>> \in Seq(Items) /\ <<item>>[1] = item
        OBVIOUS
      <4> QED BY <2>2, <4>1
    <3>2. 1 <= Len(thread) /\ \A i \in 1 + 1 .. Len(thread) : Plain(thread[i])
      <4>1. 1 <= 1 /\ ~ \E i : i \in 1 + 1 .. 1
        OBVIOUS
      <4> QED BY <3>1, <4>1
    <3>3. thread[1].field = "system" \/ (thread[1].field = "system part" /\ Note \notin thread[1].marks)
      BY <2>2, <3>1, Zenon
    <3>4. HeadIs(Family, thread, 1)
      <4>1. ~(1 = 2)
        OBVIOUS
      <4> QED BY <3>2, <3>3, <4>1, Zenon DEF HeadIs
    <3> QED BY <3>1, <3>4 DEF Headed
  <2>3. CASE Family # "responses" /\ thread = <<part, note>>
    <3>1. part \in Items /\ note \in Items
      BY <1>4
    <3>2. Len(thread) = 2 /\ thread \in Seq(Items) /\ thread[1] = part /\ thread[2] = note
      BY <2>3, <3>1
    <3>3. /\ thread[1].field = "system part" /\ Note \notin thread[1].marks
          /\ thread[2].field = "system part" /\ thread[2].marks = {Note}
      <4>1. part.field = "system part" /\ Note \notin part.marks /\ note.field = "system part" /\ note.marks = {Note}
        BY <1>3, <1>4
      <4> QED BY <3>2, <4>1
    <3>4. 2 <= Len(thread) /\ \A i \in 2 + 1 .. Len(thread) : Plain(thread[i])
      BY <3>2
    <3>5. HeadIs(Family, thread, 2)
      BY <2>3, <3>3, <3>4 DEF HeadIs
    <3> QED BY <3>2, <3>5 DEF Headed
  <2>4. CASE thread = <<string>>
    BY <1>4, <2>2, <2>4
  <2>5. CASE thread = <<noted>>
    BY <1>4, <2>2, <2>5
  <2>6. CASE thread = <<part>>
    BY <1>3, <1>4, <2>2, <2>6
  <2> QED BY <1>5, <2>1, <2>3, <2>4, <2>5, <2>6
<1>7. ASSUME NEW i \in 1 .. Len(thread), NEW v \in PII PROVE <<v, "token">> \notin thread[i].marks
  <2>1. <<v, "token">> # Note
    BY NoteIsNoMark
  <2>2. thread[i] = string \/ thread[i] = noted \/ thread[i] = part \/ thread[i] = note
    <3>1. ASSUME NEW item, thread = <<item>> PROVE thread[i] = item
      <4>1. i = 1
        BY <3>1
      <4> QED BY <3>1, <4>1
    <3>2. CASE thread = <<part, note>>
      <4>1. i = 1 \/ i = 2
        BY <3>2
      <4> QED BY <3>2, <4>1
    <3>3. thread # <<>>
      OBVIOUS
    <3> QED BY <1>5, <3>1, <3>2, <3>3
  <2>3. \/ thread[i].marks = Raw(PII) \/ thread[i].marks = Raw(PII) \cup {Note}
        \/ thread[i].marks = {Note}
    BY <1>4, <2>2, Zenon
  <2> QED BY <1>3, <2>1, <2>3
<1>8. TypeInv
  <2>1. bodies \in Seq(Seq(Items))
    BY <1>1
  <2> QED BY <1>1, <1>6, <2>1 DEF TypeInv
<1>9. HeadInv
  BY <1>1, <1>6 DEF HeadInv
<1>10. LastInv /\ PrefixInv /\ TokenInv /\ VaultInv
  BY <1>1, <1>7 DEF LastInv, PrefixInv, TokenInv, VaultInv
<1>11. ToldInv
  <2>1. DOMAIN told = {}
    BY <1>1
  <2> QED BY <2>1 DEF ToldInv
<1>12. PromisedIsHidden /\ NoteIsOnce /\ PrefixIsStable
  <2>1. DOMAIN bodies = {} /\ Len(bodies) = 0 /\ 1 .. Len(bodies) - 1 = {}
    BY <1>1
  <2> QED BY <2>1 DEF PromisedIsHidden, NoteIsOnce, PrefixIsStable
<1> QED BY <1>8, <1>9, <1>10, <1>11, <1>12 DEF ThreadInv

\* What was sent stays as good as it was.
LEMMA BodiesStay ==
    ASSUME ThreadInv, path' = path, bodies' = bodies, late => late'
    PROVE  PromisedIsHidden' /\ NoteIsOnce' /\ PrefixIsStable'
<1>1. Family' = Family /\ Promised' = Promised /\ IsConversation' = IsConversation
  BY DEF Family, Promised, IsConversation
<1>2. PromisedIsHidden'
  BY <1>1 DEF ThreadInv, PromisedIsHidden
<1>3. NoteIsOnce'
  BY <1>1 DEF ThreadInv, NoteIsOnce
<1>4. PrefixIsStable'
  BY DEF ThreadInv, PrefixIsStable
<1> QED BY <1>2, <1>3, <1>4

\* The thread grows by a plain item, or by a late system message of a chat.
LEMMA ThreadGrows ==
    ASSUME ThreadInv, NEW x \in Items, thread' = Append(thread, x), path' = path, bodies' = bodies,
           late' \in BOOLEAN, late => late', turn' = "client", known' \in SUBSET PII,
           \/ Plain(x)
           \/ late' /\ Family = "openai_chat",
           IsConversation =>
               \A v \in PII : <<v, "token">> \in x.marks => \E j \in 1 .. Len(thread) : v \in Found(Family, thread[j]),
           late' => late \/ Family = "openai_chat"
    PROVE  /\ TypeInv' /\ HeadInv' /\ LastInv' /\ PrefixInv' /\ TokenInv' /\ VaultInv'
           /\ PromisedIsHidden' /\ NoteIsOnce' /\ PrefixIsStable'
<1>1. /\ Family' = Family /\ IsConversation' = IsConversation
      /\ thread \in Seq(Items) /\ bodies \in Seq(Seq(Items)) /\ TypeInv /\ HeadInv
  BY DEF Family, IsConversation, ThreadInv, TypeInv
<1>2. /\ Len(thread) \in Nat /\ thread' \in Seq(Items) /\ Len(thread') = Len(thread) + 1
      /\ \A i \in 1 .. Len(thread) : thread'[i] = thread[i]
      /\ thread'[Len(thread) + 1] = x
  BY <1>1, LenProperties, AppendProperties
<1>3. TypeInv'
  BY <1>1, <1>2 DEF TypeInv
<1>4. HeadInv'
  <2>1. CASE late'
    BY <1>1, <2>1 DEF HeadInv
  <2>2. CASE ~late'
    <3>1. Headed(Family, thread) /\ Plain(x)
      BY <1>1, <2>2 DEF HeadInv
    <3>2. Headed(Family, Append(thread, x))
      BY <1>1, <3>1, HeadAppend
    <3> QED BY <1>1, <2>2, <3>2 DEF HeadInv
  <2> QED BY <2>1, <2>2
<1>5. LastInv' /\ VaultInv'
  BY DEF LastInv, VaultInv
<1>6. PrefixInv'
  <2>1. SUFFICES ASSUME ~late', bodies # <<>> PROVE IsPrefix(bodies[Len(bodies)], Sent')
    BY DEF PrefixInv
  <2>2. x.field \notin SystemFields /\ IsPrefix(bodies[Len(bodies)], Sent)
    BY <2>1 DEF Plain, ThreadInv, PrefixInv
  <2>3. bodies[Len(bodies)] \in Seq(Items)
    <3>1. Len(bodies) \in 1 .. Len(bodies)
      BY <1>1, <2>1, LenProperties, EmptySeq
    <3> QED BY <1>1, <3>1, ElementOfSeq
  <2> QED BY <1>1, <2>2, <2>3, SentGrows
<1>7. TokenInv'
  <2>1. SUFFICES ASSUME IsConversation, NEW i \in 1 .. Len(thread'), NEW v \in PII,
                        <<v, "token">> \in thread'[i].marks
                 PROVE  \E j \in 1 .. Len(thread') : v \in Found(Family, thread'[j])
    BY <1>1 DEF TokenInv
  <2>2. \E j \in 1 .. Len(thread) : v \in Found(Family, thread[j])
    <3>1. CASE i \in 1 .. Len(thread)
      <4>1. <<v, "token">> \in thread[i].marks
        BY <1>2, <2>1, <3>1
      <4> QED BY <2>1, <3>1, <4>1 DEF ThreadInv, TokenInv
    <3>2. CASE i = Len(thread) + 1
      BY <1>2, <2>1, <3>2
    <3>3. i \in 1 .. Len(thread) \/ i = Len(thread) + 1
      BY <1>2
    <3> QED BY <3>1, <3>2, <3>3
  <2>3. \A j \in 1 .. Len(thread) : j \in 1 .. Len(thread') /\ thread'[j] = thread[j]
    BY <1>2
  <2> QED BY <2>2, <2>3
<1> QED BY <1>3, <1>4, <1>5, <1>6, <1>7, BodiesStay

LEMMA ClientAddsKeeps ==
    ASSUME ThreadInv, NEW field \in {"user", "image", "result", "system"}, NEW v \in PII, ClientAdds(field, {v})
    PROVE  ThreadInv'
<1> DEFINE x == Item(field, Raw({v}))
<1>1. /\ thread' = Append(thread, x) /\ turn' = "client" /\ late' = (late \/ field = "system")
      /\ path' = path /\ known' = known /\ bodies' = bodies /\ told' = told
      /\ field = "system" => Family = "openai_chat"
  BY DEF ClientAdds
<1>2. TypeInv /\ thread \in Seq(Items) /\ late \in BOOLEAN /\ known \in SUBSET PII
  BY DEF ThreadInv, TypeInv
<1>3. Raw({v}) = {<<v, "raw">>}
  BY DEF Raw
<1>4. /\ Raw({v}) \in SUBSET Marks /\ Note \notin Raw({v}) /\ \A w \in PII : <<w, "token">> \notin Raw({v})
  <2>1. <<v, "raw">> \in Marks /\ <<v, "raw">> # Note /\ \A w \in PII : <<w, "token">> # <<v, "raw">>
    BY NoteIsNoMark DEF Marks
  <2> QED BY <1>3, <2>1
<1>5. x \in Items /\ x.field = field /\ x.marks = Raw({v})
  <2>1. field \in Fields
    BY DEF Fields, SystemFields
  <2> QED BY <1>4, <2>1, ItemType
<1> HIDE DEF x
<1>6. Plain(x) \/ (late' /\ Family = "openai_chat")
  <2>1. CASE field = "system"
    BY <1>1, <2>1
  <2>2. CASE field # "system"
    <3>1. field \notin SystemFields
      BY <2>2 DEF SystemFields
    <3> QED BY <1>4, <1>5, <3>1 DEF Plain
  <2> QED BY <2>1, <2>2
<1>7. /\ late' \in BOOLEAN /\ (late => late') /\ known' \in SUBSET PII
      /\ late' => late \/ Family = "openai_chat"
  BY <1>1, <1>2
<1>8. \A w \in PII : <<w, "token">> \notin x.marks
  BY <1>4, <1>5
<1>9. /\ TypeInv' /\ HeadInv' /\ LastInv' /\ PrefixInv' /\ TokenInv' /\ VaultInv'
      /\ PromisedIsHidden' /\ NoteIsOnce' /\ PrefixIsStable'
  BY <1>1, <1>5, <1>6, <1>7, <1>8, ThreadGrows
<1>10. ToldInv'
  <2>1. /\ Len(thread) \in Nat /\ Len(thread') = Len(thread) + 1
        /\ \A i \in 1 .. Len(thread) : thread'[i] = thread[i]
    BY <1>1, <1>2, <1>5, LenProperties, AppendProperties
  <2>2. \A i \in DOMAIN told : i \in 1 .. Len(thread)
    BY DEF ThreadInv, ToldInv
  <2>3. \A i \in 1 .. Len(thread) : i \in 1 .. Len(thread')
    BY <2>1
  <2>4. IsConversation' = IsConversation
    BY <1>1 DEF IsConversation
  <2>5. DOMAIN told' \subseteq 1 .. Len(thread')
    BY <1>1, <2>2, <2>3
  <2>6. IsConversation => \A i \in DOMAIN told : Got(told[i], thread'[i])
    BY <2>1, <2>2 DEF ThreadInv, ToldInv
  <2> QED BY <1>1, <2>4, <2>5, <2>6 DEF ToldInv
<1> QED BY <1>9, <1>10 DEF ThreadInv

LEMMA AnswersKeep ==
    ASSUME ThreadInv, NEW field \in {"answer", "call", "reasoning"}, NEW mark \in Seen,
           UpstreamAnswers(field, {mark})
    PROVE  ThreadInv'
<1> DEFINE item == Item(field, {mark})
           x == Returned(item)
           last == Len(thread')
<1>1. /\ thread' = Append(thread, x) /\ turn = "upstream" /\ turn' = "client"
      /\ told' = [i \in DOMAIN told \cup {last} |-> IF i = last THEN item ELSE told[i]]
      /\ path' = path /\ known' = known /\ bodies' = bodies /\ late' = late
  BY DEF UpstreamAnswers
<1>2. TypeInv /\ thread \in Seq(Items) /\ late \in BOOLEAN /\ known \in SUBSET PII /\ path \in Paths
  BY DEF ThreadInv, TypeInv
<1>3. PICK v \in PII, k \in {"raw", "token"} : mark = <<v, k>>
  <2>1. mark \in PII \X {"raw", "token"}
    <3>1. bodies # <<>>
      BY DEF Seen
    <3> QED BY <3>1, Zenon DEF Seen
  <2> QED BY <2>1
<1>4. item.field = field /\ item.marks = {mark}
  BY DEF Item
<1>5. /\ ~IsConversation => x = item
      /\ IsConversation /\ field = "reasoning" => x = item
      /\ IsConversation /\ field # "reasoning" => x = Item(field, Restored({mark}))
  <2>1. CASE ~IsConversation
    <3>1. Reader(Route) = "passthrough" /\ Family # "passthrough"
      BY <1>2, <2>1, RouteIsFamily DEF Reader, Transforms
    <3> QED BY <2>1, <3>1 DEF Returned
  <2>2. CASE IsConversation
    <3>1. Reader(Route) = Family /\ Family \in Transforms
      BY <1>2, <2>2, RouteIsFamily DEF Reader
    <3>2. x = RestoredIn(item, {"answer", "call"})
      BY <3>1 DEF Returned, RestoreAnthropic, RestoreChat, RestoreResponses, Transforms
    <3> HIDE DEF item
    <3> QED BY <1>4, <2>2, <3>2 DEF RestoredIn
  <2> QED BY <2>1, <2>2
<1>6. IsConversation /\ field # "reasoning" => Restored({mark}) = {<<v, "raw">>}
  <2>1. SUFFICES ASSUME IsConversation PROVE Restored({mark}) = {<<v, "raw">>}
    OBVIOUS
  <2>2. k = "token" => v \in known
    BY <1>1, <1>3, <2>1, TokenSeen
  <2>3. mark[1] = v /\ mark[2] = k
    BY <1>3
  <2> QED BY <1>3, <2>2, <2>3 DEF Restored
<1>7. /\ x.field = field
      /\ x.marks = {mark} \/ x.marks = {<<v, "raw">>}
      /\ x = Item(field, {mark}) \/ x = Item(field, {<<v, "raw">>})
  <2>1. x = Item(field, {mark}) \/ x = Item(field, {<<v, "raw">>})
    BY <1>5, <1>6
  <2> HIDE DEF x
  <2> QED BY <2>1 DEF Item
<1>8. x \in Items /\ Plain(x)
  <2>1. field \in Fields /\ field # "image" /\ field \notin SystemFields
    BY DEF Fields, SystemFields
  <2>2. {mark} \in SUBSET Marks /\ {<<v, "raw">>} \in SUBSET Marks /\ Note # mark /\ Note # <<v, "raw">>
    BY <1>3, NoteIsNoMark DEF Marks
  <2> HIDE DEF x
  <2> QED BY <1>7, <2>1, <2>2, ItemType DEF Plain
<1>9. ASSUME IsConversation, NEW w \in PII, <<w, "token">> \in x.marks
      PROVE  \E j \in 1 .. Len(thread) : w \in Found(Family, thread[j])
  <2>1. <<w, "token">> # <<v, "raw">>
    OBVIOUS
  <2>2. <<w, "token">> \in Seen
    BY <1>7, <1>9, <2>1
  <2> QED BY <1>1, <1>9, <2>2, TokenSeen
<1> HIDE DEF x, item
<1>10. /\ TypeInv' /\ HeadInv' /\ LastInv' /\ PrefixInv' /\ TokenInv' /\ VaultInv'
       /\ PromisedIsHidden' /\ NoteIsOnce' /\ PrefixIsStable'
  <2>1. late' \in BOOLEAN /\ (late => late') /\ (late' => late) /\ known' \in SUBSET PII
    BY <1>1, <1>2
  <2> QED BY <1>1, <1>8, <1>9, <2>1, ThreadGrows
<1>11. ToldInv'
  <2>1. /\ Len(thread) \in Nat /\ last = Len(thread) + 1
        /\ \A i \in 1 .. Len(thread) : thread'[i] = thread[i]
        /\ thread'[Len(thread) + 1] = x
    BY <1>1, <1>2, <1>8, LenProperties, AppendProperties
  <2> HIDE DEF last
  <2>2. \A i \in DOMAIN told : i \in 1 .. Len(thread)
    BY DEF ThreadInv, ToldInv
  <2>3. last \in 1 .. last /\ \A i \in 1 .. Len(thread) : i \in 1 .. last /\ i # last
    BY <2>1
  <2>4. DOMAIN told' = DOMAIN told \cup {last}
    BY <1>1
  <2>5. DOMAIN told' \subseteq 1 .. last
    BY <2>2, <2>3, <2>4
  <2>6. IsConversation' = IsConversation
    BY <1>1 DEF IsConversation
  <2>7. ASSUME IsConversation, NEW i \in DOMAIN told' PROVE Got(told'[i], thread'[i])
    <3>1. CASE i \in DOMAIN told
      <4>1. told'[i] = told[i] /\ thread'[i] = thread[i]
        BY <1>1, <2>1, <2>2, <2>3, <3>1
      <4> QED BY <2>7, <3>1, <4>1 DEF ThreadInv, ToldInv
    <3>2. CASE i = last
      <4>1. told'[i] = item /\ thread'[i] = x
        BY <1>1, <2>1, <3>2
      <4>2. CASE field = "reasoning"
        <5>1. item.field = "reasoning" /\ x.field = "reasoning"
          BY <1>4, <1>7, <4>2
        <5> QED BY <4>1, <5>1, Zenon DEF Got
      <4>3. CASE field # "reasoning"
        <5>1. x = Item(field, {<<v, "raw">>})
          BY <1>5, <1>6, <2>7, <4>3
        <5>2. item \in {Item(field, {<<v, "raw">>}), Item(field, {<<v, "token">>})}
          BY <1>3 DEF item
        <5>3. item.field = field /\ field \in {"answer", "call"}
          BY <1>4, <4>3 DEF item
        <5>4. Got(item, x)
          BY <5>1, <5>2, <5>3, Zenon DEF Got
        <5> QED BY <4>1, <5>4
      <4> QED BY <4>2, <4>3
    <3> QED BY <2>4, <3>1, <3>2
  <2> QED BY <2>5, <2>6, <2>7 DEF ToldInv, last
<1> QED BY <1>10, <1>11 DEF ThreadInv

\* A request is sent, and the vault has what was found in it.
LEMMA SendKeeps ==
    ASSUME ThreadInv, bodies' = Append(bodies, Sent), turn' = "upstream",
           UNCHANGED <<path, thread, told, late>>, known' \in SUBSET PII,
           IsConversation => \A j \in 1 .. Len(thread) : Found(Family, thread[j]) \subseteq known'
    PROVE  ThreadInv'
<1>1. /\ path \in Paths /\ thread \in Seq(Items) /\ bodies \in Seq(Seq(Items)) /\ late \in BOOLEAN
      /\ TypeInv /\ HeadInv /\ Sent \in Seq(Items)
  BY SentItems DEF ThreadInv, TypeInv
<1>2. /\ Len(bodies) \in Nat /\ bodies' \in Seq(Seq(Items)) /\ Len(bodies') = Len(bodies) + 1
      /\ \A n \in 1 .. Len(bodies) : bodies'[n] = bodies[n]
      /\ bodies'[Len(bodies) + 1] = Sent /\ bodies' # <<>>
      /\ DOMAIN bodies' = 1 .. Len(bodies) + 1 /\ DOMAIN bodies = 1 .. Len(bodies)
      /\ DOMAIN Sent = 1 .. Len(Sent)
  <2> DEFINE new == Sent
  <2>1. new \in Seq(Items)
    BY <1>1
  <2> HIDE DEF new
  <2>2. /\ Append(bodies, new) \in Seq(Seq(Items)) /\ Append(bodies, new) # <<>>
        /\ Len(Append(bodies, new)) = Len(bodies) + 1
        /\ \A n \in 1 .. Len(bodies) : Append(bodies, new)[n] = bodies[n]
        /\ Append(bodies, new)[Len(bodies) + 1] = new
    BY <1>1, <2>1, AppendProperties
  <2>3. Len(bodies) \in Nat /\ DOMAIN bodies = 1 .. Len(bodies) /\ DOMAIN new = 1 .. Len(new)
    BY <1>1, <2>1, LenProperties
  <2>4. DOMAIN Append(bodies, new) = 1 .. Len(bodies) + 1
    BY <2>2, LenProperties
  <2> QED BY <2>2, <2>3, <2>4 DEF new
<1>3. \A n \in DOMAIN bodies' : (n \in DOMAIN bodies /\ bodies'[n] = bodies[n]) \/ (n = Len(bodies) + 1 /\ bodies'[n] = Sent)
  <2>1. \A n \in 1 .. Len(bodies) + 1 : n \in 1 .. Len(bodies) \/ n = Len(bodies) + 1
    BY <1>2
  <2> QED BY <1>2, <2>1
<1>4. /\ Family' = Family /\ Promised' = Promised /\ IsConversation' = IsConversation
      /\ Route' = Route
  BY DEF Family, Promised, IsConversation, Route
<1>5. Sent' = Sent
  BY <1>4 DEF Sent
<1>6. TypeInv' /\ HeadInv' /\ LastInv'
  BY <1>1, <1>2, <1>4, <1>5 DEF TypeInv, HeadInv, LastInv
<1>7. PrefixInv'
  <2>1. IsPrefix(Sent, Sent)
    <3>1. Len(Sent) \in Nat
      BY <1>1, LenProperties
    <3>2. Len(Sent) <= Len(Sent) /\ \A i \in 1 .. Len(Sent) : Sent[i] = Sent[i]
      BY <3>1
    <3> QED BY <1>1, <3>2, PrefixPoints
  <2> QED BY <1>2, <1>5, <2>1 DEF PrefixInv
<1>8. TokenInv' /\ VaultInv'
  BY <1>4 DEF ThreadInv, TokenInv, VaultInv
<1>9. ToldInv'
  BY <1>4 DEF ThreadInv, ToldInv
<1>10. PromisedIsHidden'
  <2>1. SUFFICES ASSUME IsConversation, NEW n \in DOMAIN bodies', NEW i \in DOMAIN bodies'[n],
                        bodies'[n][i].field \in Promised
                 PROVE  ~ \E v \in PII : <<v, "raw">> \in bodies'[n][i].marks
    BY <1>4 DEF PromisedIsHidden
  <2>2. CASE n \in DOMAIN bodies /\ bodies'[n] = bodies[n]
    BY <2>1, <2>2 DEF ThreadInv, PromisedIsHidden
  <2>3. CASE bodies'[n] = Sent
    <3>1. i \in 1 .. Len(Sent)
      BY <1>2, <2>3
    <3> QED BY <1>1, <2>1, <2>3, <3>1, SentItems
  <2> QED BY <1>3, <2>2, <2>3
<1>11. NoteIsOnce'
  <2> DEFINE Notes(body) == {i \in DOMAIN body : Note \in body[i].marks}
             Once(body) ==
                 /\ Notes(body) # {}
                 /\ \/ \A i, j \in Notes(body) : i = j
                    \/ late
                    \/ Family = "openai_chat" /\ body[1].field = "system part"
  <2>1. IsConversation => \A n \in DOMAIN bodies : Once(bodies[n])
    BY DEF ThreadInv, NoteIsOnce
  <2>2. IsConversation => Once(Sent)
    <3>1. SUFFICES ASSUME IsConversation PROVE Once(Sent)
      OBVIOUS
    <3>2. Notes(Sent) # {}
      <4>1. \E j \in 1 .. Len(Sent) : Note \in Sent[j].marks
        BY <1>1, <3>1, SentItems
      <4> QED BY <1>2, <4>1
    <3>3. \/ \E k \in 1 .. Len(Sent) : \A j \in 1 .. Len(Sent) : Note \in Sent[j].marks => j = k
          \/ late
          \/ Family = "openai_chat" /\ Sent[1].field = "system part"
      BY <1>1, <3>1, SentItems
    <3>4. (\E k \in 1 .. Len(Sent) : \A j \in 1 .. Len(Sent) : Note \in Sent[j].marks => j = k)
              => \A i, j \in Notes(Sent) : i = j
      BY <1>2
    <3> HIDE DEF Notes
    <3> QED BY <3>2, <3>3, <3>4
  <2> HIDE DEF Once
  <2>3. IsConversation => \A n \in DOMAIN bodies' : Once(bodies'[n])
    BY <1>3, <2>1, <2>2
  <2> QED BY <1>4, <2>3 DEF NoteIsOnce, Once
<1>12. PrefixIsStable'
  <2>1. SUFFICES ASSUME ~late, NEW n \in 1 .. Len(bodies') - 1 PROVE IsPrefix(bodies'[n], bodies'[n + 1])
    BY DEF PrefixIsStable
  <2>2. CASE n \in 1 .. Len(bodies) - 1
    <3>1. n \in 1 .. Len(bodies) /\ n + 1 \in 1 .. Len(bodies)
      BY <1>2, <2>2
    <3> QED BY <1>2, <2>1, <2>2, <3>1 DEF ThreadInv, PrefixIsStable
  <2>3. CASE n = Len(bodies)
    <3>1. n \in 1 .. Len(bodies) /\ bodies # <<>>
      BY <1>2, <2>1, <2>3, EmptySeq
    <3>2. IsPrefix(bodies[n], Sent)
      BY <2>1, <2>3, <3>1 DEF ThreadInv, PrefixInv
    <3> QED BY <1>2, <2>3, <3>1, <3>2
  <2>4. n \in 1 .. Len(bodies) - 1 \/ n = Len(bodies)
    <3>1. Len(bodies) \in Nat /\ Len(bodies') = Len(bodies) + 1
      BY <1>2
    <3>2. n \in 1 .. (Len(bodies) + 1) - 1
      BY <3>1
    <3> QED BY <3>1, <3>2
  <2> QED BY <2>2, <2>3, <2>4
<1> QED BY <1>6, <1>7, <1>8, <1>9, <1>10, <1>11, <1>12 DEF ThreadInv

\* Nothing is sent, and the client has the turn.
LEMMA RestKeeps ==
    ASSUME ThreadInv, UNCHANGED <<path, thread, bodies, told, late>>, known' \in SUBSET PII,
           turn' = "client" \/ (turn' = turn /\ known' = known)
    PROVE  ThreadInv'
<1>1. /\ Family' = Family /\ Promised' = Promised /\ IsConversation' = IsConversation
      /\ Route' = Route
  BY DEF Family, Promised, IsConversation, Route
<1>2. Sent' = Sent
  BY <1>1 DEF Sent
<1>3. TypeInv' /\ HeadInv' /\ LastInv' /\ PrefixInv'
  BY <1>1, <1>2 DEF ThreadInv, TypeInv, HeadInv, LastInv, PrefixInv
<1>4. TokenInv' /\ VaultInv' /\ ToldInv'
  BY <1>1 DEF ThreadInv, TokenInv, VaultInv, ToldInv
<1> QED BY <1>3, <1>4, BodiesStay DEF ThreadInv

LEMMA FoundIsPII ==
    ASSUME ThreadInv, NEW i \in 1 .. Len(thread), NEW transform
    PROVE  Found(transform, thread[i]) \subseteq PII
<1>1. thread[i] \in Items
  BY ElementOfSeq DEF ThreadInv, TypeInv
<1>2. \A m \in thread[i].marks \ {Note} : m[1] \in PII
  BY <1>1 DEF Items, Marks
<1> QED BY <1>2 DEF Found

THEOREM ThreadStays == ConversationSpec => []ThreadInv
<1>1. ASSUME ThreadInv, [ConversationNext]_conversationVars PROVE ThreadInv'
  <2>0. /\ DOMAIN thread = 1 .. Len(thread) /\ Len(thread) \in Nat
        /\ known \in SUBSET PII /\ turn \in {"client", "upstream"} /\ path \in Paths
    BY <1>1, LenProperties DEF ThreadInv, TypeInv
  <2>1. ASSUME NEW field \in {"user", "image", "result", "system"}, NEW v \in PII, ClientAdds(field, {v})
        PROVE  ThreadInv'
    BY <1>1, <2>1, ClientAddsKeeps
  <2>2. CASE Ask
    <3>1. Sent = Transformed(Route.transform, thread)
      BY <2>2 DEF Ask, Sent
    <3>2. known' = known \cup UNION {Found(Route.transform, thread[i]) : i \in DOMAIN thread}
      BY <2>2 DEF Ask
    <3>3. known' \in SUBSET PII
      BY <1>1, <2>0, <3>2, FoundIsPII
    <3>4. Route.transform = Family
      BY <2>0, <2>2, RouteIsFamily DEF Ask
    <3>5. \A j \in 1 .. Len(thread) : Found(Family, thread[j]) \subseteq known'
      BY <2>0, <3>2, <3>4
    <3> QED BY <1>1, <2>2, <3>1, <3>3, <3>5, SendKeeps DEF Ask
  <2>3. CASE PassThrough
    <3>1. Sent = thread /\ ~IsConversation
      <4>1. Route.transform = "passthrough" /\ Family # "passthrough"
        BY <2>0, <2>3, RouteIsFamily DEF PassThrough, Transforms
      <4> QED BY <2>0, <4>1, RouteIsFamily DEF Sent
    <3> QED BY <1>1, <2>0, <2>3, <3>1, SendKeeps DEF PassThrough
  <2>4. CASE AskFails
    <3>1. PICK n \in DOMAIN thread :
              known' = known \cup UNION {Found(Route.transform, thread[i]) : i \in 1 .. n - 1}
      BY <2>4 DEF AskFails
    <3>2. \A i \in 1 .. n - 1 : i \in 1 .. Len(thread)
      BY <2>0
    <3>3. known' \in SUBSET PII
      BY <1>1, <2>0, <3>1, <3>2, FoundIsPII
    <3> QED BY <1>1, <2>4, <3>3, RestKeeps DEF AskFails
  <2>5. ASSUME NEW field \in {"answer", "call", "reasoning"}, NEW mark \in Seen, UpstreamAnswers(field, {mark})
        PROVE  ThreadInv'
    BY <1>1, <2>5, AnswersKeep
  <2>6. CASE UpstreamRefuses
    BY <1>1, <2>0, <2>6, RestKeeps DEF UpstreamRefuses
  <2>7. CASE ProxyRestarts
    BY <1>1, <2>0, <2>7, RestKeeps DEF ProxyRestarts
  <2>8. CASE UNCHANGED conversationVars
    BY <1>1, <2>0, <2>8, RestKeeps DEF conversationVars
  <2> QED BY <1>1, <2>1, <2>2, <2>3, <2>4, <2>5, <2>6, <2>7, <2>8 DEF ConversationNext
<1> QED BY <1>1, ThreadInvInit, PTL DEF ConversationSpec

\* In every conversation no promised value goes upstream in clear, the model is told about
\* placeholders once, requests begin with the ones before, and words come back, for any values.
THEOREM ConversationIsSafe == ConversationSpec => []ConversationInv
<1>1. ASSUME ThreadInv PROVE WordsComeBack
  <2>1. SUFFICES ASSUME IsConversation PROVE WordsComeBack
    BY DEF WordsComeBack
  <2>2. /\ Family \in Transforms /\ Promised = PromisedOf(Family)
        /\ \A i \in DOMAIN told : i \in 1 .. Len(thread) /\ Got(told[i], thread[i])
        /\ TypeInv /\ HeadInv /\ thread \in Seq(Items)
    BY <1>1, <2>1, RouteIsFamily DEF ThreadInv, TypeInv, ToldInv
  <2>3. ASSUME NEW i \in DOMAIN told, thread[i].field \in {"answer", "call"}, NEW v \in PII
        PROVE  <<v, "token">> \notin thread[i].marks
    <3>1. PICK w \in PII : thread[i] = Item(told[i].field, {<<w, "raw">>})
      BY <2>2, <2>3 DEF Got
    <3>2. thread[i].marks = {<<w, "raw">>}
      BY <3>1 DEF Item
    <3> QED BY <3>2
  <2>4. ASSUME turn = "upstream", NEW i \in DOMAIN told, told[i].field \in Promised,
               told[i].marks \cap Raw(PII) = {}
        PROVE  \E j \in DOMAIN bodies[Len(bodies)] : bodies[Len(bodies)][j] = told[i]
    <3>1. told[i].field # "reasoning"
      BY <2>2, <2>4 DEF PromisedOf, Transforms
    <3>2. PICK v \in PII :
              /\ told[i].field \in {"answer", "call"}
              /\ thread[i] = Item(told[i].field, {<<v, "raw">>})
              /\ told[i] \in {Item(told[i].field, {<<v, "raw">>}), Item(told[i].field, {<<v, "token">>})}
      BY <2>2, <3>1 DEF Got
    <3>3. told[i] = Item(told[i].field, {<<v, "token">>})
      <4>1. <<v, "raw">> \in Raw(PII) /\ Item(told[i].field, {<<v, "raw">>}).marks = {<<v, "raw">>}
        BY DEF Raw, Item
      <4>2. told[i] # Item(told[i].field, {<<v, "raw">>})
        BY <2>4, <4>1
      <4> QED BY <3>2, <4>2
    <3>4. thread[i].field = told[i].field /\ thread[i].marks = {<<v, "raw">>}
      BY <3>2 DEF Item
    <3>5. thread[i] \in Items /\ i \in 1 .. Len(thread)
      BY <2>2, ElementOfSeq
    <3>6. MaskOf(Family, thread[i]) = Item(told[i].field, Masked({<<v, "raw">>}))
      <4>1. thread[i].field \in PromisedOf(Family)
        BY <2>2, <2>4, <3>4
      <4>2. MaskOf(Family, thread[i]) = Item(thread[i].field, Masked(thread[i].marks))
        BY <2>2, <3>5, <4>1, MaskOfItem
      <4> QED BY <3>4, <4>2
    <3>7. Masked({<<v, "raw">>}) = {<<v, "token">>}
      <4>1. <<v, "raw">> # Note /\ <<v, "raw">>[1] = v /\ <<v, "raw">>[2] = "raw"
        BY NoteIsNoMark
      <4> QED BY <4>1 DEF Masked
    <3>8. thread[i].field \notin SystemFields
      BY <3>2, <3>4 DEF SystemFields
    <3>9. \E j \in 1 .. Len(Sent) : Sent[j] = told[i]
      BY <2>1, <2>2, <3>3, <3>5, <3>6, <3>7, <3>8, SentItems
    <3>10. bodies[Len(bodies)] = Sent /\ DOMAIN Sent = 1 .. Len(Sent)
      BY <1>1, <2>2, <2>4, SentItems, LenProperties DEF ThreadInv, LastInv
    <3> QED BY <3>9, <3>10
  <2> QED BY <2>3, <2>4 DEF WordsComeBack
<1>2. ThreadInv => ConversationInv
  BY <1>1 DEF ThreadInv, ConversationInv
<1> QED BY <1>2, ThreadStays, PTL

-----------------------------------------------------------------------------
(* The replay of signed thinking                                           *)

\* The client holds a block as it was shown, or one whose signature is not whole.
HistoryIsShown ==
    \A block \in history :
        \/ block.signature \in answered /\ block.thinking = Shown(signed[block.signature])
        \/ block.signature = Broken

EntriesAreSigned ==
    /\ entries \in Seq(Entry)
    /\ \A i \in DOMAIN entries :
        /\ entries[i].signature \in answered
        /\ entries[i].thinking = signed[entries[i].signature]

ReplayInv ==
    /\ signed \in Contents /\ answered \subseteq Signatures
    /\ EntriesAreSigned
    /\ HistoryIsShown
    /\ WireIsSigned

\* RemoveAt leaves a sequence of elements that were there.
LEMMA RemoveAtKeeps ==
    ASSUME NEW S, NEW s \in Seq(S), NEW n \in 1 .. Len(s)
    PROVE  /\ RemoveAt(s, n) \in Seq(S)
           /\ \A i \in 1 .. Len(RemoveAt(s, n)) : \E j \in 1 .. Len(s) : RemoveAt(s, n)[i] = s[j]
  <1> DEFINE a == SubSeq(s, 1, n - 1)
             b == SubSeq(s, n + 1, Len(s))
  <1>1. Len(s) \in Nat /\ \A i \in 1 .. Len(s) : s[i] \in S
    BY ElementOfSeq, LenProperties
  <1>2. /\ a \in Seq(S) /\ Len(a) = n - 1
        /\ \A i \in 1 .. (n - 1) : a[i] = s[i]
    <2>1. \A i \in 1 .. (n - 1) : s[i] \in S
      BY <1>1
    <2> QED
      BY <1>1, <2>1, SubSeqProperties
  <1>3. /\ b \in Seq(S) /\ Len(b) = Len(s) - n
        /\ \A i \in 1 .. (Len(s) - n) : b[i] = s[n + i]
    <2>1. \A i \in (n + 1) .. Len(s) : s[i] \in S
      BY <1>1
    <2>2. /\ b \in Seq(S)
          /\ Len(b) = IF n + 1 <= Len(s) THEN Len(s) - (n + 1) + 1 ELSE 0
          /\ \A i \in 1 .. (Len(s) - (n + 1) + 1) : b[i] = s[(n + 1) + i - 1]
      BY <1>1, <2>1, SubSeqProperties
    <2> QED
      BY <1>1, <2>2
  <1> HIDE DEF a, b
  <1>4. /\ a \o b \in Seq(S) /\ Len(a \o b) = Len(a) + Len(b)
        /\ \A i \in 1 .. Len(a) + Len(b) : (a \o b)[i] = IF i <= Len(a) THEN a[i] ELSE b[i - Len(a)]
    BY <1>2, <1>3, ConcatProperties
  <1>5. ASSUME NEW i \in 1 .. Len(a \o b)
        PROVE  \E j \in 1 .. Len(s) : (a \o b)[i] = s[j]
    <2>1. CASE i <= n - 1
      BY <1>1, <1>2, <1>3, <1>4, <2>1
    <2>2. CASE n <= i
      <3>1. i - (n - 1) \in 1 .. (Len(s) - n) /\ (a \o b)[i] = b[i - (n - 1)]
        BY <1>1, <1>2, <1>3, <1>4, <2>2
      <3>2. n + (i - (n - 1)) \in 1 .. Len(s) /\ b[i - (n - 1)] = s[n + (i - (n - 1))]
        BY <1>1, <1>3, <3>1
      <3> QED
        BY <3>1, <3>2
    <2> QED
      BY <1>1, <1>2, <1>3, <1>4, <2>1, <2>2
  <1>6. RemoveAt(s, n) = a \o b
    BY DEF RemoveAt, a, b
  <1> QED
    BY <1>4, <1>5, <1>6

\* A lookup that hits returns what was signed.
LEMMA LookupIsSigned ==
    ASSUME ReplayInv, NEW signature, Caches(signature)
    PROVE  /\ At(signature) \in 1 .. Len(entries)
           /\ Lookup(signature) = signed[signature] /\ signature \in answered
  <1>1. PICK i \in DOMAIN entries : entries[i].signature = signature
    BY DEF Caches
  <1>2. /\ At(signature) \in DOMAIN entries
        /\ entries[At(signature)].signature = signature
    BY <1>1 DEF At
  <1> QED
    BY <1>2 DEF ReplayInv, EntriesAreSigned, Lookup

\* Forgetting a signature leaves signed entries.
LEMMA WithoutIsSigned ==
    ASSUME ReplayInv, NEW signature
    PROVE  /\ Without(signature) \in Seq(Entry)
           /\ \A i \in 1 .. Len(Without(signature)) :
                \E j \in DOMAIN entries : Without(signature)[i] = entries[j]
  <1>0. entries \in Seq(Entry) /\ Len(entries) \in Nat /\ DOMAIN entries = 1 .. Len(entries)
    BY DEF ReplayInv, EntriesAreSigned
  <1>1. CASE Caches(signature)
    <2>1. At(signature) \in 1 .. Len(entries)
      BY <1>1, LookupIsSigned
    <2>2. Without(signature) = RemoveAt(entries, At(signature))
      BY <1>1 DEF Without
    <2> QED
      BY <1>0, <2>1, <2>2, RemoveAtKeeps
  <1>2. CASE ~Caches(signature)
    BY <1>0, <1>2 DEF Without
  <1> QED
    BY <1>1, <1>2

\* Entries that are signed, followed by a signed one, are signed.
LEMMA AppendIsSigned ==
    ASSUME ReplayInv, NEW signature \in Signatures, NEW k \in Nat, k <= Len(Without(signature)),
           NEW text, text = signed[signature], signed' = signed,
           answered' = answered \cup {signature},
           entries' = Append(SubSeq(Without(signature), k + 1, Len(Without(signature))),
                             Block(signature, text))
    PROVE  EntriesAreSigned'
  <1> DEFINE w == Without(signature)
             kept == SubSeq(w, k + 1, Len(w))
  <1>0. text \in Thinking
    BY ReplayAssumption DEF ReplayInv
  <1>1. w \in Seq(Entry) /\ \A i \in 1 .. Len(w) : \E j \in DOMAIN entries : w[i] = entries[j]
    BY WithoutIsSigned
  <1> HIDE DEF w
  <1>2. /\ kept \in Seq(Entry) /\ Len(kept) = Len(w) - k
        /\ \A i \in 1 .. Len(kept) : kept[i] = w[k + i]
    <2>0. Len(w) \in Nat /\ k <= Len(w)
      BY <1>1, LenProperties DEF w
    <2>1. \A i \in (k + 1) .. Len(w) : w[i] \in Entry
      BY <1>1, <2>0, ElementOfSeq
    <2>2. /\ kept \in Seq(Entry)
          /\ Len(kept) = IF k + 1 <= Len(w) THEN Len(w) - (k + 1) + 1 ELSE 0
          /\ \A i \in 1 .. (Len(w) - (k + 1) + 1) : kept[i] = w[(k + 1) + i - 1]
      BY <2>0, <2>1, SubSeqProperties
    <2> QED
      BY <2>0, <2>2
  <1>3. \A i \in 1 .. Len(kept) : \E j \in DOMAIN entries : kept[i] = entries[j]
    <2>1. Len(w) \in Nat /\ k <= Len(w)
      BY <1>1, LenProperties DEF w
    <2> SUFFICES ASSUME NEW i \in 1 .. Len(kept)
                 PROVE  \E j \in DOMAIN entries : kept[i] = entries[j]
      OBVIOUS
    <2>2. k + i \in 1 .. Len(w) /\ kept[i] = w[k + i]
      BY <1>2, <2>1
    <2> QED
      BY <1>1, <2>2
  <1> HIDE DEF kept
  <1>4. Block(signature, text) \in Entry
    BY <1>0 DEF Block, Entry
  <1>5. entries' = Append(kept, Block(signature, text))
    BY DEF kept, w
  <1>6. entries' \in Seq(Entry) /\ Len(entries') = Len(kept) + 1
    <2> DEFINE e == Append(kept, Block(signature, text))
    <2>1. e \in Seq(Entry) /\ Len(e) = Len(kept) + 1
      BY <1>2, <1>4, AppendProperties
    <2> HIDE DEF e
    <2> QED
      BY <1>5, <2>1 DEF e
  <1>7. ASSUME NEW i \in DOMAIN entries'
        PROVE  /\ entries'[i].signature \in answered'
               /\ entries'[i].thinking = signed[entries'[i].signature]
    <2>1. CASE i = Len(kept) + 1
      <3> DEFINE e == Append(kept, Block(signature, text))
      <3>0. e[Len(kept) + 1] = Block(signature, text)
        BY <1>2, <1>4, AppendProperties
      <3> HIDE DEF e
      <3>1. entries'[i] = Block(signature, text)
        BY <1>5, <2>1, <3>0 DEF e
      <3>2. Block(signature, text).signature = signature /\ Block(signature, text).thinking = text
        BY DEF Block
      <3> QED
        BY <3>1, <3>2
    <2>2. CASE i # Len(kept) + 1
      <3>1. i \in 1 .. Len(kept) /\ entries'[i] = kept[i]
        <4>1. i \in 1 .. Len(kept) + 1
          BY <1>6, LenProperties
        <4> QED
          BY <1>2, <1>4, <1>5, <2>2, <4>1, AppendProperties
      <3>2. PICK j \in DOMAIN entries : kept[i] = entries[j]
        BY <1>3, <3>1
      <3> QED
        BY <3>1, <3>2 DEF ReplayInv, EntriesAreSigned
    <2> QED
      BY <2>1, <2>2
  <1> QED
    BY <1>6, <1>7 DEF EntriesAreSigned

\* Set leaves signed entries, if it is given the text signed under the signature.
LEMMA SetIsSigned ==
    ASSUME ReplayInv, NEW signature \in Signatures, Set(signature, signed[signature]),
           signed' = signed, answered' = answered \cup {signature}
    PROVE  EntriesAreSigned'
  <1>1. CASE UNCHANGED entries
    BY <1>1 DEF ReplayInv, EntriesAreSigned
  <1>2. CASE \E k \in 0 .. Len(Without(signature)) :
               entries' = Append(SubSeq(Without(signature), k + 1, Len(Without(signature))),
                                 Block(signature, signed[signature]))
    <2>1. PICK k \in 0 .. Len(Without(signature)) :
               entries' = Append(SubSeq(Without(signature), k + 1, Len(Without(signature))),
                                 Block(signature, signed[signature]))
      BY <1>2
    <2>2. Len(Without(signature)) \in Nat
      BY WithoutIsSigned, LenProperties
    <2>3. k \in Nat /\ k <= Len(Without(signature))
      BY <2>2
    <2>4. k <= Len(Without(signature)) =>
              (entries' = Append(SubSeq(Without(signature), k + 1, Len(Without(signature))),
                                 Block(signature, signed[signature]))
               => EntriesAreSigned')
      BY <2>3, AppendIsSigned
    <2> QED
      BY <2>1, <2>3, <2>4
  <1> QED
    BY <1>1, <1>2 DEF Set, Block, cacheVars

\* Get leaves signed entries.
LEMMA GetIsSigned ==
    ASSUME ReplayInv, NEW signature, Get(signature), signed' = signed, answered' = answered
    PROVE  EntriesAreSigned'
  <1> DEFINE w == Without(signature)
  <1>1. signature \in answered /\ signature \in Signatures /\ Lookup(signature) = signed[signature]
    BY LookupIsSigned DEF Get, ReplayInv
  <1>2. w \in Seq(Entry) /\ Len(w) \in Nat
    BY WithoutIsSigned, LenProperties
  <1>3. SubSeq(w, 0 + 1, Len(w)) = w
    BY <1>2, SubSeqFull
  <1>4. entries' = Append(SubSeq(w, 0 + 1, Len(w)), Block(signature, signed[signature]))
    BY <1>1, <1>3 DEF Get, Block
  <1>5. answered' = answered \cup {signature}
    BY <1>1
  <1>6. 0 \in Nat /\ 0 <= Len(w)
    BY <1>2
  <1>7. \A k \in Nat : k <= Len(w) /\ entries' = Append(SubSeq(w, k + 1, Len(w)),
                                                   Block(signature, signed[signature]))
            => EntriesAreSigned'
    BY <1>1, <1>5, AppendIsSigned
  <1> QED
    BY <1>4, <1>6, <1>7

\* The invariant of every reachable state.
THEOREM ReplaySafe == Spec => []ReplayInv
  <1>1. Init => ReplayInv
    BY EmptySeq DEF Init, CacheInit, ReplayInv, EntriesAreSigned, HistoryIsShown, WireIsSigned
  <1>2. ReplayInv /\ [Next]_vars => ReplayInv'
    <2> SUFFICES ASSUME ReplayInv, [Next]_vars PROVE ReplayInv'
      OBVIOUS
    <2> USE DEF ReplayInv
    <2>1. ASSUME NEW signature \in Signatures, Answer(signature) PROVE ReplayInv'
      <3>1. EntriesAreSigned'
        BY <2>1, SetIsSigned DEF Answer
      <3>2. HistoryIsShown'
        BY <2>1 DEF Answer, HistoryIsShown, Block
      <3>3. WireIsSigned'
        BY <2>1 DEF Answer, WireIsSigned
      <3> QED
        BY <2>1, <3>1, <3>2, <3>3 DEF Answer
    <2>2. ASSUME NEW signature \in Signatures, Cut(signature) PROVE ReplayInv'
      <3>1. EntriesAreSigned'
        BY <2>2 DEF Cut, EntriesAreSigned, cacheVars
      <3>2. HistoryIsShown'
        BY <2>2 DEF Cut, HistoryIsShown, Block
      <3>3. WireIsSigned'
        BY <2>2 DEF Cut, WireIsSigned
      <3> QED
        BY <2>2, <3>1, <3>2, <3>3 DEF Cut
    <2>3. ASSUME NEW block \in history, Replay(block) PROVE ReplayInv'
      <3>0. signed' = signed /\ answered' = answered /\ history' = history
        BY <2>3 DEF Replay
      <3>1. CASE block.thinking = Empty
        <4>1. EntriesAreSigned' /\ HistoryIsShown'
          BY <2>3, <3>0, <3>1 DEF Replay, EntriesAreSigned, HistoryIsShown, cacheVars
        <4>2. \/ block.signature = Broken
              \/ block.signature \in answered /\ block.thinking = signed[block.signature]
          <5>1. CASE block.signature \in answered /\ block.thinking = Shown(signed[block.signature])
            <6>1. signed[block.signature] \in Thinking
              BY <5>1, ReplayAssumption
            <6> QED
              BY <3>1, <5>1, <6>1, ReplayAssumption
          <5> QED
            BY <5>1 DEF HistoryIsShown
        <4>3. WireIsSigned'
          BY <2>3, <3>0, <3>1, <4>2 DEF Replay, WireIsSigned
        <4> QED
          BY <3>0, <4>1, <4>3
      <3>2. CASE block.thinking # Empty /\ Caches(block.signature)
        <4>1. Get(block.signature)
              /\ wire' = wire \cup {Block(block.signature, Lookup(block.signature))}
          BY <2>3, <3>2 DEF Replay
        <4>2. EntriesAreSigned'
          BY <3>0, <4>1, GetIsSigned
        <4>3. HistoryIsShown'
          BY <3>0 DEF HistoryIsShown
        <4>4. Lookup(block.signature) = signed[block.signature] /\ block.signature \in answered
          BY <3>2, LookupIsSigned
        <4>5. WireIsSigned'
          BY <3>0, <4>1, <4>4 DEF WireIsSigned, Block
        <4> QED
          BY <3>0, <4>2, <4>3, <4>5
      <3>3. CASE block.thinking # Empty /\ ~Caches(block.signature)
        <4>1. UNCHANGED <<entries, wire>>
          BY <2>3, <3>3 DEF Replay, cacheVars
        <4> QED
          BY <3>0, <4>1 DEF EntriesAreSigned, HistoryIsShown, WireIsSigned
      <3> QED
        BY <3>1, <3>2, <3>3
    <2>4. CASE Restart
      BY <2>4, EmptySeq DEF Restart, Clear, EntriesAreSigned, HistoryIsShown, WireIsSigned
    <2>5. CASE UNCHANGED vars
      BY <2>5 DEF vars, cacheVars, EntriesAreSigned, HistoryIsShown, WireIsSigned
    <2> QED
      BY <2>1, <2>2, <2>3, <2>4, <2>5 DEF Next
  <1> QED
    BY <1>1, <1>2, PTL DEF Spec

\* thinking-cache.ts:30: the cache holds what the upstream signed and nothing else.
THEOREM CacheHoldsSignedBytes == Spec => []CacheIsSigned
  <1>1. ReplayInv => CacheIsSigned
    BY DEF ReplayInv, EntriesAreSigned, CacheIsSigned, Range
  <1> QED
    BY <1>1, ReplaySafe, PTL

\* thinking-replay.ts:20: a block is sent back as it was signed, or not at all.
THEOREM ThinkingGoesBackAsSigned == Spec => []WireIsSigned
  BY ReplaySafe, PTL DEF ReplayInv

-----------------------------------------------------------------------------
(* The cache holds what was used last                                      *)

\* A set of numbers that has 0, and n + 1 with every n in it, has them all:
\* the least number outside it cannot be.
LEMMA SetInduction ==
    ASSUME NEW S, 0 \in S, \A n \in Nat : n \in S => n + 1 \in S
    PROVE  Nat \subseteq S
<1> SUFFICES ASSUME Nat \ S # {} PROVE FALSE
  OBVIOUS
<1>1. IsWellFoundedOn(OpToRel(<, Nat), Nat)
  BY NatLessThanWellFounded
<1>2. PICK x \in Nat \ S : \A y \in Nat \ S : ~(<<y, x>> \in OpToRel(<, Nat))
  <2> DEFINE T == Nat \ S
             R == OpToRel(<, Nat)
  <2>1. T \subseteq Nat /\ T # {} /\ IsWellFoundedOn(R, Nat)
    BY <1>1
  <2> HIDE DEF T, R
  <2>2. \E x \in T : \A y \in T : ~(<<y, x>> \in R)
    BY <2>1, WFMin
  <2> QED BY <2>2 DEF T, R
<1>3. x # 0 /\ x - 1 \in Nat /\ (x - 1) + 1 = x /\ x - 1 < x
  OBVIOUS
<1>4. x - 1 \notin S
  BY <1>3
<1>5. <<x - 1, x>> \in OpToRel(<, Nat)
  BY <1>3 DEF OpToRel
<1> QED BY <1>2, <1>3, <1>4, <1>5

\* f is what step makes of base at the places 1 .. n, one after the other.
IsWalk(f, base, n, step) == f[0] = base /\ \A i \in 1 .. n : f[i] = step[<<i, f[i - 1]>>]

\* A walk over 1 .. n exists.
LEMMA Walk ==
    ASSUME NEW S, NEW base \in S, NEW n \in Nat, NEW step \in [(1 .. n) \X S -> S]
    PROVE  \E f \in [0 .. n -> S] : IsWalk(f, base, n, step)
<1> DEFINE Good(k, f) == f[0] = base /\ \A i \in 1 .. k : f[i] = step[<<i, f[i - 1]>>]
           T == {k \in Nat : k <= n => \E f \in [0 .. k -> S] : Good(k, f)}
<1>1. 0 \in T
  <2> DEFINE f == [i \in 0 .. 0 |-> base]
  <2>1. f \in [0 .. 0 -> S] /\ Good(0, f)
    OBVIOUS
  <2> QED BY <2>1
<1>2. ASSUME NEW k \in Nat, k \in T PROVE k + 1 \in T
  <2> SUFFICES ASSUME k + 1 <= n PROVE \E f \in [0 .. k + 1 -> S] : Good(k + 1, f)
    OBVIOUS
  <2>1. PICK g \in [0 .. k -> S] : Good(k, g)
    BY <1>2
  <2> DEFINE f == [i \in 0 .. k + 1 |-> IF i <= k THEN g[i] ELSE step[<<k + 1, g[k]>>]]
  <2>2. step[<<k + 1, g[k]>>] \in S
    <3>1. <<k + 1, g[k]>> \in (1 .. n) \X S
      BY <2>1
    <3> QED BY <3>1
  <2>3. f \in [0 .. k + 1 -> S]
    BY <2>1, <2>2
  <2>4. Good(k + 1, f)
    <3>1. f[0] = base
      BY <2>1
    <3>2. ASSUME NEW i \in 1 .. k + 1 PROVE f[i] = step[<<i, f[i - 1]>>]
      <4>1. CASE i = k + 1
        <5>1. i - 1 = k /\ ~(i <= k) /\ k \in 0 .. k + 1 /\ i \in 0 .. k + 1
          BY <4>1
        <5>2. f[i - 1] = g[k] /\ f[i] = step[<<k + 1, g[k]>>]
          BY <5>1
        <5> QED BY <5>2, <4>1
      <4>2. CASE i \in 1 .. k
        BY <4>2, <2>1
      <4> QED BY <4>1, <4>2
    <3> QED BY <3>1, <3>2
  <2> QED BY <2>3, <2>4
<1> HIDE DEF T
<1>3. n \in T
  BY <1>1, <1>2, SetInduction
<1> QED BY <1>3 DEF T, IsWalk

\* The bytes of each prefix are those of the shorter one and of its last entry.
LEMMA SizesWalk ==
    ASSUME NEW es \in Seq(Entry)
    PROVE  /\ SizesTo(es)[0] = 0
           /\ \A k \in 1 .. Len(es) : SizesTo(es)[k] = SizesTo(es)[k - 1] + Size(es[k].thinking)
           /\ \A k \in 0 .. Len(es) : SizesTo(es)[k] \in Nat
<1> DEFINE P(f) == f = [k \in 0 .. Len(es) |-> IF k = 0 THEN 0 ELSE f[k - 1] + Size(es[k].thinking)]
           F == CHOOSE f : P(f)
           adds == [x \in (1 .. Len(es)) \X Nat |-> x[2] + Size(es[x[1]].thinking)]
<1>0. ASSUME NEW k \in 1 .. Len(es) PROVE Size(es[k].thinking) \in Nat
  <2>1. es[k] \in Entry
    OBVIOUS
  <2> QED BY <2>1, CacheAssumption DEF Entry
<1>1. adds \in [(1 .. Len(es)) \X Nat -> Nat]
  BY <1>0
<1>2. PICK g \in [0 .. Len(es) -> Nat] :
          g[0] = 0 /\ \A i \in 1 .. Len(es) : g[i] = adds[<<i, g[i - 1]>>]
  <2> DEFINE m == Len(es)
             st == adds
  <2>1. 0 \in Nat /\ m \in Nat /\ st \in [(1 .. m) \X Nat -> Nat]
    BY <1>1
  <2> HIDE DEF adds, P, F, m, st
  <2>2. \E g \in [0 .. m -> Nat] : IsWalk(g, 0, m, st)
    BY ONLY <2>1, Walk
  <2> QED BY <2>2 DEF m, st, IsWalk
<1>3. \A i \in 1 .. Len(es) : g[i] = g[i - 1] + Size(es[i].thinking)
  <2> SUFFICES ASSUME NEW i \in 1 .. Len(es) PROVE g[i] = g[i - 1] + Size(es[i].thinking)
    OBVIOUS
  <2>1. i - 1 \in 0 .. Len(es)
    OBVIOUS
  <2>2. <<i, g[i - 1]>> \in (1 .. Len(es)) \X Nat
    BY <2>1
  <2>3. adds[<<i, g[i - 1]>>] = g[i - 1] + Size(es[i].thinking)
    BY <2>2
  <2> HIDE DEF adds
  <2> QED BY <2>3, <1>2
<1>4. P(g)
  <2>1. \A k \in 0 .. Len(es) : g[k] = IF k = 0 THEN 0 ELSE g[k - 1] + Size(es[k].thinking)
    BY <1>2, <1>3
  <2> HIDE DEF adds, F
  <2> QED BY <2>1, <1>2
<1> HIDE DEF P, F, adds
<1>5. P(F)
  BY <1>4 DEF F
<1>6. F = SizesTo(es)
  BY DEF F, P, SizesTo
<1>7. F = [k \in 0 .. Len(es) |-> IF k = 0 THEN 0 ELSE F[k - 1] + Size(es[k].thinking)]
  BY <1>5 DEF P
<1>8. F[0] = 0 /\ \A k \in 1 .. Len(es) : F[k] = F[k - 1] + Size(es[k].thinking)
  BY <1>7
<1>9. \A k \in Nat : k <= Len(es) => F[k] \in Nat
  <2> DEFINE T == {k \in Nat : k <= Len(es) => F[k] \in Nat}
  <2>1. 0 \in T
    BY <1>8
  <2>2. ASSUME NEW k \in Nat, k \in T PROVE k + 1 \in T
    <3> SUFFICES ASSUME k + 1 <= Len(es) PROVE F[k + 1] \in Nat
      OBVIOUS
    <3>1. k + 1 \in 1 .. Len(es) /\ (k + 1) - 1 = k /\ F[k] \in Nat
      BY <2>2
    <3> QED BY <3>1, <1>0, <1>8
  <2> HIDE DEF T
  <2>3. Nat \subseteq T
    BY <2>1, <2>2, SetInduction
  <2> QED BY <2>3 DEF T
<1> QED BY <1>6, <1>8, <1>9

\* The prefixes of two sequences that agree up to n take the same bytes.
LEMMA SizesAgree ==
    ASSUME NEW es \in Seq(Entry), NEW fs \in Seq(Entry), NEW n \in Nat, n <= Len(es), n <= Len(fs),
           \A i \in 1 .. n : es[i] = fs[i]
    PROVE  SizesTo(es)[n] = SizesTo(fs)[n]
<1> DEFINE E == SizesTo(es)
           F == SizesTo(fs)
           T == {k \in Nat : k <= n => E[k] = F[k]}
<1>1. /\ E[0] = 0 /\ \A k \in 1 .. Len(es) : E[k] = E[k - 1] + Size(es[k].thinking)
      /\ F[0] = 0 /\ \A k \in 1 .. Len(fs) : F[k] = F[k - 1] + Size(fs[k].thinking)
  BY SizesWalk
<1> HIDE DEF E, F
<1>2. 0 \in T
  BY <1>1
<1>3. ASSUME NEW k \in Nat, k \in T PROVE k + 1 \in T
  <2> SUFFICES ASSUME k + 1 <= n PROVE E[k + 1] = F[k + 1]
    OBVIOUS
  <2>1. k + 1 \in 1 .. Len(es) /\ k + 1 \in 1 .. Len(fs) /\ k + 1 \in 1 .. n /\ (k + 1) - 1 = k /\ E[k] = F[k]
    BY <1>3
  <2>2. E[k + 1] = E[k] + Size(es[k + 1].thinking) /\ F[k + 1] = F[k] + Size(fs[k + 1].thinking)
    BY <1>1, <2>1
  <2> QED BY <2>1, <2>2
<1> HIDE DEF T
<1>4. Nat \subseteq T
  BY <1>2, <1>3, SetInduction
<1> QED BY <1>4 DEF T, E, F

\* A sequence behind another takes its own bytes.
LEMMA SizesBehind ==
    ASSUME NEW es \in Seq(Entry), NEW fs \in Seq(Entry), NEW m \in Nat, m + Len(fs) <= Len(es),
           \A i \in 1 .. Len(fs) : es[m + i] = fs[i]
    PROVE  SizesTo(es)[m + Len(fs)] = SizesTo(es)[m] + Sizes(fs)
<1> DEFINE E == SizesTo(es)
           F == SizesTo(fs)
           T == {k \in Nat : k <= Len(fs) => E[m + k] = E[m] + F[k]}
<1>1. /\ E[0] = 0 /\ \A k \in 1 .. Len(es) : E[k] = E[k - 1] + Size(es[k].thinking)
      /\ F[0] = 0 /\ \A k \in 1 .. Len(fs) : F[k] = F[k - 1] + Size(fs[k].thinking)
      /\ \A k \in 0 .. Len(es) : E[k] \in Nat
      /\ \A k \in 0 .. Len(fs) : F[k] \in Nat
  BY SizesWalk
<1> HIDE DEF E, F
<1>2. 0 \in T
  <2>1. m + 0 = m /\ E[m] \in Nat
    BY <1>1
  <2> QED BY <1>1, <2>1
<1>3. ASSUME NEW k \in Nat, k \in T PROVE k + 1 \in T
  <2> SUFFICES ASSUME k + 1 <= Len(fs) PROVE E[m + (k + 1)] = E[m] + F[k + 1]
    OBVIOUS
  <2>1. /\ m + (k + 1) \in 1 .. Len(es) /\ k + 1 \in 1 .. Len(fs)
        /\ (k + 1) - 1 = k /\ (m + (k + 1)) - 1 = m + k /\ E[m + k] = E[m] + F[k]
    BY <1>3
  <2>2. E[m + (k + 1)] = E[m + k] + Size(es[m + (k + 1)].thinking) /\ F[k + 1] = F[k] + Size(fs[k + 1].thinking)
    BY <1>1, <2>1
  <2>3. es[m + (k + 1)] = fs[k + 1]
    BY <2>1
  <2>4. fs[k + 1] \in Entry
    BY <2>1
  <2>5. Size(fs[k + 1].thinking) \in Nat
    BY <2>4, CacheAssumption DEF Entry
  <2>6. E[m] \in Nat /\ F[k] \in Nat
    BY <1>1, <2>1
  <2> QED BY <2>1, <2>2, <2>3, <2>5, <2>6
<1> HIDE DEF T
<1>4. Nat \subseteq T
  BY <1>2, <1>3, SetInduction
<1>5. Len(fs) \in T
  BY <1>4
<1> QED BY <1>5 DEF T, E, F, Sizes

\* A sequence cut in two takes the bytes of both parts; no sequence takes none.
LEMMA SizesOfParts ==
    ASSUME NEW es \in Seq(Entry), NEW k \in 0 .. Len(es)
    PROVE  /\ SubSeq(es, 1, k) \in Seq(Entry) /\ SubSeq(es, k + 1, Len(es)) \in Seq(Entry)
           /\ Sizes(SubSeq(es, 1, k)) = SizesTo(es)[k] /\ Sizes(SubSeq(es, k + 1, Len(es))) \in Nat
           /\ Sizes(es) = Sizes(SubSeq(es, 1, k)) + Sizes(SubSeq(es, k + 1, Len(es)))
           /\ k = Len(es) => Sizes(SubSeq(es, k + 1, Len(es))) = 0
<1> DEFINE u == SubSeq(es, 1, k)
           w == SubSeq(es, k + 1, Len(es))
<1>1. u \in Seq(Entry) /\ Len(u) = k /\ \A i \in 1 .. k : u[i] = es[i]
  OBVIOUS
<1>2. w \in Seq(Entry) /\ Len(w) = Len(es) - k /\ \A i \in 1 .. Len(w) : w[i] = es[k + i]
  OBVIOUS
<1> HIDE DEF u, w
<1>3. SizesTo(u)[k] = SizesTo(es)[k]
  BY <1>1, SizesAgree
<1>4. SizesTo(es)[k + Len(w)] = SizesTo(es)[k] + Sizes(w)
  <2>1. k \in Nat /\ k + Len(w) <= Len(es)
    BY <1>2
  <2> QED BY <2>1, <1>2, SizesBehind
<1>5. k + Len(w) = Len(es)
  BY <1>2
<1>6. Sizes(w) \in Nat
  BY <1>2, SizesWalk DEF Sizes
<1>7. ASSUME k = Len(es) PROVE Sizes(w) = 0
  <2>1. Len(w) = 0
    BY <1>2, <1>7
  <2> QED BY <2>1, <1>2, SizesWalk DEF Sizes
<1> QED BY <1>1, <1>2, <1>3, <1>4, <1>5, <1>6, <1>7 DEF Sizes, u, w

\* What an entry adds.
LEMMA SizesOfAppend ==
    ASSUME NEW es \in Seq(Entry), NEW e \in Entry
    PROVE  Sizes(Append(es, e)) = Sizes(es) + Size(e.thinking)
<1> DEFINE f == Append(es, e)
<1>1. f \in Seq(Entry) /\ Len(f) = Len(es) + 1 /\ f[Len(es) + 1] = e /\ \A i \in 1 .. Len(es) : f[i] = es[i]
  OBVIOUS
<1> HIDE DEF f
<1>2. SizesTo(f)[Len(es)] = SizesTo(es)[Len(es)]
  BY <1>1, SizesAgree
<1>3. SizesTo(f)[Len(es) + 1] = SizesTo(f)[Len(es)] + Size(e.thinking)
  BY <1>1, SizesWalk
<1> QED BY <1>1, <1>2, <1>3 DEF f, Sizes

\* RemoveAt, place by place.
LEMMA RemoveAtIs ==
    ASSUME NEW S, NEW s \in Seq(S), NEW n \in 1 .. Len(s)
    PROVE  /\ RemoveAt(s, n) \in Seq(S) /\ Len(RemoveAt(s, n)) = Len(s) - 1
           /\ \A i \in 1 .. Len(s) - 1 : RemoveAt(s, n)[i] = IF i < n THEN s[i] ELSE s[i + 1]
<1> DEFINE u == SubSeq(s, 1, n - 1)
           w == SubSeq(s, n + 1, Len(s))
<1>1. u \in Seq(S) /\ Len(u) = n - 1 /\ \A i \in 1 .. n - 1 : u[i] = s[i]
  OBVIOUS
<1>2. w \in Seq(S) /\ Len(w) = Len(s) - n /\ \A i \in 1 .. Len(s) - n : w[i] = s[n + i]
  OBVIOUS
<1> HIDE DEF u, w
<1>3. RemoveAt(s, n) = u \o w
  BY DEF RemoveAt, u, w
<1>4. /\ u \o w \in Seq(S) /\ Len(u \o w) = Len(s) - 1
      /\ \A i \in 1 .. Len(s) - 1 : (u \o w)[i] = IF i <= n - 1 THEN u[i] ELSE w[i - (n - 1)]
  <2>1. /\ u \o w \in Seq(S) /\ Len(u \o w) = Len(u) + Len(w)
        /\ \A i \in 1 .. Len(u) + Len(w) : (u \o w)[i] = IF i <= Len(u) THEN u[i] ELSE w[i - Len(u)]
    BY <1>1, <1>2, ConcatProperties
  <2>2. Len(u) + Len(w) = Len(s) - 1 /\ Len(u) = n - 1
    BY <1>1, <1>2
  <2> QED BY <2>1, <2>2
<1>5. ASSUME NEW i \in 1 .. Len(s) - 1 PROVE (u \o w)[i] = IF i < n THEN s[i] ELSE s[i + 1]
  <2>1. CASE i < n
    BY <2>1, <1>1, <1>4
  <2>2. CASE ~(i < n)
    <3>1. i - (n - 1) \in 1 .. Len(s) - n /\ n + (i - (n - 1)) = i + 1
      BY <2>2
    <3> QED BY <3>1, <2>2, <1>2, <1>4
  <2> QED BY <2>1, <2>2
<1> QED BY <1>3, <1>4, <1>5

\* What is left takes the bytes of the whole but for those of the entry removed.
LEMMA SizesOfRemoved ==
    ASSUME NEW es \in Seq(Entry), NEW n \in 1 .. Len(es)
    PROVE  Sizes(es) = Sizes(RemoveAt(es, n)) + Size(es[n].thinking)
<1> DEFINE r == RemoveAt(es, n)
           w == SubSeq(es, n + 1, Len(es))
<1>1. /\ r \in Seq(Entry) /\ Len(r) = Len(es) - 1
      /\ \A i \in 1 .. Len(es) - 1 : r[i] = IF i < n THEN es[i] ELSE es[i + 1]
  BY RemoveAtIs
<1>2. w \in Seq(Entry) /\ Len(w) = Len(es) - n /\ \A i \in 1 .. Len(w) : w[i] = es[n + i]
  OBVIOUS
<1> HIDE DEF r, w
<1>3. SizesTo(r)[n - 1] = SizesTo(es)[n - 1]
  <2>1. n - 1 \in Nat /\ n - 1 <= Len(es) /\ n - 1 <= Len(r) /\ \A i \in 1 .. n - 1 : r[i] = es[i]
    BY <1>1
  <2> QED BY <2>1, <1>1, SizesAgree
<1>4. SizesTo(r)[(n - 1) + Len(w)] = SizesTo(r)[n - 1] + Sizes(w)
  <2>1. n - 1 \in Nat /\ (n - 1) + Len(w) <= Len(r)
    BY <1>1, <1>2
  <2>2. ASSUME NEW i \in 1 .. Len(w) PROVE r[(n - 1) + i] = w[i]
    <3>1. (n - 1) + i \in 1 .. Len(es) - 1 /\ ~((n - 1) + i < n) /\ ((n - 1) + i) + 1 = n + i
      BY <1>2
    <3>2. r[(n - 1) + i] = es[n + i]
      BY <3>1, <1>1
    <3> QED BY <3>2, <1>2
  <2> QED BY <2>1, <2>2, <1>1, <1>2, SizesBehind
<1>5. SizesTo(es)[n + Len(w)] = SizesTo(es)[n] + Sizes(w)
  <2>1. n \in Nat /\ n + Len(w) <= Len(es)
    BY <1>2
  <2> QED BY <2>1, <1>2, SizesBehind
<1>6. SizesTo(es)[n] = SizesTo(es)[n - 1] + Size(es[n].thinking) /\ SizesTo(es)[n - 1] \in Nat
  BY SizesWalk
<1>7. Sizes(w) \in Nat
  BY <1>2, SizesWalk DEF Sizes
<1>8. es[n] \in Entry
  OBVIOUS
<1>9. Size(es[n].thinking) \in Nat
  BY <1>8, CacheAssumption DEF Entry
<1>10. n + Len(w) = Len(es) /\ (n - 1) + Len(w) = Len(r)
  BY <1>1, <1>2
<1> QED BY <1>3, <1>4, <1>5, <1>6, <1>7, <1>9, <1>10 DEF Sizes, r
\* The signatures of es are the last ones of us, which names each once.
Tails(es, us) ==
    /\ es \in Seq(Entry) /\ us \in Seq(Signatures)
    /\ \A i, j \in 1 .. Len(us) : us[i] = us[j] => i = j
    /\ Len(es) <= Len(us)
    /\ \A i \in 1 .. Len(es) : es[i].signature = us[(Len(us) - Len(es)) + i]

\* The invariant of the cache with the history of its uses.
KeptInv ==
    /\ Tails(entries, used) /\ CacheIsBounded /\ bytes \in Nat
    /\ signed \in Contents /\ answered \subseteq Signatures
    /\ \A block \in history : block.signature \in answered \cup {Broken}
    /\ ~alone => \A i \in 1 .. Len(entries) : entries[i].signature \in answered

\* The place among the entries of the n-th one that is left without a signature.
PlaceBefore(signature, n) == IF Caches(signature) /\ n >= At(signature) THEN n + 1 ELSE n

\* A signature has one entry.
LEMMA TailsAreDistinct ==
    ASSUME NEW es, NEW us, Tails(es, us), NEW i \in 1 .. Len(es), NEW j \in 1 .. Len(es),
           es[i].signature = es[j].signature
    PROVE  i = j
<1>1. Len(us) \in Nat /\ Len(es) \in Nat
  BY DEF Tails
<1>2. /\ (Len(us) - Len(es)) + i \in 1 .. Len(us) /\ (Len(us) - Len(es)) + j \in 1 .. Len(us)
      /\ us[(Len(us) - Len(es)) + i] = us[(Len(us) - Len(es)) + j]
  BY <1>1 DEF Tails
<1>3. (Len(us) - Len(es)) + i = (Len(us) - Len(es)) + j
  BY <1>2 DEF Tails
<1> QED BY <1>1, <1>3

\* Removing any element that is not among the signatures of es leaves them the last ones.
LEMMA TailsOfRest ==
    ASSUME NEW es, NEW us, Tails(es, us), NEW k \in 1 .. Len(us) - Len(es)
    PROVE  Tails(es, RemoveAt(us, k))
<1>0. us \in Seq(Signatures) /\ Len(us) \in Nat /\ es \in Seq(Entry) /\ Len(es) \in Nat /\ Len(es) <= Len(us)
  BY DEF Tails
<1>1. /\ RemoveAt(us, k) \in Seq(Signatures) /\ Len(RemoveAt(us, k)) = Len(us) - 1
      /\ \A i \in 1 .. Len(us) - 1 : RemoveAt(us, k)[i] = IF i < k THEN us[i] ELSE us[i + 1]
  <2>1. k \in 1 .. Len(us)
    BY <1>0
  <2> QED BY <2>1, <1>0, RemoveAtIs
<1> DEFINE r == RemoveAt(us, k)
<1> HIDE DEF r
<1>2. /\ r \in Seq(Signatures) /\ Len(r) = Len(us) - 1
      /\ \A i \in 1 .. Len(us) - 1 : r[i] = IF i < k THEN us[i] ELSE us[i + 1]
  BY <1>1 DEF r
<1>3. ASSUME NEW i \in 1 .. Len(r), NEW j \in 1 .. Len(r), r[i] = r[j] PROVE i = j
  <2>1. (IF i < k THEN i ELSE i + 1) = (IF j < k THEN j ELSE j + 1)
    BY <1>0, <1>2, <1>3 DEF Tails
  <2> QED BY <2>1
<1>4. ASSUME NEW i \in 1 .. Len(es) PROVE es[i].signature = r[(Len(r) - Len(es)) + i]
  <2>1. /\ (Len(r) - Len(es)) + i \in 1 .. Len(us) - 1 /\ ~((Len(r) - Len(es)) + i < k)
        /\ ((Len(r) - Len(es)) + i) + 1 = (Len(us) - Len(es)) + i
    BY <1>0, <1>2
  <2>2. r[(Len(r) - Len(es)) + i] = us[(Len(us) - Len(es)) + i]
    BY <2>1, <1>2
  <2> QED BY <2>2 DEF Tails
<1>5. Tails(es, r)
  <2>1. Len(es) <= Len(r)
    BY <1>0, <1>2
  <2> QED BY <1>0, <1>2, <1>3, <1>4, <2>1 DEF Tails
<1> QED BY <1>5 DEF r

\* Removing an entry and its signature leaves the others in step.
LEMMA TailsOfRemoved ==
    ASSUME NEW es, NEW us, Tails(es, us), NEW n \in 1 .. Len(es)
    PROVE  Tails(RemoveAt(es, n), RemoveAt(us, (Len(us) - Len(es)) + n))
<1> DEFINE d == Len(us) - Len(es)
           r == RemoveAt(us, d + n)
           q == RemoveAt(es, n)
<1>0. /\ us \in Seq(Signatures) /\ Len(us) \in Nat /\ es \in Seq(Entry) /\ Len(es) \in Nat
      /\ Len(es) <= Len(us) /\ d \in Nat /\ d + n \in 1 .. Len(us) /\ Len(us) = d + Len(es)
      /\ \A i \in 1 .. Len(es) : es[i].signature = us[d + i]
  BY DEF Tails
<1>1. /\ r \in Seq(Signatures) /\ Len(r) = Len(us) - 1
      /\ \A i \in 1 .. Len(us) - 1 : r[i] = IF i < d + n THEN us[i] ELSE us[i + 1]
  BY <1>0, RemoveAtIs
<1>2. /\ q \in Seq(Entry) /\ Len(q) = Len(es) - 1
      /\ \A i \in 1 .. Len(es) - 1 : q[i] = IF i < n THEN es[i] ELSE es[i + 1]
  BY <1>0, RemoveAtIs
<1> HIDE DEF r, q, d
<1>3. ASSUME NEW i \in 1 .. Len(r), NEW j \in 1 .. Len(r), r[i] = r[j] PROVE i = j
  <2>1. (IF i < d + n THEN i ELSE i + 1) = (IF j < d + n THEN j ELSE j + 1)
    BY <1>0, <1>1, <1>3 DEF Tails
  <2> QED BY <2>1, <1>0
<1>4. ASSUME NEW i \in 1 .. Len(q) PROVE q[i].signature = r[(Len(r) - Len(q)) + i]
  <2>1. (Len(r) - Len(q)) + i = d + i /\ d + i \in 1 .. Len(us) - 1 /\ i \in 1 .. Len(es) - 1
    BY <1>0, <1>1, <1>2
  <2>2. CASE i < n
    <3>1. q[i] = es[i] /\ i \in 1 .. Len(es)
      BY <2>1, <2>2, <1>0, <1>2
    <3>2. d + i < d + n
      BY <2>2, <1>0
    <3>3. r[d + i] = us[d + i]
      BY <3>2, <2>1, <1>1
    <3> QED BY <3>1, <3>3, <2>1, <1>0
  <2>3. CASE ~(i < n)
    <3>1. q[i] = es[i + 1] /\ i + 1 \in 1 .. Len(es) /\ (d + i) + 1 = d + (i + 1)
      BY <2>1, <2>3, <1>0, <1>2
    <3>2. ~(d + i < d + n)
      BY <2>3, <2>1, <1>0
    <3>3. r[d + i] = us[(d + i) + 1]
      BY <3>2, <2>1, <1>1
    <3> QED BY <3>1, <3>3, <2>1, <1>0
  <2> QED BY <2>2, <2>3
<1>5. Len(q) <= Len(r)
  BY <1>0, <1>1, <1>2
<1>6. Tails(q, r)
  BY <1>1, <1>2, <1>3, <1>4, <1>5 DEF Tails
<1> QED BY <1>6 DEF q, r, d

\* The entries behind the first k are the last ones as well.
LEMMA TailsOfSuffix ==
    ASSUME NEW es, NEW us, Tails(es, us), NEW k \in 0 .. Len(es)
    PROVE  Tails(SubSeq(es, k + 1, Len(es)), us)
<1> DEFINE w == SubSeq(es, k + 1, Len(es))
<1>0. us \in Seq(Signatures) /\ Len(us) \in Nat /\ es \in Seq(Entry) /\ Len(es) \in Nat /\ Len(es) <= Len(us)
  BY DEF Tails
<1>1. w \in Seq(Entry) /\ Len(w) = Len(es) - k /\ \A i \in 1 .. Len(w) : w[i] = es[k + i]
  BY <1>0
<1> HIDE DEF w
<1>2. ASSUME NEW i \in 1 .. Len(w) PROVE w[i].signature = us[(Len(us) - Len(w)) + i]
  <2>1. k + i \in 1 .. Len(es) /\ (Len(us) - Len(w)) + i = (Len(us) - Len(es)) + (k + i)
    BY <1>0, <1>1
  <2> QED BY <2>1, <1>1 DEF Tails
<1>3. Tails(w, us)
  <2>1. Len(w) <= Len(us)
    BY <1>0, <1>1
  <2> QED BY <1>0, <1>1, <1>2, <2>1 DEF Tails
<1> QED BY <1>3 DEF w

\* A new entry and its signature.
LEMMA TailsOfAppend ==
    ASSUME NEW es, NEW us, Tails(es, us), NEW e \in Entry, \A i \in 1 .. Len(us) : us[i] # e.signature
    PROVE  Tails(Append(es, e), Append(us, e.signature))
<1> DEFINE q == Append(es, e)
           r == Append(us, e.signature)
<1>0. us \in Seq(Signatures) /\ Len(us) \in Nat /\ es \in Seq(Entry) /\ Len(es) \in Nat
      /\ Len(es) <= Len(us) /\ e.signature \in Signatures
  BY DEF Tails, Entry
<1>1. q \in Seq(Entry) /\ Len(q) = Len(es) + 1 /\ q[Len(es) + 1] = e /\ \A i \in 1 .. Len(es) : q[i] = es[i]
  BY <1>0
<1>2. /\ r \in Seq(Signatures) /\ Len(r) = Len(us) + 1 /\ r[Len(us) + 1] = e.signature
      /\ \A i \in 1 .. Len(us) : r[i] = us[i]
  BY <1>0
<1> HIDE DEF q, r
<1>3. ASSUME NEW i \in 1 .. Len(r), NEW j \in 1 .. Len(r), r[i] = r[j] PROVE i = j
  <2>1. CASE i = Len(us) + 1 /\ j # Len(us) + 1
    BY <2>1, <1>0, <1>2, <1>3
  <2>2. CASE i # Len(us) + 1 /\ j = Len(us) + 1
    BY <2>2, <1>0, <1>2, <1>3
  <2>3. CASE i # Len(us) + 1 /\ j # Len(us) + 1
    <3>1. i \in 1 .. Len(us) /\ j \in 1 .. Len(us)
      BY <2>3, <1>0, <1>2
    <3> QED BY <3>1, <1>2, <1>3 DEF Tails
  <2> QED BY <2>1, <2>2, <2>3
<1>4. ASSUME NEW i \in 1 .. Len(q) PROVE q[i].signature = r[(Len(r) - Len(q)) + i]
  <2>0. (Len(r) - Len(q)) + i = (Len(us) - Len(es)) + i
    BY <1>0, <1>1, <1>2
  <2>1. CASE i = Len(es) + 1
    BY <2>0, <2>1, <1>0, <1>1, <1>2
  <2>2. CASE i # Len(es) + 1
    <3>1. i \in 1 .. Len(es) /\ (Len(us) - Len(es)) + i \in 1 .. Len(us)
      BY <2>2, <1>0, <1>1
    <3> QED BY <2>0, <3>1, <1>1, <1>2 DEF Tails
  <2> QED BY <2>1, <2>2
<1>5. Len(q) <= Len(r)
  BY <1>0, <1>1, <1>2
<1>6. Tails(q, r)
  BY <1>1, <1>2, <1>3, <1>4, <1>5 DEF Tails
<1> QED BY <1>6 DEF q, r

\* What is left of the entries and of their history when a signature is forgotten.
LEMMA WithoutIs ==
    ASSUME KeptInv, NEW x \in Signatures
    PROVE  /\ Tails(Without(x), UsedBut(x)) /\ \A i \in 1 .. Len(UsedBut(x)) : UsedBut(x)[i] # x
           /\ BytesWithout(x) = Sizes(Without(x))
           /\ Len(Without(x)) = IF Caches(x) THEN Len(entries) - 1 ELSE Len(entries)
           /\ Caches(x) => At(x) \in 1 .. Len(entries) /\ entries[At(x)].signature = x
           /\ \A n \in 1 .. Len(Without(x)) : PlaceBefore(x, n) \in 1 .. Len(entries)
                                              /\ Without(x)[n] = entries[PlaceBefore(x, n)]
<1>0. /\ entries \in Seq(Entry) /\ used \in Seq(Signatures) /\ Len(entries) \in Nat /\ Len(used) \in Nat
      /\ Len(entries) <= Len(used) /\ DOMAIN entries = 1 .. Len(entries) /\ DOMAIN used = 1 .. Len(used)
      /\ Tails(entries, used) /\ bytes = Sizes(entries)
  BY DEF KeptInv, Tails, CacheIsBounded
<1>1. \A i, j \in 1 .. Len(used) : used[i] = used[j] => i = j
  BY <1>0 DEF Tails
<1>2. CASE Caches(x)
  <2>1. At(x) \in 1 .. Len(entries) /\ entries[At(x)].signature = x
    BY <1>0, <1>2 DEF Caches, At
  <2> DEFINE m == (Len(used) - Len(entries)) + At(x)
             c == CHOOSE i \in DOMAIN used : used[i] = x
  <2>2. m \in 1 .. Len(used) /\ used[m] = x
    BY <1>0, <2>1 DEF Tails
  <2>3. c \in 1 .. Len(used) /\ used[c] = x
    BY <1>0, <2>2
  <2>4. c = m
    BY <1>1, <2>2, <2>3
  <2>5. UsedBut(x) = RemoveAt(used, m)
    <3>1. UsedBut(x) = RemoveAt(used, c)
      BY <1>0, <2>2 DEF UsedBut
    <3> QED BY <3>1, <2>4
  <2>6. Without(x) = RemoveAt(entries, At(x))
    BY <1>2 DEF Without
  <2>7. Tails(Without(x), UsedBut(x))
    BY <1>0, <2>1, <2>5, <2>6, TailsOfRemoved
  <2> HIDE DEF c, m
  <2>8. ASSUME NEW i \in 1 .. Len(UsedBut(x)) PROVE UsedBut(x)[i] # x
    <3>1. /\ Len(RemoveAt(used, m)) = Len(used) - 1
          /\ \A j \in 1 .. Len(used) - 1 : RemoveAt(used, m)[j] = IF j < m THEN used[j] ELSE used[j + 1]
      BY <1>0, <2>2, RemoveAtIs
    <3>2. i \in 1 .. Len(used) - 1 /\ UsedBut(x)[i] = IF i < m THEN used[i] ELSE used[i + 1]
      BY <3>1, <2>5
    <3>3. CASE i < m
      <4>1. i \in 1 .. Len(used) /\ i # m
        BY <1>0, <3>2, <3>3
      <4> QED BY <4>1, <3>2, <3>3, <2>2, <1>1
    <3>4. CASE ~(i < m)
      <4>1. i + 1 \in 1 .. Len(used) /\ i + 1 # m
        BY <1>0, <2>2, <3>2, <3>4
      <4> QED BY <4>1, <3>2, <3>4, <2>2, <1>1
    <3> QED BY <3>3, <3>4
  <2>9. BytesWithout(x) = Sizes(Without(x))
    <3>1. Sizes(entries) = Sizes(RemoveAt(entries, At(x))) + Size(entries[At(x)].thinking)
      BY <1>0, <2>1, SizesOfRemoved
    <3>2. RemoveAt(entries, At(x)) \in Seq(Entry)
      BY <1>0, <2>1, RemoveAtIs
    <3>3. Sizes(RemoveAt(entries, At(x))) \in Nat
      BY <3>2, SizesWalk DEF Sizes
    <3>4. entries[At(x)] \in Entry
      BY <1>0, <2>1
    <3>5. Size(entries[At(x)].thinking) \in Nat
      BY <3>4, CacheAssumption DEF Entry
    <3>6. BytesWithout(x) = bytes - Size(entries[At(x)].thinking)
      BY <1>2 DEF BytesWithout, Lookup
    <3> QED BY <1>0, <2>6, <3>1, <3>3, <3>5, <3>6
  <2>10. /\ Len(Without(x)) = Len(entries) - 1
         /\ \A n \in 1 .. Len(Without(x)) : PlaceBefore(x, n) \in 1 .. Len(entries)
                                            /\ Without(x)[n] = entries[PlaceBefore(x, n)]
    <3>1. /\ Len(RemoveAt(entries, At(x))) = Len(entries) - 1
          /\ \A j \in 1 .. Len(entries) - 1 :
                 RemoveAt(entries, At(x))[j] = IF j < At(x) THEN entries[j] ELSE entries[j + 1]
      BY <1>0, <2>1, RemoveAtIs
    <3>2. ASSUME NEW n \in 1 .. Len(Without(x))
          PROVE  PlaceBefore(x, n) \in 1 .. Len(entries) /\ Without(x)[n] = entries[PlaceBefore(x, n)]
      <4>1. n \in 1 .. Len(entries) - 1
        BY <2>6, <3>1
      <4>2. PlaceBefore(x, n) = IF n < At(x) THEN n ELSE n + 1
        BY <4>1, <1>2, <2>1 DEF PlaceBefore
      <4> QED BY <4>1, <4>2, <1>0, <2>6, <3>1
    <3> QED BY <2>6, <3>1, <3>2
  <2> QED BY <1>2, <2>1, <2>7, <2>8, <2>9, <2>10
<1>3. CASE ~Caches(x)
  <2>1. Without(x) = entries /\ BytesWithout(x) = bytes
    BY <1>3 DEF Without, BytesWithout
  <2>2. \A n \in 1 .. Len(entries) : PlaceBefore(x, n) = n
    BY <1>3 DEF PlaceBefore
  <2>3. CASE \E i \in DOMAIN used : used[i] = x
    <3> DEFINE c == CHOOSE i \in DOMAIN used : used[i] = x
    <3>1. c \in 1 .. Len(used) /\ used[c] = x
      BY <1>0, <2>3
    <3>2. UsedBut(x) = RemoveAt(used, c)
      BY <2>3 DEF UsedBut
    <3> HIDE DEF c
    <3>3. c \in 1 .. Len(used) - Len(entries)
      <4>1. SUFFICES ASSUME c > Len(used) - Len(entries) PROVE FALSE
        BY <1>0, <3>1
      <4> DEFINE i == c - (Len(used) - Len(entries))
      <4>2. i \in 1 .. Len(entries) /\ (Len(used) - Len(entries)) + i = c
        BY <1>0, <3>1, <4>1
      <4> HIDE DEF i
      <4>3. entries[i].signature = x
        BY <3>1, <4>2, <1>0 DEF Tails
      <4> QED BY <4>2, <4>3, <1>0, <1>3 DEF Caches
    <3>4. Tails(Without(x), UsedBut(x))
      BY <1>0, <2>1, <3>2, <3>3, TailsOfRest
    <3>5. ASSUME NEW i \in 1 .. Len(UsedBut(x)) PROVE UsedBut(x)[i] # x
      <4>1. /\ Len(RemoveAt(used, c)) = Len(used) - 1
            /\ \A j \in 1 .. Len(used) - 1 : RemoveAt(used, c)[j] = IF j < c THEN used[j] ELSE used[j + 1]
        BY <1>0, <3>1, RemoveAtIs
      <4>2. i \in 1 .. Len(used) - 1 /\ UsedBut(x)[i] = IF i < c THEN used[i] ELSE used[i + 1]
        BY <4>1, <3>2
      <4>3. CASE i < c
        <5>1. i \in 1 .. Len(used) /\ i # c
          BY <1>0, <4>2, <4>3
        <5> QED BY <5>1, <4>2, <4>3, <3>1, <1>1
      <4>4. CASE ~(i < c)
        <5>1. i + 1 \in 1 .. Len(used) /\ i + 1 # c
          BY <1>0, <3>1, <4>2, <4>4
        <5> QED BY <5>1, <4>2, <4>4, <3>1, <1>1
      <4> QED BY <4>3, <4>4
    <3> QED BY <1>0, <1>3, <2>1, <2>2, <3>4, <3>5
  <2>4. CASE ~\E i \in DOMAIN used : used[i] = x
    <3>1. UsedBut(x) = used
      BY <2>4 DEF UsedBut
    <3> QED BY <3>1, <1>0, <1>3, <2>1, <2>2, <2>4
  <2> QED BY <2>3, <2>4
<1> QED BY <1>2, <1>3

\* An entry put behind the last of those left.
LEMMA PutIs ==
    ASSUME KeptInv, NEW x \in Signatures, NEW text \in Thinking, NEW k \in 0 .. Len(Without(x)),
           entries' = Append(SubSeq(Without(x), k + 1, Len(Without(x))), [signature |-> x, thinking |-> text]),
           Uses(x)
    PROVE  /\ Tails(entries', used') /\ Len(entries') = (Len(Without(x)) - k) + 1
           /\ Sizes(entries') = Sizes(SubSeq(Without(x), k + 1, Len(Without(x)))) + Size(text)
           /\ entries'[Len(entries')] = [signature |-> x, thinking |-> text]
           /\ \A i \in 1 .. Len(entries') - 1 : entries'[i] = Without(x)[k + i]
           /\ \A i \in 1 .. Len(entries') :
                  entries'[i].signature = x \/ \E j \in 1 .. Len(entries) : entries'[i] = entries[j]
<1> DEFINE u == Without(x)
           w == SubSeq(u, k + 1, Len(u))
           e == [signature |-> x, thinking |-> text]
<1>1. /\ Tails(u, UsedBut(x)) /\ \A i \in 1 .. Len(UsedBut(x)) : UsedBut(x)[i] # x
      /\ \A n \in 1 .. Len(u) : \E j \in 1 .. Len(entries) : u[n] = entries[j]
  BY WithoutIs
<1>2. u \in Seq(Entry) /\ k \in 0 .. Len(u)
  BY <1>1 DEF Tails
<1>3. e \in Entry /\ e.signature = x /\ e.thinking = text
  BY DEF Entry
<1>4. entries' = Append(w, e)
  OBVIOUS
<1> HIDE DEF u, e
<1>5. w \in Seq(Entry) /\ Len(w) = Len(u) - k /\ \A i \in 1 .. Len(w) : w[i] = u[k + i]
  BY <1>2
<1>6. Tails(w, UsedBut(x))
  BY <1>1, <1>2, TailsOfSuffix
<1> HIDE DEF w
<1>7. Tails(Append(w, e), Append(UsedBut(x), x))
  BY <1>1, <1>3, <1>6, TailsOfAppend
<1>8. /\ Append(w, e) \in Seq(Entry) /\ Len(Append(w, e)) = Len(w) + 1
      /\ Append(w, e)[Len(w) + 1] = e /\ \A i \in 1 .. Len(w) : Append(w, e)[i] = w[i]
  <2>1. w \in Seq(Entry) /\ e \in Entry
    BY <1>3, <1>5
  <2> QED BY <2>1, AppendProperties
<1> DEFINE f == Append(w, e)
<1>14. /\ entries' = f /\ f \in Seq(Entry) /\ Len(f) = Len(w) + 1
       /\ f[Len(w) + 1] = e /\ \A i \in 1 .. Len(w) : f[i] = w[i]
  BY <1>4, <1>8
<1> HIDE DEF f
<1>9. used' = Append(UsedBut(x), x)
  <2>1. Len(w) + 1 \in DOMAIN Append(w, e)
    BY <1>5, <1>8
  <2>2. entries'[Len(w) + 1].signature = x /\ Len(w) + 1 \in DOMAIN entries'
    BY <2>1, <1>3, <1>4, <1>8
  <2> QED BY <2>2 DEF Uses
<1>10. Sizes(Append(w, e)) = Sizes(w) + Size(text)
  BY <1>3, <1>5, SizesOfAppend
<1>11. ASSUME NEW i \in 1 .. Len(entries')
       PROVE  entries'[i].signature = x \/ \E j \in 1 .. Len(entries) : entries'[i] = entries[j]
  <2>0. i \in 1 .. Len(w) + 1 /\ Len(w) \in Nat
    BY <1>5, <1>14
  <2>1. CASE i = Len(w) + 1
    BY <2>1, <1>3, <1>14
  <2>2. CASE i # Len(w) + 1
    <3>1. i \in 1 .. Len(w)
      BY <2>0, <2>2
    <3>2. k + i \in 1 .. Len(u) /\ w[i] = u[k + i]
      BY <3>1, <1>2, <1>5
    <3>3. entries'[i] = w[i]
      BY <3>1, <1>14
    <3> QED BY <3>2, <3>3, <1>1
  <2> QED BY <2>1, <2>2
<1>12. \A i \in 1 .. Len(entries') - 1 : entries'[i] = u[k + i]
  <2>0. Len(entries') = Len(w) + 1 /\ Len(w) \in Nat
    BY ONLY <1>5, <1>14
  <2>1. Len(entries') - 1 = Len(w)
    BY <2>0
  <2>2. \A i \in 1 .. Len(w) : entries'[i] = w[i]
    BY <1>14
  <2> QED BY <2>1, <2>2, <1>5
<1>13. Len(entries') = (Len(u) - k) + 1 /\ entries'[Len(entries')] = e
  BY <1>5, <1>14
<1> QED BY <1>4, <1>7, <1>9, <1>10, <1>11, <1>12, <1>13 DEF u, w, e

\* What set() does to a cache the text fits in: the oldest entries go, as many as have to.
LEMMA SetIs ==
    ASSUME KeptInv, NEW x \in Signatures, NEW text \in Thinking, Set(x, text), Size(text) <= MaxBytes, Uses(x)
    PROVE  \E k \in 0 .. Len(Without(x)) :
               /\ entries' = Append(SubSeq(Without(x), k + 1, Len(Without(x))),
                                    [signature |-> x, thinking |-> text])
               /\ bytes' = Sizes(entries') /\ bytes' \in Nat
               /\ Len(entries') <= MaxEntries /\ bytes' <= MaxBytes
               /\ k > 0 => \/ Len(entries') = MaxEntries
                           \/ bytes' + Size(Without(x)[k].thinking) > MaxBytes
<1> DEFINE u == Without(x)
           kept(k) == SubSeq(u, k + 1, Len(u))
           left(k) == BytesWithout(x) - Sizes(SubSeq(u, 1, k))
           fits(k) == k = Len(u) \/ Fits(kept(k), left(k), Size(text))
<1>1. u \in Seq(Entry) /\ BytesWithout(x) = Sizes(u) /\ Size(text) \in Nat /\ Len(u) \in Nat
  BY WithoutIs, CacheAssumption DEF Tails
<1>2. PICK k \in 0 .. Len(u) :
          /\ fits(k) /\ \A j \in 0 .. (k - 1) : ~fits(j)
          /\ entries' = Append(kept(k), [signature |-> x, thinking |-> text])
          /\ bytes' = left(k) + Size(text)
  <2>0. ~(Size(text) > MaxBytes)
    BY <1>1, CacheAssumption
  <2> QED BY <2>0 DEF Set
<1> HIDE DEF u
<1>3. ASSUME NEW j \in 0 .. Len(u)
      PROVE  /\ left(j) = Sizes(kept(j)) /\ Sizes(kept(j)) \in Nat /\ Len(kept(j)) = Len(u) - j
             /\ Sizes(SubSeq(u, 1, j)) = SizesTo(u)[j] /\ SizesTo(u)[j] \in Nat
             /\ j = Len(u) => Sizes(kept(j)) = 0
  <2>1. /\ Sizes(SubSeq(u, 1, j)) = SizesTo(u)[j] /\ Sizes(kept(j)) \in Nat
        /\ Sizes(u) = Sizes(SubSeq(u, 1, j)) + Sizes(kept(j))
        /\ j = Len(u) => Sizes(kept(j)) = 0
    BY <1>1, SizesOfParts
  <2>2. SizesTo(u)[j] \in Nat
    BY <1>1, SizesWalk
  <2>3. Len(kept(j)) = Len(u) - j
    BY <1>1
  <2> QED BY <2>1, <2>2, <2>3, <1>1
<1>4. entries' = Append(SubSeq(Without(x), k + 1, Len(Without(x))), [signature |-> x, thinking |-> text])
  BY <1>2 DEF u
<1>5. Sizes(entries') = Sizes(kept(k)) + Size(text) /\ Len(entries') = (Len(u) - k) + 1
  <2>1. k \in 0 .. Len(Without(x))
    BY DEF u
  <2> QED BY <2>1, <1>4, PutIs DEF u
<1>6. bytes' = Sizes(entries') /\ bytes' \in Nat
  BY <1>1, <1>2, <1>3, <1>5
<1>7. Len(entries') <= MaxEntries /\ bytes' <= MaxBytes
  <2>1. CASE k = Len(u)
    BY <2>1, <1>1, <1>2, <1>3, <1>5, CacheAssumption
  <2>2. CASE Fits(kept(k), left(k), Size(text))
    <3>1. Len(kept(k)) < MaxEntries /\ left(k) + Size(text) <= MaxBytes
      BY <2>2 DEF Fits
    <3> QED BY <3>1, <1>1, <1>2, <1>3, <1>5, CacheAssumption
  <2> QED BY <2>1, <2>2, <1>2
<1>8. ASSUME k > 0
      PROVE  Len(entries') = MaxEntries \/ bytes' + Size(u[k].thinking) > MaxBytes
  <2>1. k - 1 \in 0 .. (k - 1) /\ k - 1 \in 0 .. Len(u) /\ k - 1 # Len(u) /\ k \in 1 .. Len(u)
    BY <1>1, <1>8
  <2>2. ~(Len(kept(k - 1)) < MaxEntries /\ left(k - 1) + Size(text) <= MaxBytes)
    BY <2>1, <1>2 DEF Fits
  <2>3. Len(kept(k - 1)) = Len(u) - (k - 1)
    BY <2>1, <1>3
  <2>4. SizesTo(u)[k] = SizesTo(u)[k - 1] + Size(u[k].thinking)
    BY <2>1, <1>1, SizesWalk
  <2>5. left(k - 1) = left(k) + Size(u[k].thinking)
    <3>1. u[k] \in Entry
      BY <1>1, <2>1
    <3>2. Size(u[k].thinking) \in Nat
      BY <3>1, CacheAssumption DEF Entry
    <3>3. Sizes(SubSeq(u, 1, k - 1)) = SizesTo(u)[k - 1] /\ SizesTo(u)[k - 1] \in Nat
      BY <2>1, <1>3
    <3>4. Sizes(SubSeq(u, 1, k)) = SizesTo(u)[k] /\ SizesTo(u)[k] \in Nat
      BY <2>1, <1>3
    <3>5. BytesWithout(x) \in Nat
      BY <1>1, SizesWalk DEF Sizes
    <3> QED BY <3>2, <3>3, <3>4, <3>5, <2>4
  <2>6. left(k) \in Nat /\ left(k - 1) \in Nat
    BY <2>1, <1>3
  <2>7. bytes' = left(k) + Size(text)
    BY <1>2
  <2>8. u[k] \in Entry
    BY <1>1, <2>1
  <2>9. Size(u[k].thinking) \in Nat
    BY <2>8, CacheAssumption DEF Entry
  <2> HIDE DEF left, kept
  <2>10. CASE ~(Len(kept(k - 1)) < MaxEntries)
    BY <2>10, <2>1, <2>3, <1>1, <1>5, <1>7, CacheAssumption
  <2>11. CASE ~(left(k - 1) + Size(text) <= MaxBytes)
    BY <2>11, <2>5, <2>6, <2>7, <2>9, <1>1, CacheAssumption
  <2> QED BY <2>2, <2>10, <2>11
<1>9. k \in 0 .. Len(Without(x)) /\ (k > 0 => Len(entries') = MaxEntries \/ bytes' + Size(Without(x)[k].thinking) > MaxBytes)
  BY <1>8 DEF u
<1> QED BY <1>4, <1>6, <1>7, <1>9

\* The text fits, and the history follows: the invariant of the cache alone.
LEMMA SetKeeps ==
    ASSUME KeptInv, NEW x \in Signatures, NEW text \in Thinking, Set(x, text), Size(text) <= MaxBytes, Uses(x)
    PROVE  /\ Tails(entries', used') /\ CacheIsBounded' /\ bytes' \in Nat
           /\ \A i \in 1 .. Len(entries') :
                  entries'[i].signature = x \/ \E j \in 1 .. Len(entries) : entries'[i] = entries[j]
<1>1. PICK k \in 0 .. Len(Without(x)) :
          /\ entries' = Append(SubSeq(Without(x), k + 1, Len(Without(x))),
                               [signature |-> x, thinking |-> text])
          /\ bytes' = Sizes(entries') /\ bytes' \in Nat
          /\ Len(entries') <= MaxEntries /\ bytes' <= MaxBytes
  BY SetIs
<1>2. /\ Tails(entries', used')
      /\ \A i \in 1 .. Len(entries') :
             entries'[i].signature = x \/ \E j \in 1 .. Len(entries) : entries'[i] = entries[j]
  BY <1>1, PutIs
<1>3. CacheIsBounded'
  BY <1>1 DEF CacheIsBounded, Sizes, SizesTo
<1> QED BY <1>1, <1>2, <1>3

\* A hit moves an entry to the end of both.
LEMMA GetKeeps ==
    ASSUME KeptInv, NEW x \in Signatures, Get(x), Uses(x)
    PROVE  /\ Tails(entries', used') /\ CacheIsBounded' /\ bytes' \in Nat
           /\ \A i \in 1 .. Len(entries) : \E j \in 1 .. Len(entries') : entries'[j].signature = entries[i].signature
           /\ \A i \in 1 .. Len(entries') :
                  entries'[i].signature = x \/ \E j \in 1 .. Len(entries) : entries'[i] = entries[j]
<1> DEFINE u == Without(x)
           text == Lookup(x)
<1>1. /\ Caches(x) /\ bytes' = bytes /\ bytes \in Nat
      /\ entries' = Append(u, [signature |-> x, thinking |-> text])
  BY DEF Get, KeptInv
<1>2. /\ Tails(u, UsedBut(x)) /\ BytesWithout(x) = Sizes(u) /\ Len(u) = Len(entries) - 1
      /\ At(x) \in 1 .. Len(entries) /\ entries[At(x)].signature = x
      /\ \A n \in 1 .. Len(u) : PlaceBefore(x, n) \in 1 .. Len(entries) /\ u[n] = entries[PlaceBefore(x, n)]
  BY <1>1, WithoutIs
<1>3. u \in Seq(Entry) /\ entries \in Seq(Entry) /\ Len(u) \in Nat /\ Len(entries) \in Nat
  BY <1>2 DEF KeptInv, Tails
<1>4. text \in Thinking /\ Size(text) \in Nat /\ bytes - Size(text) = Sizes(u)
  <2>1. entries[At(x)] \in Entry
    BY <1>2, <1>3
  <2>2. BytesWithout(x) = bytes - Size(text)
    BY <1>1 DEF BytesWithout
  <2> QED BY <2>1, <2>2, <1>2, CacheAssumption DEF Lookup, Entry
<1> HIDE DEF u, text
<1>5. SubSeq(u, 0 + 1, Len(u)) = u
  BY <1>3
<1>6. /\ Tails(entries', used') /\ Len(entries') = (Len(u) - 0) + 1
      /\ Sizes(entries') = Sizes(SubSeq(u, 0 + 1, Len(u))) + Size(text)
      /\ entries'[Len(entries')] = [signature |-> x, thinking |-> text]
      /\ \A i \in 1 .. Len(entries') - 1 : entries'[i] = u[0 + i]
      /\ \A i \in 1 .. Len(entries') :
             entries'[i].signature = x \/ \E j \in 1 .. Len(entries) : entries'[i] = entries[j]
  <2>1. entries' = Append(SubSeq(u, 0 + 1, Len(u)), [signature |-> x, thinking |-> text])
    BY <1>1, <1>5
  <2>2. 0 \in 0 .. Len(Without(x))
    BY <1>3 DEF u
  <2> QED BY <2>1, <2>2, <1>4, PutIs DEF u
<1>7. Sizes(u) \in Nat
  BY <1>3, SizesWalk DEF Sizes
<1>8. Sizes(entries') = bytes /\ Len(entries') = Len(entries)
  <2>1. Sizes(entries') = Sizes(u) + Size(text)
    BY <1>5, <1>6
  <2>2. Sizes(u) + Size(text) = bytes
    BY <1>1, <1>4, <1>7
  <2>3. Len(entries') = Len(entries)
    BY <1>2, <1>3, <1>6
  <2> QED BY <2>1, <2>2, <2>3
<1>9. CacheIsBounded'
  <2>1. Len(entries) <= MaxEntries /\ bytes <= MaxBytes
    BY DEF KeptInv, CacheIsBounded
  <2>2. Len(entries') <= MaxEntries /\ bytes' <= MaxBytes /\ bytes' = Sizes(entries')
    BY <2>1, <1>1, <1>8
  <2> QED BY <2>2 DEF CacheIsBounded, Sizes, SizesTo
<1>10. ASSUME NEW i \in 1 .. Len(entries)
       PROVE  \E j \in 1 .. Len(entries') : entries'[j].signature = entries[i].signature
  <2>1. CASE i = At(x)
    <3>1. Len(entries') \in 1 .. Len(entries') /\ entries'[Len(entries')].signature = x
      BY <1>3, <1>6
    <3> QED BY <3>1, <2>1, <1>2
  <2>2. CASE i # At(x)
    <3> DEFINE n == IF i < At(x) THEN i ELSE i - 1
    <3>1. n \in 1 .. Len(u) /\ PlaceBefore(x, n) = i
      BY <2>2, <1>1, <1>2, <1>3 DEF PlaceBefore
    <3>2. n \in 1 .. Len(entries') - 1 /\ n \in 1 .. Len(entries') /\ 0 + n = n
      BY <3>1, <1>3, <1>6
    <3>3. entries'[n] = entries[i]
      BY <3>1, <3>2, <1>2, <1>6
    <3> QED BY <3>2, <3>3
  <2> QED BY <2>1, <2>2
<1> QED BY <1>1, <1>6, <1>9, <1>10

\* Without an entry of x, a use of x leaves no trace.
LEMMA UsesNothing ==
    ASSUME KeptInv, NEW x, ~Caches(x), UNCHANGED cacheVars, Uses(x)
    PROVE  used' = used
BY DEF cacheVars, Caches, Uses

\* A cache that was cleared.
LEMMA EmptyKeeps ==
    ASSUME entries' = <<>>, bytes' = 0, used' = <<>>
    PROVE  Tails(entries', used') /\ CacheIsBounded' /\ bytes' \in Nat
<1>1. <<>> \in Seq(Entry) /\ <<>> \in Seq(Signatures) /\ Len(<<>>) = 0
  OBVIOUS
<1>2. Tails(<<>>, <<>>)
  BY <1>1 DEF Tails
<1>3. Sizes(<<>>) = 0
  BY <1>1, SizesWalk DEF Sizes
<1>4. Sizes(entries') = 0
  BY <1>3
<1>5. CacheIsBounded'
  BY <1>1, <1>4, CacheAssumption DEF CacheIsBounded, Sizes, SizesTo
<1> QED BY <1>2, <1>5

\* The invariant of the cache and of what was used.
LEMMA KeptAtFirst == ThinkingInit => KeptInv
<1> SUFFICES ASSUME ThinkingInit PROVE KeptInv
  OBVIOUS
<1>0. <<>> \in Seq(Entry) /\ <<>> \in Seq(Signatures) /\ Len(<<>>) = 0
  OBVIOUS
<1>1. /\ entries = <<>> /\ bytes = 0 /\ used = <<>> /\ signed \in Contents /\ answered = {} /\ history = {}
      /\ \A i \in 1 .. Len(entries) : FALSE
  BY <1>0 DEF ThinkingInit, Init, CacheInit
<1>2. Tails(entries, used)
  BY <1>0, <1>1 DEF Tails
<1>3. Sizes(<<>>) = 0
  BY <1>0, SizesWalk DEF Sizes
<1>4. Sizes(entries) = 0
  BY <1>1, <1>3
<1>5. CacheIsBounded
  BY <1>0, <1>1, <1>4, CacheAssumption DEF CacheIsBounded
<1> QED BY <1>1, <1>2, <1>5 DEF KeptInv

\* A step that leaves the cache and its history as they are.
LEMMA IdleKeeps ==
    ASSUME KeptInv, UNCHANGED cacheVars, used' = used, alone' = alone,
           signed' = signed, answered \subseteq answered', answered' \subseteq Signatures,
           \A block \in history' : block.signature \in answered' \cup {Broken}
    PROVE  KeptInv'
<1>1. entries' = entries /\ bytes' = bytes
  BY DEF cacheVars
<1>2. Tails(entries', used')
  BY <1>1 DEF KeptInv
<1>3. CacheIsBounded'
  BY <1>1 DEF KeptInv, CacheIsBounded, Sizes, SizesTo
<1>4. ~alone' => \A i \in 1 .. Len(entries') : entries'[i].signature \in answered'
  BY <1>1 DEF KeptInv
<1> QED BY <1>1, <1>2, <1>3, <1>4 DEF KeptInv

\* A step that uses a signature that is answered, or is no part of the conversation.
LEMMA UseKeeps ==
    ASSUME KeptInv, NEW x \in Signatures, Tails(entries', used'), CacheIsBounded', bytes' \in Nat,
           \A i \in 1 .. Len(entries') :
               entries'[i].signature = x \/ \E j \in 1 .. Len(entries) : entries'[i] = entries[j],
           alone' = alone, ~alone => x \in answered',
           signed' = signed, answered \subseteq answered', answered' \subseteq Signatures,
           \A block \in history' : block.signature \in answered' \cup {Broken}
    PROVE  KeptInv'
<1>1. ~alone' => \A i \in 1 .. Len(entries') : entries'[i].signature \in answered'
  BY DEF KeptInv
<1> QED BY <1>1 DEF KeptInv

\* The steps of a session and of the cache on its own.
LEMMA SessionKeeps == ASSUME KeptInv, ~alone, alone' = alone, Session PROVE KeptInv'
<1>0. /\ signed \in Contents /\ answered \subseteq Signatures
      /\ \A block \in history : block.signature \in answered \cup {Broken}
      /\ \A i \in 1 .. Len(entries) : entries[i].signature \in answered
      /\ DOMAIN entries = 1 .. Len(entries)
  BY DEF KeptInv, Tails
<1>1. ASSUME NEW x \in Signatures, Answer(x), Uses(x) PROVE KeptInv'
  <2>1. /\ x \notin answered /\ Set(x, signed[x]) /\ answered' = answered \cup {x} /\ signed' = signed
        /\ \A block \in history' : block.signature \in answered' \cup {Broken}
    BY <1>0, <1>1 DEF Answer, Block
  <2>2. signed[x] \in Thinking
    BY <1>0, ReplayAssumption
  <2>3. CASE Size(signed[x]) > MaxBytes
    <3>1. UNCHANGED cacheVars
      BY <2>1, <2>3 DEF Set
    <3>2. ~Caches(x)
      BY <1>0, <2>1 DEF Caches
    <3>3. used' = used
      BY <1>1, <3>1, <3>2, UsesNothing
    <3> QED BY <1>0, <2>1, <3>1, <3>3, IdleKeeps
  <2>4. CASE ~(Size(signed[x]) > MaxBytes)
    <3>1. Size(signed[x]) <= MaxBytes
      BY <2>2, <2>4, CacheAssumption
    <3>2. /\ Tails(entries', used') /\ CacheIsBounded' /\ bytes' \in Nat
          /\ \A i \in 1 .. Len(entries') :
                 entries'[i].signature = x \/ \E j \in 1 .. Len(entries) : entries'[i] = entries[j]
      BY <1>1, <2>1, <2>2, <3>1, SetKeeps
    <3> QED BY <1>0, <2>1, <3>2, UseKeeps
  <2> QED BY <2>3, <2>4
<1>2. ASSUME NEW x \in Signatures, Cut(x), used' = used PROVE KeptInv'
  <2>1. UNCHANGED cacheVars /\ answered' = answered \cup {x} /\ signed' = signed
    BY <1>2 DEF Cut
  <2>2. \A block \in history' : block.signature \in answered' \cup {Broken}
    BY <1>0, <1>2, <2>1 DEF Cut, Block
  <2> QED BY <1>0, <1>2, <2>1, <2>2, IdleKeeps
<1>3. ASSUME NEW block \in history, Replay(block),
             IF block.thinking = Empty THEN UNCHANGED used ELSE Uses(block.signature)
      PROVE  KeptInv'
  <2>1. signed' = signed /\ answered' = answered /\ history' = history
    BY <1>3 DEF Replay
  <2>2. CASE block.thinking = Empty
    <3>1. UNCHANGED cacheVars /\ used' = used
      BY <1>3, <2>2 DEF Replay
    <3> QED BY <1>0, <2>1, <3>1, IdleKeeps
  <2>3. CASE block.thinking # Empty /\ ~Caches(block.signature)
    <3>1. UNCHANGED cacheVars /\ Uses(block.signature)
      BY <1>3, <2>3 DEF Replay
    <3>2. used' = used
      BY <2>3, <3>1, UsesNothing
    <3> QED BY <1>0, <2>1, <3>1, <3>2, IdleKeeps
  <2>4. CASE block.thinking # Empty /\ Caches(block.signature)
    <3>1. Get(block.signature) /\ Uses(block.signature)
      BY <1>3, <2>4 DEF Replay
    <3>2. block.signature \in answered
      BY <1>0, <2>4 DEF Caches
    <3>3. block.signature \in Signatures
      BY <1>0, <3>2
    <3>4. /\ Tails(entries', used') /\ CacheIsBounded' /\ bytes' \in Nat
          /\ \A i \in 1 .. Len(entries') :
                 entries'[i].signature = block.signature \/ \E j \in 1 .. Len(entries) : entries'[i] = entries[j]
      BY <3>1, <3>3, GetKeeps
    <3>5. \A b \in history' : b.signature \in answered' \cup {Broken}
      BY <1>0, <2>1
    <3> QED BY <1>0, <2>1, <3>2, <3>3, <3>4, <3>5, UseKeeps
  <2> QED BY <2>2, <2>3, <2>4
<1>4. CASE Restart /\ used' = <<>>
  <2>1. /\ entries' = <<>> /\ bytes' = 0 /\ signed' = signed /\ answered' = answered /\ history' = history
    BY <1>4 DEF Restart, Clear
  <2>2. Tails(entries', used') /\ CacheIsBounded' /\ bytes' \in Nat
    BY <1>4, <2>1, EmptyKeeps
  <2>3. \A i \in 1 .. Len(entries') : entries'[i].signature \in answered'
    BY <2>1
  <2> QED BY <1>0, <2>1, <2>2, <2>3 DEF KeptInv
<1> QED BY <1>1, <1>2, <1>3, <1>4 DEF Session

LEMMA AloneKeeps == ASSUME KeptInv, alone, alone' = alone, CacheAlone PROVE KeptInv'
<1>0. /\ signed' = signed /\ answered' = answered /\ history' = history /\ answered \subseteq Signatures
      /\ \A block \in history' : block.signature \in answered' \cup {Broken}
  BY DEF CacheAlone, KeptInv
<1>1. ASSUME NEW x \in Signatures, Get(x), Uses(x) PROVE KeptInv'
  <2>1. /\ Tails(entries', used') /\ CacheIsBounded' /\ bytes' \in Nat
        /\ \A i \in 1 .. Len(entries') :
               entries'[i].signature = x \/ \E j \in 1 .. Len(entries) : entries'[i] = entries[j]
    BY <1>1, GetKeeps
  <2> QED BY <1>0, <2>1, UseKeeps
<1>2. ASSUME NEW x \in Signatures, NEW text \in Thinking, Set(x, text),
             IF Size(text) > MaxBytes THEN UNCHANGED used ELSE Uses(x)
      PROVE  KeptInv'
  <2>1. CASE Size(text) > MaxBytes
    <3>1. UNCHANGED cacheVars /\ used' = used
      BY <1>2, <2>1 DEF Set
    <3> QED BY <1>0, <3>1, IdleKeeps
  <2>2. CASE ~(Size(text) > MaxBytes)
    <3>1. Size(text) <= MaxBytes
      BY <2>2, CacheAssumption
    <3>2. /\ Tails(entries', used') /\ CacheIsBounded' /\ bytes' \in Nat
          /\ \A i \in 1 .. Len(entries') :
                 entries'[i].signature = x \/ \E j \in 1 .. Len(entries) : entries'[i] = entries[j]
      BY <1>2, <2>2, <3>1, SetKeeps
    <3> QED BY <1>0, <3>2, UseKeeps
  <2> QED BY <2>1, <2>2
<1>3. CASE Clear /\ used' = <<>>
  <2>1. entries' = <<>> /\ bytes' = 0
    BY <1>3 DEF Clear
  <2>2. Tails(entries', used') /\ CacheIsBounded' /\ bytes' \in Nat
    BY <1>3, <2>1, EmptyKeeps
  <2> QED BY <1>0, <2>2 DEF KeptInv
<1> QED BY <1>1, <1>2, <1>3 DEF CacheAlone

LEMMA KeptStays == KeptInv /\ [ThinkingNext]_thinkingVars => KeptInv'
<1> SUFFICES ASSUME KeptInv, [ThinkingNext]_thinkingVars PROVE KeptInv'
  OBVIOUS
<1>1. CASE UNCHANGED thinkingVars
  <2>1. /\ UNCHANGED cacheVars /\ used' = used /\ alone' = alone /\ signed' = signed
        /\ answered' = answered /\ history' = history
    BY <1>1 DEF thinkingVars, vars
  <2> QED BY <2>1, IdleKeeps DEF KeptInv
<1>2. CASE ThinkingNext
  BY <1>2, SessionKeeps, AloneKeeps DEF ThinkingNext
<1> QED BY <1>1, <1>2

\* An entry that goes, and behind which none goes, is the last one set() shifted out; with
\* it the cache would have been over a cap.
LEMMA SetEvicts ==
    ASSUME KeptInv, NEW x \in Signatures, NEW text \in Thinking, Set(x, text), Uses(x),
           Size(text) <= MaxBytes,
           NEW i \in 1 .. Len(entries),
           \A j \in 1 .. Len(entries') : entries'[j].signature # entries[i].signature,
           \A m \in 1 .. Len(entries) :
               m > i => \E j \in 1 .. Len(entries') : entries'[j].signature = entries[m].signature
    PROVE  Len(entries') = MaxEntries \/ Sizes(entries') + Size(entries[i].thinking) > MaxBytes
<1> DEFINE u == Without(x)
<1>1. PICK k \in 0 .. Len(u) :
          /\ entries' = Append(SubSeq(u, k + 1, Len(u)), [signature |-> x, thinking |-> text])
          /\ bytes' = Sizes(entries')
          /\ k > 0 => Len(entries') = MaxEntries \/ bytes' + Size(u[k].thinking) > MaxBytes
  BY SetIs
<1>2. /\ Tails(entries', used') /\ Len(entries') = (Len(u) - k) + 1
      /\ entries'[Len(entries')] = [signature |-> x, thinking |-> text]
      /\ \A j \in 1 .. Len(entries') - 1 : entries'[j] = u[k + j]
  BY <1>1, PutIs
<1>3. /\ Tails(u, UsedBut(x))
      /\ Len(u) = IF Caches(x) THEN Len(entries) - 1 ELSE Len(entries)
      /\ Caches(x) => At(x) \in 1 .. Len(entries) /\ entries[At(x)].signature = x
      /\ \A n \in 1 .. Len(u) : PlaceBefore(x, n) \in 1 .. Len(entries) /\ u[n] = entries[PlaceBefore(x, n)]
  BY WithoutIs
<1> HIDE DEF u
<1>4. Len(u) \in Nat /\ Len(entries) \in Nat /\ Len(entries') \in Nat
  <2>1. u \in Seq(Entry) /\ entries' \in Seq(Entry) /\ entries \in Seq(Entry)
    BY <1>2, <1>3 DEF KeptInv, Tails
  <2>2. \A q \in Seq(Entry) : Len(q) \in Nat
    OBVIOUS
  <2> QED BY <2>1, <2>2
<1>5. entries[i].signature # x
  <2>1. Len(entries') \in 1 .. Len(entries') /\ entries'[Len(entries')].signature = x
    BY <1>2, <1>4
  <2> QED BY <2>1
<1>6. PICK n \in 1 .. Len(u) : PlaceBefore(x, n) = i
  <2> DEFINE n == IF Caches(x) /\ i > At(x) THEN i - 1 ELSE i
  <2>1. CASE Caches(x)
    <3>1. i # At(x)
      BY <1>3, <1>5, <2>1
    <3>2. n \in 1 .. Len(u) /\ PlaceBefore(x, n) = i
      BY <1>3, <1>4, <2>1, <3>1 DEF PlaceBefore
    <3> QED BY <3>2
  <2>2. CASE ~Caches(x)
    <3>1. n \in 1 .. Len(u) /\ PlaceBefore(x, n) = i
      BY <1>3, <2>2 DEF PlaceBefore
    <3> QED BY <3>1
  <2> QED BY <2>1, <2>2
<1>7. u[n] = entries[i]
  BY <1>3, <1>6
<1>8. n <= k
  <2> SUFFICES ASSUME n > k PROVE FALSE
    BY <1>4
  <2>1. n - k \in 1 .. Len(entries') - 1 /\ n - k \in 1 .. Len(entries') /\ k + (n - k) = n
    BY <1>2, <1>4
  <2>2. entries'[n - k] = u[n]
    BY <1>2, <2>1
  <2> QED BY <1>7, <2>1, <2>2
<1>9. n = k
  <2> SUFFICES ASSUME n < k PROVE FALSE
    BY <1>4, <1>8
  <2>1. k \in 1 .. Len(u)
    BY <1>4
  <2> DEFINE m == PlaceBefore(x, k)
  <2>2. m \in 1 .. Len(entries) /\ u[k] = entries[m]
    BY <1>3, <2>1
  <2>3. m > i
    <3>1. CASE Caches(x)
      BY <1>3, <1>4, <1>6, <2>1, <3>1 DEF PlaceBefore
    <3>2. CASE ~Caches(x)
      BY <1>6, <2>1, <3>2 DEF PlaceBefore
    <3> QED BY <3>1, <3>2
  <2> HIDE DEF m
  <2>4. PICK j \in 1 .. Len(entries') : entries'[j].signature = u[k].signature
    BY <2>2, <2>3
  <2>5. CASE j = Len(entries')
    <3>1. u[k].signature = x
      BY <2>4, <2>5, <1>2
    <3>2. Caches(x)
      <4>1. DOMAIN entries = 1 .. Len(entries)
        BY DEF KeptInv, Tails
      <4> QED BY <3>1, <2>2, <4>1 DEF Caches
    <3>3. At(x) \in 1 .. Len(entries) /\ entries[At(x)].signature = entries[m].signature
      BY <1>3, <2>2, <3>1, <3>2
    <3>4. At(x) = m
      BY <2>2, <3>3, TailsAreDistinct DEF KeptInv
    <3>5. m # At(x)
      BY <1>3, <2>1, <3>2 DEF PlaceBefore, m
    <3> QED BY <3>4, <3>5
  <2>6. CASE j # Len(entries')
    <3>0. Len(entries') = (Len(u) - k) + 1
      BY <1>2
    <3>1. j \in 1 .. Len(entries') - 1 /\ k + j \in 1 .. Len(u) /\ k + j # k
      BY ONLY <2>6, <3>0, <1>4, k \in 0 .. Len(u), j \in 1 .. Len(entries')
    <3>2. u[k + j].signature = u[k].signature
      BY <2>4, <3>1, <1>2
    <3>3. k + j = k
      BY <1>3, <2>1, <3>1, <3>2, TailsAreDistinct
    <3> QED BY <3>1, <3>3
  <2> QED BY <2>5, <2>6
<1>10. k > 0 /\ u[k] = entries[i]
  BY <1>7, <1>9
<1>11. bytes' + Size(entries[i].thinking) > MaxBytes => Sizes(entries') + Size(entries[i].thinking) > MaxBytes
  BY <1>1
<1> QED BY <1>1, <1>10, <1>11

\* The statement of EvictsForRoomOnly about one step.
Evicts ==
    LET gone == {i \in DOMAIN entries : \A j \in DOMAIN entries' : entries'[j].signature # entries[i].signature}
    IN  entries' # <<>> =>
            \A i \in gone :
                \/ \E j \in gone : j > i
                \/ Len(entries') = MaxEntries
                \/ Sizes(entries') + Size(entries[i].thinking) > MaxBytes

\* Every step that changes the cache evicts for want of room only.
LEMMA SetIsEvicting ==
    ASSUME KeptInv, NEW x \in Signatures, NEW text \in Thinking, Set(x, text), Uses(x), Size(text) <= MaxBytes
    PROVE  Evicts
<1>1. DOMAIN entries = 1 .. Len(entries) /\ Len(entries) \in Nat
  BY DEF KeptInv, Tails
<1>2. DOMAIN entries' = 1 .. Len(entries')
  BY SetKeeps DEF Tails
<1> SUFFICES ASSUME NEW i \in 1 .. Len(entries),
                    \A j \in 1 .. Len(entries') : entries'[j].signature # entries[i].signature,
                    \A m \in 1 .. Len(entries) :
                        m > i => \E j \in 1 .. Len(entries') : entries'[j].signature = entries[m].signature
             PROVE  Len(entries') = MaxEntries \/ Sizes(entries') + Size(entries[i].thinking) > MaxBytes
  BY <1>1, <1>2 DEF Evicts
<1> QED BY SetEvicts

LEMMA GetIsEvicting == ASSUME KeptInv, NEW x \in Signatures, Get(x), Uses(x) PROVE Evicts
<1>1. DOMAIN entries = 1 .. Len(entries)
  BY DEF KeptInv, Tails
<1>2. DOMAIN entries' = 1 .. Len(entries')
  BY GetKeeps DEF Tails
<1>3. \A i \in 1 .. Len(entries) : \E j \in 1 .. Len(entries') : entries'[j].signature = entries[i].signature
  BY GetKeeps
<1> QED BY <1>1, <1>2, <1>3 DEF Evicts

LEMMA StepEvicts == KeptInv /\ [ThinkingNext]_thinkingVars => [Evicts]_cacheVars
<1> SUFFICES ASSUME KeptInv, [ThinkingNext]_thinkingVars, ~(UNCHANGED cacheVars) PROVE Evicts
  OBVIOUS
<1>0. ThinkingNext
  BY DEF thinkingVars, vars
<1>1. ASSUME NEW x \in Signatures, Get(x), Uses(x) PROVE Evicts
  BY <1>1, GetIsEvicting
<1>2. ASSUME NEW x \in Signatures, NEW text \in Thinking, Set(x, text), ~(Size(text) > MaxBytes) => Uses(x)
      PROVE  Evicts
  <2>1. ~(Size(text) > MaxBytes)
    BY <1>2 DEF Set
  <2>2. Size(text) <= MaxBytes
    BY <2>1, CacheAssumption
  <2> QED BY <1>2, <2>1, <2>2, SetIsEvicting
<1>3. ASSUME Clear PROVE Evicts
  BY <1>3 DEF Clear, Evicts
<1>4. CASE alone
  BY <1>0, <1>1, <1>2, <1>3, <1>4 DEF ThinkingNext, CacheAlone
<1>5. CASE ~alone
  <2>0. Session
    BY <1>0, <1>5 DEF ThinkingNext
  <2>1. ASSUME NEW x \in Signatures, Answer(x), Uses(x) PROVE Evicts
    <3>1. Set(x, signed[x]) /\ signed[x] \in Thinking
      BY <2>1, ReplayAssumption DEF Answer, KeptInv
    <3> QED BY <2>1, <3>1, <1>2
  <2>2. ASSUME NEW block \in history, Replay(block),
               IF block.thinking = Empty THEN UNCHANGED used ELSE Uses(block.signature)
        PROVE  Evicts
    <3>1. Get(block.signature) /\ Uses(block.signature) /\ Caches(block.signature)
      BY <2>2 DEF Replay
    <3>2. block.signature \in Signatures
      <4>1. entries \in Seq(Entry)
        BY DEF KeptInv, Tails
      <4>2. PICK i \in DOMAIN entries : entries[i].signature = block.signature
        BY <3>1 DEF Caches
      <4>3. entries[i] \in Entry
        BY <4>1, <4>2
      <4> QED BY <4>2, <4>3 DEF Entry
    <3> QED BY <3>1, <3>2, <1>1
  <2>3. ASSUME NEW x \in Signatures, Cut(x) PROVE FALSE
    BY <2>3 DEF Cut
  <2>4. CASE Restart
    BY <2>4, <1>3 DEF Restart
  <2> QED BY <2>0, <2>1, <2>2, <2>3, <2>4 DEF Session
<1> QED BY <1>4, <1>5

\* What the invariant says of the history, as sequences.
LEMMA KeptIsLastUsed ==
    ASSUME KeptInv
    PROVE  /\ TypeOK /\ CacheIsBounded
           /\ [i \in DOMAIN entries |-> entries[i].signature]
                  = SubSeq(used, Len(used) - Len(entries) + 1, Len(used))
<1>1. /\ entries \in Seq(Entry) /\ used \in Seq(Signatures) /\ Len(entries) <= Len(used)
      /\ Len(entries) \in Nat /\ Len(used) \in Nat /\ DOMAIN entries = 1 .. Len(entries)
      /\ \A i \in 1 .. Len(entries) : entries[i].signature = used[(Len(used) - Len(entries)) + i]
  BY DEF KeptInv, Tails
<1> DEFINE f == [i \in DOMAIN entries |-> entries[i].signature]
           g == SubSeq(used, Len(used) - Len(entries) + 1, Len(used))
<1>2. /\ g \in Seq(Signatures) /\ Len(g) = Len(entries) /\ DOMAIN g = 1 .. Len(entries)
      /\ \A i \in 1 .. Len(entries) : g[i] = used[(Len(used) - Len(entries)) + i]
      /\ g = [i \in 1 .. Len(entries) |-> g[i]]
  BY <1>1
<1>3. f = [i \in 1 .. Len(entries) |-> g[i]]
  <2> HIDE DEF g
  <2> QED BY <1>1, <1>2
<1>4. CacheTypeOK
  <2>1. Range(entries) \subseteq Entry
    BY <1>1 DEF Range
  <2>2. \A i, j \in DOMAIN entries : entries[i].signature = entries[j].signature => i = j
    BY <1>1, TailsAreDistinct DEF KeptInv
  <2> QED BY <2>1, <2>2 DEF CacheTypeOK, KeptInv
<1>5. TypeOK
  BY <1>4 DEF TypeOK, KeptInv
<1> QED BY <1>2, <1>3, <1>5 DEF KeptInv

\* thinking-cache.ts:22: the cache holds the entries that were used last, within both
\* caps, and evicts for want of room only; with one client or with any calls.
THEOREM LastUsedStay == ThinkingSpec => LastUsedAreKept
<1>1. KeptInv /\ [ThinkingNext]_thinkingVars => [LET gone == {i \in DOMAIN entries :
                       \A j \in DOMAIN entries' : entries'[j].signature # entries[i].signature}
       IN  entries' # <<>> =>
               \A i \in gone :
                   \/ \E j \in gone : j > i
                   \/ Len(entries') = MaxEntries
                   \/ Sizes(entries') + Size(entries[i].thinking) > MaxBytes]_cacheVars
  BY StepEvicts DEF Evicts
<1> QED BY <1>1, KeptAtFirst, KeptStays, KeptIsLastUsed, PTL DEF ThinkingSpec, LastUsedAreKept, EvictsForRoomOnly
=============================================================================
