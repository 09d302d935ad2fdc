-------------------------- MODULE Remover_proofs ---------------------------
(***************************************************************************)
(* Proofs about Remover, for any texts, keys and hashes: the inductive     *)
(* invariant (every entry lies under the token of its own surface, and     *)
(* every answer restores to its values), that entries never change, what a *)
(* token can be restored to, and what an answer never shows.  And about    *)
(* RestorerPasses, for any vault, look-alikes and text: that each          *)
(* replacement is in its place, and of the right value.                    *)
(***************************************************************************)
EXTENDS Remover, RestorerPasses, WellFoundedInduction, SequenceTheorems, FiniteSetTheorems, TLAPS

\* Tokens are tokens.
LEMMA TokenOfType ==
    \A k \in Keys, s \in Surfaces : TokenOf(k, s) \in Token
  BY SurfacesAssumption, HashAssumption DEF TokenOf, Token

\* A set of positions has a first one.
LEMMA FirstPosition ==
    ASSUME NEW S, S \subseteq Nat, S # {}
    PROVE  Min(S) \in S /\ \A j \in S : Min(S) <= j
<1>1. PICK x \in S : \A y \in S : ~ (<<y, x>> \in OpToRel(<, Nat))
  BY NatLessThanWellFounded, WFMin, Zenon
<1>2. ASSUME NEW y \in S, y < x PROVE FALSE
  <2>1. <<y, x>> \in Nat \X Nat /\ <<y, x>>[1] < <<y, x>>[2]
    BY <1>2
  <2>2. <<y, x>> \in OpToRel(<, Nat)
    BY <2>1, Zenon DEF OpToRel
  <2> QED BY <1>1, <2>2
<1>3. \A y \in S : x <= y
  BY <1>2
<1> QED BY <1>3 DEF Min

\* What is found in a text is found at places of it.
LEMMA ReadingsType ==
    ASSUME NEW text \in Seq(Surfaces), NEW found \in Readings(text)
    PROVE  /\ DOMAIN found \subseteq DOMAIN text
           /\ DOMAIN found \subseteq Nat
           /\ \A i \in DOMAIN found : found[i] \in Surfaces
           /\ found \in [DOMAIN found -> Surfaces]
<1>1. DOMAIN text \subseteq Nat
  OBVIOUS
<1>2. PICK S \in SUBSET DOMAIN text : found \in [S -> Surfaces]
  BY Zenon DEF Readings
<1> QED BY <1>1, <1>2

\* What assign() leaves in the vault: known tokens as they were, every claimed
\* token with one of the surfaces that claim it, in fact the first.
LEMMA RecordedEntries ==
    ASSUME TypeOK, NEW text \in Seq(Surfaces), NEW found \in Readings(text),
           NEW S \in SUBSET DOMAIN found
    PROVE  /\ Recorded(found, S) \in [Token -> Surfaces \cup {NoEntry}]
           /\ \A t \in Token : entries[t] # NoEntry => Recorded(found, S)[t] = entries[t]
           /\ \A t \in Token :
                entries[t] = NoEntry /\ Recorded(found, S)[t] # NoEntry
                => \E i \in S : /\ t = TokenOf(key, found[i])
                                /\ Recorded(found, S)[t] = found[i]
           /\ \A t \in Token, j \in S :
                entries[t] = NoEntry /\ t = TokenOf(key, found[j])
                => \E i \in S : /\ t = TokenOf(key, found[i])
                                /\ Recorded(found, S)[t] = found[i]
                                /\ i <= j
<1>1. DOMAIN found \subseteq Nat /\ \A i \in DOMAIN found : found[i] \in Surfaces
  BY ReadingsType
<1>2. ASSUME NEW t \in Token, Claims(found, S, t) # {}
      PROVE  /\ Min(Claims(found, S, t)) \in S
             /\ TokenOf(key, found[Min(Claims(found, S, t))]) = t
             /\ \A j \in Claims(found, S, t) : Min(Claims(found, S, t)) <= j
  <2>1. Claims(found, S, t) \subseteq Nat
    BY <1>1 DEF Claims
  <2>2. Min(Claims(found, S, t)) \in Claims(found, S, t)
        /\ \A j \in Claims(found, S, t) : Min(Claims(found, S, t)) <= j
    BY <1>2, <2>1, FirstPosition
  <2> QED BY <2>2 DEF Claims
<1>3. entries \in [Token -> Surfaces \cup {NoEntry}]
  BY DEF TypeOK
<1>4. Recorded(found, S) \in [Token -> Surfaces \cup {NoEntry}]
  BY <1>1, <1>2, <1>3 DEF Recorded
<1>5. \A t \in Token : entries[t] # NoEntry => Recorded(found, S)[t] = entries[t]
  BY DEF Recorded
<1>6. ASSUME NEW t \in Token, entries[t] = NoEntry, Recorded(found, S)[t] # NoEntry
      PROVE  \E i \in S : t = TokenOf(key, found[i]) /\ Recorded(found, S)[t] = found[i]
  <2>1. Claims(found, S, t) # {} /\ Recorded(found, S)[t] = found[Min(Claims(found, S, t))]
    BY <1>6 DEF Recorded
  <2> QED BY <1>2, <2>1
<1>7. ASSUME NEW t \in Token, NEW j \in S, entries[t] = NoEntry, t = TokenOf(key, found[j])
      PROVE  \E i \in S : /\ t = TokenOf(key, found[i])
                          /\ Recorded(found, S)[t] = found[i]
                          /\ i <= j
  <2>1. j \in Claims(found, S, t)
    BY <1>7 DEF Claims
  <2>2. Recorded(found, S)[t] = found[Min(Claims(found, S, t))]
    BY <1>7, <2>1 DEF Recorded
  <2> QED BY <1>2, <2>1, <2>2
<1> QED BY <1>4, <1>5, <1>6, <1>7

-----------------------------------------------------------------------------
(* Type correctness                                                        *)

CallType == [pc: {"idle", "detecting", "fallback"}, text: Seq(Surfaces)]

\* An idle call is a call.
LEMMA IdleType == Idle \in CallType
<1>1. <<>> \in Seq(Surfaces)
  OBVIOUS
<1> QED BY <1>1 DEF Idle, CallType

\* What EndMask hides is found in the text, and assign() gets to a part of it.
LEMMA EndMaskPositions ==
    ASSUME TypeOK, NEW c \in Calls, NEW report \in Reports(c), NEW found \in WithSecrets(c, report)
    PROVE  /\ calls[c].text \in Seq(Surfaces)
           /\ found \in Readings(calls[c].text)
           /\ Processed(found) \in SUBSET DOMAIN found
<1>1. calls[c].text \in Seq(Surfaces)
  BY DEF TypeOK
<1>2. found \in Readings(calls[c].text)
  BY DEF WithSecrets
<1> QED BY <1>1, <1>2 DEF Processed

\* Types, at the start and by a step.
LEMMA TypeInit == Init => TypeOK
<1> SUFFICES ASSUME Init PROVE TypeOK
  OBVIOUS
<1>1. calls \in [Calls -> CallType] /\ answers = {}
  BY IdleType DEF Init
<1>2. entries \in [Token -> Surfaces \cup {NoEntry}]
  BY DEF Init, NoEntries
<1> QED BY <1>1, <1>2 DEF Init, TypeOK, CallType

\* Each step keeps the types.
LEMMA TypeStep == TypeOK /\ [Next]_vars => TypeOK'
<1> SUFFICES ASSUME TypeOK, [Next]_vars PROVE TypeOK'
  OBVIOUS
<1> USE DEF CallType
<1>1. ASSUME NEW c \in Calls, NEW text \in Texts, Passthrough(c, text)
      PROVE  TypeOK'
  <2>1. text \in Seq(Surfaces)
    BY SurfacesAssumption
  <2>2. DOMAIN <<>> = {} /\ <<>> \in [DOMAIN <<>> -> Surfaces]
    OBVIOUS
  <2>3. ASSUME NEW a \in answers'
        PROVE  /\ a.text \in Seq(Surfaces)
               /\ DOMAIN a.hidden \subseteq DOMAIN a.text
               /\ a.hidden \in [DOMAIN a.hidden -> Surfaces]
               /\ a.via \in {"detector", "passthrough"}
    <3>1. CASE a \in answers
      BY <3>1 DEF TypeOK
    <3>2. CASE a = [text |-> text, hidden |-> <<>>, disputed |-> {}, via |-> "passthrough"]
      <4>1. a.text = text /\ a.hidden = <<>> /\ a.via = "passthrough"
        BY <3>2
      <4> QED BY <2>1, <2>2, <4>1
    <3> QED BY <1>1, <3>1, <3>2 DEF Passthrough
  <2> QED BY <1>1, <2>3 DEF Passthrough, TypeOK
<1>2. ASSUME NEW c \in Calls, NEW text \in Texts, BeginMask(c, text)
      PROVE  TypeOK'
  <2>1. text \in Seq(Surfaces)
    BY SurfacesAssumption
  <2>2. calls' \in [Calls -> CallType]
    BY <1>2, <2>1 DEF BeginMask, TypeOK
  <2> QED BY <1>2, <2>2 DEF BeginMask, TypeOK
<1>3. ASSUME NEW c \in Calls, DetectorFails(c) \/ FallbackFails(c)
      PROVE  TypeOK'
  <2>1. [pc |-> "fallback", text |-> calls[c].text] \in CallType
    BY DEF TypeOK
  <2>2. calls' \in [Calls -> CallType]
    BY <1>3, <2>1, IdleType DEF DetectorFails, FallbackFails, TypeOK
  <2> QED BY <1>3, <2>2 DEF DetectorFails, FallbackFails, TypeOK
<1>4. ASSUME NEW c \in Calls, EndMask(c)
      PROVE  TypeOK'
  <2> DEFINE text == calls[c].text
  <2>1. PICK report, found :
          /\ report \in Reports(c) /\ found \in WithSecrets(c, report)
          /\ entries' = Recorded(found, Processed(found))
          /\ \/ answers' = answers
             \/ answers' = answers \cup
                    {[text |-> text, hidden |-> found, disputed |-> Disputed(text, report),
                      via |-> "detector"]}
    BY <1>4 DEF EndMask
  <2>t. text \in Seq(Surfaces) /\ found \in Readings(text)
        /\ Processed(found) \in SUBSET DOMAIN found
    BY <2>1, EndMaskPositions
  <2>2. entries' \in [Token -> Surfaces \cup {NoEntry}]
    BY <2>1, <2>t, RecordedEntries
  <2>3. ASSUME NEW a \in answers'
        PROVE  /\ a.text \in Seq(Surfaces)
               /\ DOMAIN a.hidden \subseteq DOMAIN a.text
               /\ a.hidden \in [DOMAIN a.hidden -> Surfaces]
               /\ a.via \in {"detector", "passthrough"}
    <3>1. CASE a \in answers
      BY <3>1 DEF TypeOK
    <3>2. CASE a = [text |-> text, hidden |-> found, disputed |-> Disputed(text, report),
                    via |-> "detector"]
      <4>1. a.text = text /\ a.hidden = found /\ a.via = "detector"
        BY <3>2
      <4> QED BY <2>t, <4>1, ReadingsType
    <3> QED BY <2>1, <3>1, <3>2
  <2>4. calls' \in [Calls -> CallType]
    BY <1>4, IdleType DEF EndMask, TypeOK
  <2> QED BY <1>4, <2>2, <2>3, <2>4 DEF EndMask, TypeOK
<1>5. CASE Dispose
  <2>1. entries' \in [Token -> Surfaces \cup {NoEntry}]
    BY <1>5 DEF Dispose, NoEntries
  <2> QED BY <1>5, <2>1 DEF Dispose, TypeOK
<1>6. CASE Restart
  <2>1. entries' \in [Token -> Surfaces \cup {NoEntry}] /\ calls' \in [Calls -> CallType]
    BY <1>6, IdleType DEF Restart, NoEntries
  <2>2. answers' = {} /\ restarts' \in Nat
    BY <1>6 DEF Restart, TypeOK
  <2> QED BY <1>6, <2>1, <2>2 DEF Restart, TypeOK
<1>7. CASE UNCHANGED vars
  BY <1>7 DEF vars, TypeOK
<1> QED BY <1>1, <1>2, <1>3, <1>4, <1>5, <1>6, <1>7 DEF Next, CallStep

\* Type correctness of the remover.
THEOREM TypeCorrect == Spec => []TypeOK
  BY TypeInit, TypeStep, PTL DEF Spec

-----------------------------------------------------------------------------
(* The round trip                                                          *)

\* A token that has an entry resolves to it.
LEMMA ResolveLive ==
    \A o \in Token : entries[o] # NoEntry
        => Resolve(o).kind = "exact" /\ Resolve(o).surface = entries[o]
  BY DEF Resolve

\* RoundTrips in terms of the vault.
Kept(a) ==
    \A i \in DOMAIN a.hidden :
        LET t == TokenOf(key, a.hidden[i]) IN
        entries[t] # NoEntry /\ SameValue(entries[t], a.hidden[i])

\* The round trip, said of one answer.
LEMMA KeptRestores ==
    ASSUME TypeOK
    PROVE  RoundTrips <=> (~disposed => \A a \in answers : Kept(a))
<1>1. ASSUME NEW a \in answers, NEW i \in DOMAIN a.hidden
      PROVE  TokenOf(key, a.hidden[i]) \in Token
  <2>1. a.hidden \in [DOMAIN a.hidden -> Surfaces] /\ key \in Keys
    BY DEF TypeOK
  <2>2. a.hidden[i] \in Surfaces
    BY <2>1
  <2> QED BY <2>1, <2>2, TokenOfType
<1>2. ASSUME NEW a \in answers, NEW i \in DOMAIN a.hidden
      PROVE  LET t == TokenOf(key, a.hidden[i]) IN
             (Resolve(t).kind = "exact" /\ SameValue(Resolve(t).surface, a.hidden[i]))
             <=> (entries[t] # NoEntry /\ SameValue(entries[t], a.hidden[i]))
  <2> DEFINE t == TokenOf(key, a.hidden[i])
  <2>1. CASE entries[t] # NoEntry
    BY <1>1, <2>1, ResolveLive
  <2>2. CASE entries[t] = NoEntry
    <3>1. Resolve(t).kind # "exact"
      BY <2>2 DEF Resolve
    <3> QED BY <2>2, <3>1
  <2> QED BY <2>1, <2>2
<1> QED BY <1>2 DEF RoundTrips, Kept

\* What EndMask does, step by step.
LEMMA EndMaskEffect ==
    ASSUME TypeOK, NEW c \in Calls, EndMask(c)
    PROVE  \E text \in Seq(Surfaces) : \E found \in Readings(text) :
             /\ Processed(found) \in SUBSET DOMAIN found
             /\ entries' = Recorded(found, Processed(found))
             /\ \/ answers' = answers
                \/ /\ Processed(found) = DOMAIN found
                   /\ \E d, v : answers' = answers \cup
                         {[text |-> text, hidden |-> found, disputed |-> d, via |-> v]}
<1>1. PICK report, found :
        /\ report \in Reports(c) /\ found \in WithSecrets(c, report)
        /\ entries' = Recorded(found, Processed(found))
        /\ IF Processed(found) = DOMAIN found /\ (DOMAIN found = {} \/ ~Overfull(entries'))
           THEN answers' = answers \cup
                    {[text |-> calls[c].text, hidden |-> found,
                      disputed |-> Disputed(calls[c].text, report), via |-> "detector"]}
           ELSE answers' = answers
  BY DEF EndMask
<1>2. /\ calls[c].text \in Seq(Surfaces)
      /\ found \in Readings(calls[c].text)
      /\ Processed(found) \in SUBSET DOMAIN found
  BY <1>1, EndMaskPositions
<1>3. \/ answers' = answers
      \/ /\ Processed(found) = DOMAIN found
         /\ \E d, v : answers' = answers \cup
               {[text |-> calls[c].text, hidden |-> found, disputed |-> d, via |-> v]}
  BY <1>1
<1> QED BY <1>1, <1>2, <1>3

\* A vault is only ever extended by EndMask.
LEMMA EndMaskKeepsEntries ==
    ASSUME TypeOK, NEW c \in Calls, EndMask(c), NEW t \in Token, entries[t] # NoEntry
    PROVE  entries'[t] = entries[t]
<1>1. PICK text \in Seq(Surfaces) : \E found \in Readings(text) :
        \E S \in SUBSET DOMAIN found : entries' = Recorded(found, S)
  BY EndMaskEffect
<1> QED BY <1>1, RecordedEntries

\* A text masked puts entries under their own tokens.
LEMMA EndMaskOwnToken ==
    ASSUME TypeOK, EntriesUnderOwnToken, NEW c \in Calls, EndMask(c)
    PROVE  EntriesUnderOwnToken'
<1>1. PICK text \in Seq(Surfaces) : \E found \in Readings(text) :
        \E S \in SUBSET DOMAIN found : entries' = Recorded(found, S)
  BY EndMaskEffect
<1>2. key' = key
  BY DEF EndMask
<1>3. ASSUME NEW t \in Token, entries'[t] # NoEntry
      PROVE  t = TokenOf(key, entries'[t])
  <2>1. CASE entries[t] # NoEntry
    BY <1>1, <2>1, RecordedEntries DEF EntriesUnderOwnToken
  <2>2. CASE entries[t] = NoEntry
    BY <1>1, <1>3, <2>2, RecordedEntries
  <2> QED BY <2>1, <2>2
<1> QED BY <1>2, <1>3 DEF EntriesUnderOwnToken, TokenOf

\* When assign() went through all detections, each of them found or made an
\* entry of its own value: the collision check saw every other case.
LEMMA AssignedAreKept ==
    ASSUME TypeOK, EntriesUnderOwnToken, NEW text \in Seq(Surfaces),
           NEW found \in Readings(text), Processed(found) = DOMAIN found,
           NEW i \in DOMAIN found
    PROVE  LET t == TokenOf(key, found[i]) IN
           /\ Recorded(found, DOMAIN found)[t] # NoEntry
           /\ SameValue(Recorded(found, DOMAIN found)[t], found[i])
<1> DEFINE t == TokenOf(key, found[i])
<1>1. DOMAIN found \subseteq Nat /\ \A j \in DOMAIN found : found[j] \in Surfaces
  BY ReadingsType
<1>2. t \in Token /\ key \in Keys
  BY <1>1, TokenOfType DEF TypeOK
<1>3. ~Clash(found, i)
  BY <1>1 DEF Processed
<1>4. CASE entries[t] # NoEntry
  <2>1. Recorded(found, DOMAIN found)[t] = entries[t]
    BY <1>2, <1>4, RecordedEntries
  <2>2. CanonOf[entries[t]] = CanonOf[found[i]]
    BY <1>3, <1>4 DEF Clash
  <2>3. t = TokenOf(key, entries[t])
    BY <1>2, <1>4 DEF EntriesUnderOwnToken
  <2>4. CatOf[entries[t]] = CatOf[found[i]]
    BY <2>3 DEF TokenOf
  <2> QED BY <1>4, <2>1, <2>2, <2>4 DEF SameValue
<1>5. CASE entries[t] = NoEntry
  <2>1. PICK j \in DOMAIN found : t = TokenOf(key, found[j]) /\ Recorded(found, DOMAIN found)[t] = found[j] /\ j <= i
    BY <1>2, <1>5, RecordedEntries
  <2>2. CanonOf[found[j]] = CanonOf[found[i]]
    <3>1. CASE j = i
      BY <3>1
    <3>2. CASE j < i
      BY <1>3, <2>1, <3>2 DEF Clash
    <3> QED BY <1>1, <2>1, <3>1, <3>2
  <2>3. CatOf[found[j]] = CatOf[found[i]]
    BY <2>1 DEF TokenOf
  <2>4. found[j] # NoEntry
    BY <1>1, SurfacesAssumption
  <2> QED BY <2>1, <2>2, <2>3, <2>4 DEF SameValue
<1> QED BY <1>4, <1>5

\* What earlier answers hid stays known, and what this one hides becomes known.
LEMMA EndMaskKept ==
    ASSUME TypeOK, EntriesUnderOwnToken, \A a \in answers : Kept(a), NEW c \in Calls, EndMask(c)
    PROVE  (\A a \in answers : Kept(a))'
<1>1. key' = key
  BY DEF EndMask
<1>2. ASSUME NEW a \in answers PROVE Kept(a)'
  <2>1. ASSUME NEW i \in DOMAIN a.hidden
        PROVE  LET t == TokenOf(key, a.hidden[i]) IN entries'[t] = entries[t]
    <3>1. a.hidden[i] \in Surfaces /\ key \in Keys
      BY DEF TypeOK
    <3>2. TokenOf(key, a.hidden[i]) \in Token
      BY <3>1, TokenOfType
    <3>3. entries[TokenOf(key, a.hidden[i])] # NoEntry
      BY DEF Kept
    <3> QED BY <3>2, <3>3, EndMaskKeepsEntries
  <2> QED BY <1>1, <2>1 DEF Kept, TokenOf
<1>3. PICK text \in Seq(Surfaces) : \E found \in Readings(text) :
        /\ Processed(found) \in SUBSET DOMAIN found
        /\ entries' = Recorded(found, Processed(found))
        /\ \/ answers' = answers
           \/ /\ Processed(found) = DOMAIN found
              /\ \E d, v : answers' = answers \cup
                    {[text |-> text, hidden |-> found, disputed |-> d, via |-> v]}
  BY EndMaskEffect
<1>4. PICK found \in Readings(text) :
        /\ entries' = Recorded(found, Processed(found))
        /\ \/ answers' = answers
           \/ /\ Processed(found) = DOMAIN found
              /\ \E d, v : answers' = answers \cup
                    {[text |-> text, hidden |-> found, disputed |-> d, via |-> v]}
  BY <1>3
<1>5. ASSUME Processed(found) = DOMAIN found, NEW d, NEW v, NEW a,
             a = [text |-> text, hidden |-> found, disputed |-> d, via |-> v]
      PROVE  Kept(a)'
  <2>1. a.hidden = found
    BY <1>5
  <2>2. \A i \in DOMAIN found : LET t == TokenOf(key, found[i]) IN
          entries'[t] # NoEntry /\ SameValue(entries'[t], found[i])
    BY <1>4, <1>5, AssignedAreKept
  <2> QED BY <1>1, <2>1, <2>2 DEF Kept, TokenOf, SameValue
<1> QED BY <1>2, <1>4, <1>5

-----------------------------------------------------------------------------
(* The inductive invariant                                                 *)

\* The invariant at the start.
LEMMA RemoverInit == Init => RemoverInv
<1> SUFFICES ASSUME Init PROVE RemoverInv
  OBVIOUS
<1>1. EntriesUnderOwnToken
  BY DEF Init, NoEntries, EntriesUnderOwnToken
<1>2. RoundTrips
  BY DEF Init, RoundTrips
<1> QED BY <1>1, <1>2, TypeInit DEF RemoverInv

\* Each step keeps the invariant.
LEMMA RemoverStep == RemoverInv /\ [Next]_vars => RemoverInv'
<1> SUFFICES ASSUME RemoverInv, [Next]_vars PROVE RemoverInv'
  OBVIOUS
<1>t. TypeOK /\ EntriesUnderOwnToken /\ TypeOK'
  BY TypeStep DEF RemoverInv
<1>k. ~disposed => \A a \in answers : Kept(a)
  BY <1>t, KeptRestores DEF RemoverInv
<1>r. RoundTrips' <=> (~disposed => \A a \in answers : Kept(a))'
  <2>1. TypeOK => (RoundTrips <=> (~disposed => \A a \in answers : Kept(a)))
    BY KeptRestores
  <2>2. TypeOK' => (RoundTrips <=> (~disposed => \A a \in answers : Kept(a)))'
    BY KeptRestores, PTL
  <2> QED BY <1>t, <2>2
<1> SUFFICES EntriesUnderOwnToken' /\ (~disposed => \A a \in answers : Kept(a))'
  BY <1>t, <1>r DEF RemoverInv
<1>s. ASSUME UNCHANGED <<key, entries, disposed, answers>>
      PROVE  EntriesUnderOwnToken' /\ (~disposed => \A a \in answers : Kept(a))'
  BY <1>s, <1>t, <1>k DEF EntriesUnderOwnToken, Kept, TokenOf
<1>1. ASSUME NEW c \in Calls, NEW text \in Texts, Passthrough(c, text)
      PROVE  EntriesUnderOwnToken' /\ (~disposed => \A a \in answers : Kept(a))'
  <2>1. EntriesUnderOwnToken'
    BY <1>1, <1>t DEF Passthrough, EntriesUnderOwnToken, TokenOf
  <2>2. \A a \in answers' : a \in answers \/ DOMAIN a.hidden = {}
    BY <1>1 DEF Passthrough
  <2>3. UNCHANGED <<key, entries, disposed>>
    BY <1>1 DEF Passthrough
  <2> QED BY <1>k, <2>1, <2>2, <2>3 DEF Kept, TokenOf
<1>2. ASSUME NEW c \in Calls, EndMask(c)
      PROVE  EntriesUnderOwnToken' /\ (~disposed => \A a \in answers : Kept(a))'
  <2>1. disposed' = disposed
    BY <1>2 DEF EndMask
  <2> QED BY <1>2, <1>t, <1>k, <2>1, EndMaskOwnToken, EndMaskKept
<1>3. ASSUME Dispose \/ Restart
      PROVE  EntriesUnderOwnToken' /\ (~disposed => \A a \in answers : Kept(a))'
  <2>1. entries' = NoEntries /\ (disposed' \/ answers' = {})
    BY <1>3 DEF Dispose, Restart
  <2> QED BY <2>1 DEF EntriesUnderOwnToken, NoEntries
<1>4. ASSUME NEW c \in Calls, NEW text \in Texts, BeginMask(c, text)
      PROVE  UNCHANGED <<key, entries, disposed, answers>>
  BY <1>4 DEF BeginMask
<1>5. ASSUME NEW c \in Calls, DetectorFails(c) \/ FallbackFails(c)
      PROVE  UNCHANGED <<key, entries, disposed, answers>>
  BY <1>5 DEF DetectorFails, FallbackFails
<1>6. CASE UNCHANGED vars
  BY <1>6, <1>s DEF vars
<1> QED BY <1>s, <1>1, <1>2, <1>3, <1>4, <1>5, <1>6 DEF Next, CallStep

\* The inductive invariant of the remover.
THEOREM RemoverSafe == Spec => []RemoverInv
  BY RemoverInit, RemoverStep, PTL DEF Spec

\* While its vault lives, a masked text restores to the values it had.
THEOREM MaskedTextsRoundTrip == Spec => []RoundTrips
<1>1. RemoverInv => RoundTrips
  BY DEF RemoverInv
<1> QED BY <1>1, RemoverSafe, PTL

\* An entry keeps its value until the vault is dropped as a whole.
THEOREM EntriesStayTheSame == Spec => EntriesAreStable
<1>1. ASSUME TypeOK, [Next]_vars, NEW t \in Token, entries[t] # NoEntry
      PROVE  entries'[t] = entries[t] \/ entries' = NoEntries
  <2>1. ASSUME NEW c \in Calls, EndMask(c)
        PROVE  entries'[t] = entries[t]
    BY <1>1, <2>1, EndMaskKeepsEntries
  <2>2. CASE Dispose \/ Restart
    BY <2>2 DEF Dispose, Restart
  <2>3. ASSUME NEW c \in Calls, NEW text \in Texts, Passthrough(c, text) \/ BeginMask(c, text)
        PROVE  entries' = entries
    BY <2>3 DEF Passthrough, BeginMask
  <2>4. ASSUME NEW c \in Calls, DetectorFails(c) \/ FallbackFails(c)
        PROVE  entries' = entries
    BY <2>4 DEF DetectorFails, FallbackFails
  <2>5. CASE UNCHANGED vars
    BY <2>5 DEF vars
  <2> QED BY <1>1, <2>1, <2>2, <2>3, <2>4, <2>5 DEF Next, CallStep
<1>2. TypeOK /\ [Next]_vars
      => [\A t \in Token : entries[t] # NoEntry => entries'[t] = entries[t] \/ entries' = NoEntries]_vars
  BY <1>1
<1> QED BY <1>2, TypeCorrect, PTL DEF Spec, EntriesAreStable

-----------------------------------------------------------------------------
(* What a token can be restored to                                         *)

\* Resolve yields the value of an entry of the token's category whose hash is
\* within one edit, or nothing.
LEMMA ResolveNear ==
    ASSUME TypeOK, NEW o \in Token, Resolve(o).surface # NoEntry
    PROVE  \E t \in Live : t.cat = o.cat /\ Near(t.hash, o.hash) /\ Resolve(o).surface = entries[t]
<1>1. CASE entries[o] # NoEntry
  <2>1. o.hash \in Hashes
    BY DEF Token
  <2> QED BY <1>1, <2>1, NearAssumption DEF Resolve, Live
<1>2. CASE entries[o] = NoEntry
  <2>1. PICK t \in Candidates(o) : Candidates(o) = {t}
    BY <1>2 DEF Resolve
  <2>2. (CHOOSE u \in Candidates(o) : TRUE) = t
    BY <2>1
  <2>3. Resolve(o).surface = entries[t]
    BY <1>2, <2>1, <2>2 DEF Resolve
  <2> QED BY <2>1, <2>3 DEF Candidates
<1> QED BY <1>1, <1>2

\* Invariant I1: a minted token restores to its own value or not at all, in any
\* vault, whatever key minted it.
THEOREM OnlyOwnValues == Spec => []OwnValueOnly
<1>1. ASSUME RemoverInv, NEW k \in Keys, NEW s \in Surfaces, Apart(s),
             Resolve(TokenOf(k, s)).surface # NoEntry
      PROVE  SameValue(Resolve(TokenOf(k, s)).surface, s)
  <2>1. TypeOK /\ EntriesUnderOwnToken /\ TokenOf(k, s) \in Token
    BY <1>1, TokenOfType DEF RemoverInv
  <2>2. PICK t \in Live : /\ t.cat = TokenOf(k, s).cat
                          /\ Near(t.hash, TokenOf(k, s).hash)
                          /\ Resolve(TokenOf(k, s)).surface = entries[t]
    BY <1>1, <2>1, ResolveNear
  <2>3. /\ t \in Token /\ entries[t] \in Surfaces /\ key \in Keys
        /\ t = TokenOf(key, entries[t])
    BY <2>1, <2>2 DEF Live, TypeOK, EntriesUnderOwnToken
  <2>4. t.cat = CatOf[entries[t]] /\ t.hash = HashOf(key, entries[t])
    BY <2>3 DEF TokenOf
  <2>5. TokenOf(k, s).cat = CatOf[s] /\ TokenOf(k, s).hash = HashOf(k, s)
    BY DEF TokenOf
  <2>6. CatOf[entries[t]] = CatOf[s] /\ Near(HashOf(key, entries[t]), HashOf(k, s))
    BY <2>2, <2>4, <2>5
  <2>7. CanonOf[entries[t]] = CanonOf[s]
    BY <1>1, <2>3, <2>6 DEF Apart
  <2> QED BY <2>2, <2>6, <2>7 DEF SameValue
<1>2. RemoverInv => OwnValueOnly
  BY <1>1 DEF OwnValueOnly
<1> QED BY <1>2, RemoverSafe, PTL

\* A token damaged by one edit restores to its own value or is withheld.
THEOREM DamagedTokens == Spec => []DamagedIsOwnOrWithheld
<1>1. ASSUME NEW t \in Live, NEW o \in Token, t.cat = o.cat, Near(t.hash, o.hash), o \notin Live
      PROVE  Resolve(o).kind = "ambiguous" \/ Resolve(o).surface = entries[t]
  <2>1. entries[o] = NoEntry /\ t \in Candidates(o)
    BY <1>1 DEF Live, Candidates
  <2>2. CASE \E u \in Candidates(o) : Candidates(o) = {u}
    <3>1. (CHOOSE u \in Candidates(o) : TRUE) = t
      BY <2>1, <2>2
    <3> QED BY <2>1, <2>2, <3>1 DEF Resolve
  <2>3. CASE ~ \E u \in Candidates(o) : Candidates(o) = {u}
    BY <2>1, <2>3 DEF Resolve
  <2> QED BY <2>2, <2>3
<1>2. DamagedIsOwnOrWithheld
  BY <1>1 DEF DamagedIsOwnOrWithheld
<1> QED BY <1>2, PTL

\* A dead token of this key is never called foreign, one of another key never
\* expired.
THEOREM MissesAreClassified == Spec => []MissIsClassified
<1>1. ASSUME NEW k \in Keys, NEW s \in Surfaces
      PROVE  /\ k = key => Resolve(TokenOf(k, s)).kind # "foreign"
             /\ KeyEpoch[k] # KeyEpoch[key] => Resolve(TokenOf(k, s)).kind # "expired"
  <2>1. EpochOf(TokenOf(k, s).hash) = KeyEpoch[k]
    BY HashAssumption DEF TokenOf
  <2> QED BY <2>1 DEF Resolve
<1>2. MissIsClassified
  BY <1>1 DEF MissIsClassified
<1> QED BY <1>2, PTL

-----------------------------------------------------------------------------
(* What an answer never shows                                              *)

\* While its category is enabled, the answer of EndMask has every secret hidden that no
\* other detection overlaps.
LEMMA EndMaskAnswer ==
    ASSUME TypeOK, scans, NEW c \in Calls, EndMask(c), NEW a \in answers' \ answers,
           NEW i \in DOMAIN a.text \ a.disputed, CatOf[a.text[i]] = Secret
    PROVE  i \in DOMAIN a.hidden /\ a.hidden[i] = a.text[i]
<1>1. PICK report, found :
        /\ report \in Reports(c) /\ found \in WithSecrets(c, report)
        /\ \/ answers' = answers
           \/ answers' = answers \cup
                  {[text |-> calls[c].text, hidden |-> found,
                    disputed |-> Disputed(calls[c].text, report), via |-> "detector"]}
  BY DEF EndMask
<1> DEFINE text == calls[c].text
<1>2. a = [text |-> text, hidden |-> found, disputed |-> Disputed(text, report), via |-> "detector"]
  BY <1>1
<1>3. a.text = text /\ a.hidden = found /\ a.disputed = Disputed(text, report)
  BY <1>2
<1>4. i \in Secrets(text) /\ i \notin Disputed(text, report)
  BY <1>3 DEF Secrets
<1>5. /\ (DOMAIN report \cup Secrets(text)) \ DOMAIN found \subseteq Disputed(text, report)
      /\ \A j \in DOMAIN found : \/ j \in Secrets(text) /\ found[j] = text[j]
                                 \/ j \in DOMAIN report /\ found[j] = report[j]
  BY <1>1 DEF WithSecrets
<1>6. i \in DOMAIN found
  BY <1>4, <1>5
<1>7. found[i] = text[i]
  BY <1>4, <1>5, <1>6 DEF Disputed
<1> QED BY <1>3, <1>6, <1>7

\* Whoever else answers has let the text through.
LEMMA OtherSteps ==
    ASSUME [Next]_vars
    PROVE  /\ scans' = scans
           /\ \/ \E c \in Calls : EndMask(c)
              \/ \A a \in answers' \ answers : a.via = "passthrough"
<1>1. ASSUME NEW c \in Calls, NEW text \in Texts, Passthrough(c, text) \/ BeginMask(c, text)
      PROVE  scans' = scans /\ \A a \in answers' \ answers : a.via = "passthrough"
  BY <1>1 DEF Passthrough, BeginMask
<1>2. ASSUME NEW c \in Calls, DetectorFails(c) \/ FallbackFails(c)
      PROVE  UNCHANGED <<scans, answers>>
  BY <1>2 DEF DetectorFails, FallbackFails
<1>3. ASSUME NEW c \in Calls, EndMask(c)
      PROVE  scans' = scans
  BY <1>3 DEF EndMask
<1>4. CASE Dispose \/ Restart
  BY <1>4 DEF Dispose, Restart
<1>5. CASE UNCHANGED vars
  BY <1>5 DEF vars
<1> QED BY <1>1, <1>2, <1>3, <1>4, <1>5 DEF Next, CallStep

\* While its category is enabled, no detector that fails or misses exposes a secret that
\* no other detection overlaps, whichever of them answers.
THEOREM SecretsStayHidden == Spec => []SecretsAreHidden
<1>1. Init => SecretsAreHidden
  BY DEF Init, SecretsAreHidden
<1>2. ASSUME TypeOK, SecretsAreHidden, [Next]_vars PROVE SecretsAreHidden'
  <2>1. CASE \E c \in Calls : EndMask(c)
    BY <1>2, <2>1, EndMaskAnswer, OtherSteps DEF SecretsAreHidden
  <2>2. CASE \A a \in answers' \ answers : a.via = "passthrough"
    BY <1>2, <2>2, OtherSteps DEF SecretsAreHidden
  <2> QED BY <1>2, <2>1, <2>2, OtherSteps
<1> QED BY <1>1, <1>2, TypeCorrect, PTL DEF Spec

-----------------------------------------------------------------------------
(* RestorerPasses: one pass over a text                                    *)

\* Two sequences with the same members in the same places are one.
LEMMA SameSeq ==
    ASSUME NEW S, NEW s \in Seq(S), NEW t \in Seq(S), Len(s) = Len(t), \A i \in 1 .. Len(s) : s[i] = t[i]
    PROVE  s = t
OBVIOUS

\* A set of numbers that has 0, and n + 1 with every n in it, has them all:
\* the least number outside it cannot be.
LEMMA SetInduction ==
    ASSUME NEW S, 0 \in S, \A n \in Nat : n \in S => n + 1 \in S
    PROVE  Nat \subseteq S
<1> SUFFICES ASSUME Nat \ S # {} PROVE FALSE
  OBVIOUS
<1>1. IsWellFoundedOn(OpToRel(<, Nat), Nat)
  BY NatLessThanWellFounded
<1>2. PICK x \in Nat \ S : \A y \in Nat \ S : ~(<<y, x>> \in OpToRel(<, Nat))
  <2> DEFINE T == Nat \ S
             R == OpToRel(<, Nat)
  <2>1. T \subseteq Nat /\ T # {} /\ IsWellFoundedOn(R, Nat)
    BY <1>1
  <2> HIDE DEF T, R
  <2>2. \E x \in T : \A y \in T : ~(<<y, x>> \in R)
    BY <2>1, WFMin
  <2> QED BY <2>2 DEF T, R
<1>3. x # 0 /\ x - 1 \in Nat /\ (x - 1) + 1 = x /\ x - 1 < x
  OBVIOUS
<1>4. x - 1 \notin S
  BY <1>3
<1>5. <<x - 1, x>> \in OpToRel(<, Nat)
  BY <1>3 DEF OpToRel
<1> QED BY <1>2, <1>3, <1>4, <1>5

\* f is what step makes of base at the places 1 .. n, one after the other.
IsWalk(f, base, n, step) == f[0] = base /\ \A i \in 1 .. n : f[i] = step[<<i, f[i - 1]>>]

\* A walk over 1 .. n exists.
LEMMA Walk ==
    ASSUME NEW S, NEW base \in S, NEW n \in Nat, NEW step \in [(1 .. n) \X S -> S]
    PROVE  \E f \in [0 .. n -> S] : IsWalk(f, base, n, step)
<1> DEFINE Good(k, f) == f[0] = base /\ \A i \in 1 .. k : f[i] = step[<<i, f[i - 1]>>]
           T == {k \in Nat : k <= n => \E f \in [0 .. k -> S] : Good(k, f)}
<1>1. 0 \in T
  <2> DEFINE f == [i \in 0 .. 0 |-> base]
  <2>1. f \in [0 .. 0 -> S] /\ Good(0, f)
    OBVIOUS
  <2> QED BY <2>1
<1>2. ASSUME NEW k \in Nat, k \in T PROVE k + 1 \in T
  <2> SUFFICES ASSUME k + 1 <= n PROVE \E f \in [0 .. k + 1 -> S] : Good(k + 1, f)
    OBVIOUS
  <2>1. PICK g \in [0 .. k -> S] : Good(k, g)
    BY <1>2
  <2> DEFINE f == [i \in 0 .. k + 1 |-> IF i <= k THEN g[i] ELSE step[<<k + 1, g[k]>>]]
  <2>2. step[<<k + 1, g[k]>>] \in S
    <3>1. <<k + 1, g[k]>> \in (1 .. n) \X S
      BY <2>1
    <3> QED BY <3>1
  <2>3. f \in [0 .. k + 1 -> S]
    BY <2>1, <2>2
  <2>4. Good(k + 1, f)
    <3>1. f[0] = base
      BY <2>1
    <3>2. ASSUME NEW i \in 1 .. k + 1 PROVE f[i] = step[<<i, f[i - 1]>>]
      <4>1. CASE i = k + 1
        <5>1. i - 1 = k /\ ~(i <= k) /\ k \in 0 .. k + 1 /\ i \in 0 .. k + 1
          BY <4>1
        <5>2. f[i - 1] = g[k] /\ f[i] = step[<<k + 1, g[k]>>]
          BY <5>1
        <5> QED BY <5>2, <4>1
      <4>2. CASE i \in 1 .. k
        BY <4>2, <2>1
      <4> QED BY <4>1, <4>2
    <3> QED BY <3>1, <3>2
  <2> QED BY <2>3, <2>4
<1> HIDE DEF T
<1>3. n \in T
  BY <1>1, <1>2, SetInduction
<1> QED BY <1>3 DEF T, IsWalk


-----------------------------------------------------------------------------
(* What a text becomes                                                     *)

\* The walk of Rebuilt, as a function on the prefixes.
RebuiltTo(text, parts) ==
    CHOOSE prefix : prefix = [k \in 0 .. Len(text) |->
            IF k = 0 THEN <<>> ELSE prefix[k - 1] \o Becomes(text, parts, k)]

\* Rebuilt is the walk of RebuiltTo, taken to the end.
LEMMA RebuiltIsLast == \A text, parts : Rebuilt(text, parts) = RebuiltTo(text, parts)[Len(text)]
BY DEF Rebuilt, RebuiltTo

\* Parts whose replacements are texts.
Parts(parts) == \A m \in parts : m.text \in Seq(Cell)

\* What a cell becomes is a text.
LEMMA BecomesText ==
    ASSUME NEW text \in Seq(Cell), NEW parts, Parts(parts), NEW k \in 1 .. Len(text)
    PROVE  Becomes(text, parts, k) \in Seq(Cell)
<1>1. text[k] \in Cell
  OBVIOUS
<1>2. <<text[k]>> \in Seq(Cell) /\ <<>> \in Seq(Cell)
  BY <1>1
<1>3. CASE \E m \in parts : m.start = k
  <2> DEFINE p == CHOOSE m \in parts : m.start = k
  <2>1. p \in parts
    BY <1>3
  <2>2. p.text \in Seq(Cell)
    BY <2>1 DEF Parts
  <2> QED BY <1>3, <2>2 DEF Becomes
<1>4. CASE ~\E m \in parts : m.start = k
  BY <1>2, <1>4 DEF Becomes
<1> QED BY <1>3, <1>4

\* The recursive function is what its body says: there is one, by Walk.
LEMMA RebuiltToWalk ==
    ASSUME NEW text \in Seq(Cell), NEW parts, Parts(parts)
    PROVE  /\ RebuiltTo(text, parts)[0] = <<>>
           /\ \A k \in 1 .. Len(text) :
                  RebuiltTo(text, parts)[k] = RebuiltTo(text, parts)[k - 1] \o Becomes(text, parts, k)
           /\ \A k \in 0 .. Len(text) : RebuiltTo(text, parts)[k] \in Seq(Cell)
<1> DEFINE P(f) == f = [k \in 0 .. Len(text) |->
                IF k = 0 THEN <<>> ELSE f[k - 1] \o Becomes(text, parts, k)]
           F == CHOOSE f : P(f)
           step == [x \in (1 .. Len(text)) \X Seq(Cell) |-> x[2] \o Becomes(text, parts, x[1])]
<1>1. step \in [(1 .. Len(text)) \X Seq(Cell) -> Seq(Cell)]
  <2> SUFFICES ASSUME NEW x \in (1 .. Len(text)) \X Seq(Cell)
               PROVE  x[2] \o Becomes(text, parts, x[1]) \in Seq(Cell)
    OBVIOUS
  <2>1. x[1] \in 1 .. Len(text) /\ x[2] \in Seq(Cell)
    OBVIOUS
  <2>2. Becomes(text, parts, x[1]) \in Seq(Cell)
    BY <2>1, BecomesText
  <2> QED BY <2>1, <2>2
<1>2. PICK g \in [0 .. Len(text) -> Seq(Cell)] :
          g[0] = <<>> /\ \A i \in 1 .. Len(text) : g[i] = step[<<i, g[i - 1]>>]
  <2> DEFINE Q == Seq(Cell)
             m == Len(text)
             e == <<>>
             st == step
  <2>1. e \in Q /\ m \in Nat /\ st \in [(1 .. m) \X Q -> Q]
    BY <1>1
  <2> HIDE DEF step, P, F, Q, m, e, st
  <2>2. \E g \in [0 .. m -> Q] : IsWalk(g, e, m, st)
    BY ONLY <2>1, Walk
  <2> QED BY <2>2 DEF Q, m, e, st, IsWalk
<1>3. \A i \in 1 .. Len(text) : g[i] = g[i - 1] \o Becomes(text, parts, i)
  <2> SUFFICES ASSUME NEW i \in 1 .. Len(text) PROVE g[i] = g[i - 1] \o Becomes(text, parts, i)
    OBVIOUS
  <2>1. i - 1 \in 0 .. Len(text)
    OBVIOUS
  <2>2. g[i - 1] \in Seq(Cell)
    BY <1>2, <2>1
  <2>3. <<i, g[i - 1]>> \in (1 .. Len(text)) \X Seq(Cell)
    BY <2>2
  <2>4. step[<<i, g[i - 1]>>] = g[i - 1] \o Becomes(text, parts, i)
    BY <2>3
  <2> QED BY <1>2, <2>4
<1> HIDE DEF step
<1>4. P(g)
  <2>1. \A k \in 0 .. Len(text) : g[k] = IF k = 0 THEN <<>> ELSE g[k - 1] \o Becomes(text, parts, k)
    BY <1>2, <1>3
  <2> DEFINE rhs == [k \in 0 .. Len(text) |->
                IF k = 0 THEN <<>> ELSE g[k - 1] \o Becomes(text, parts, k)]
  <2>2. \A k \in 0 .. Len(text) : rhs[k] = g[k]
    BY <2>1
  <2>3. DOMAIN g = 0 .. Len(text) /\ g = [k \in 0 .. Len(text) |-> g[k]]
    BY <1>2
  <2> QED BY <2>1, <2>3
<1>5. P(F)
  BY <1>4, Zenon
<1>6. F = RebuiltTo(text, parts)
  BY DEF RebuiltTo
<1> HIDE DEF F
<1>7. \A k \in 0 .. Len(text) : F[k] = IF k = 0 THEN <<>> ELSE F[k - 1] \o Becomes(text, parts, k)
  BY <1>5
<1>0. F[0] = <<>> /\ \A k \in 1 .. Len(text) : F[k] = F[k - 1] \o Becomes(text, parts, k)
  <2>1. 0 \in 0 .. Len(text) /\ \A k \in 1 .. Len(text) : k \in 0 .. Len(text) /\ k # 0
    OBVIOUS
  <2> QED BY <2>1, <1>7, Zenon
<1>8. \A k \in 0 .. Len(text) : F[k] \in Seq(Cell)
  <2> DEFINE T == {k \in Nat : k <= Len(text) => F[k] \in Seq(Cell)}
  <2>1. 0 \in T
    <3>1. <<>> \in Seq(Cell)
      OBVIOUS
    <3> QED BY <1>0, <3>1
  <2>2. ASSUME NEW k \in Nat, k \in T PROVE k + 1 \in T
    <3> SUFFICES ASSUME k + 1 <= Len(text) PROVE F[k + 1] \in Seq(Cell)
      OBVIOUS
    <3>1. k + 1 \in 1 .. Len(text) /\ k + 1 \in 0 .. Len(text) /\ (k + 1) - 1 = k /\ F[k] \in Seq(Cell)
      BY <2>2
    <3>2. Becomes(text, parts, k + 1) \in Seq(Cell)
      BY <3>1, BecomesText
    <3>3. F[k + 1] = F[k] \o Becomes(text, parts, k + 1)
      BY <1>0, <3>1, Zenon
    <3> QED BY <3>1, <3>2, <3>3
  <2> HIDE DEF T
  <2>3. Nat \subseteq T
    BY <2>1, <2>2, SetInduction
  <2> QED BY <2>3 DEF T
<1> QED BY <1>6, <1>0, <1>8, Zenon

\* Before the first part the text is as it was.
LEMMA RebuiltBefore ==
    ASSUME NEW text \in Seq(Cell), NEW parts, Parts(parts), NEW n \in 0 .. Len(text),
           \A m \in parts : m.start \in Nat /\ n < m.start
    PROVE  RebuiltTo(text, parts)[n] = SubSeq(text, 1, n)
<1> DEFINE R == RebuiltTo(text, parts)
           T == {k \in Nat : k <= n => R[k] = SubSeq(text, 1, k)}
<1>1. 0 \in T
  BY RebuiltToWalk
<1>2. ASSUME NEW k \in Nat, k \in T PROVE k + 1 \in T
  <2> SUFFICES ASSUME k + 1 <= n PROVE R[k + 1] = SubSeq(text, 1, k + 1)
    OBVIOUS
  <2>1. R[k] = SubSeq(text, 1, k) /\ k + 1 \in 1 .. Len(text) /\ (k + 1) - 1 = k
    BY <1>2
  <2>2. Becomes(text, parts, k + 1) = <<text[k + 1]>>
    BY <2>1 DEF Becomes
  <2>3. R[k + 1] = R[k] \o Becomes(text, parts, k + 1)
    BY <2>1, RebuiltToWalk
  <2> HIDE DEF R
  <2>4. SubSeq(text, 1, k + 1) = SubSeq(text, 1, k) \o <<text[k + 1]>>
    BY <2>1
  <2> QED BY <2>1, <2>2, <2>3, <2>4
<1> HIDE DEF T
<1>3. n \in T
  BY <1>1, <1>2, SetInduction
<1> QED BY <1>3 DEF T

\* Nothing to replace, nothing changed.
LEMMA RebuiltOfNone == \A text \in Seq(Cell) : Rebuilt(text, {}) = text
<1> TAKE text \in Seq(Cell)
<1>1. RebuiltTo(text, {})[Len(text)] = SubSeq(text, 1, Len(text))
  BY RebuiltBefore DEF Parts
<1>2. SubSeq(text, 1, Len(text)) = text
  OBVIOUS
<1> QED BY <1>1, <1>2, RebuiltIsLast

\* Joining is associative.
LEMMA JoinedTwice ==
    ASSUME NEW p \in Seq(Cell), NEW q \in Seq(Cell), NEW x \in Seq(Cell)
    PROVE  p \o (q \o x) = (p \o q) \o x
<1>1. /\ Len(p \o (q \o x)) = Len(p) + Len(q) + Len(x) /\ p \o (q \o x) \in Seq(Cell)
      /\ Len((p \o q) \o x) = Len(p) + Len(q) + Len(x) /\ (p \o q) \o x \in Seq(Cell)
  OBVIOUS
<1>2. ASSUME NEW i \in 1 .. Len(p) + Len(q) + Len(x)
      PROVE  (p \o (q \o x))[i] = ((p \o q) \o x)[i]
  OBVIOUS
<1> QED BY <1>1, <1>2, SameSeq

\* The end of a text.
LEMMA TailOf ==
    ASSUME NEW z \in Seq(Cell), NEW b \in 0 .. Len(z)
    PROVE  /\ SubSeq(z, b + 1, Len(z)) \in Seq(Cell) /\ Len(SubSeq(z, b + 1, Len(z))) = Len(z) - b
           /\ \A i \in 1 .. Len(z) - b : SubSeq(z, b + 1, Len(z))[i] = z[i + b]
OBVIOUS

\* The beginning of a text.
LEMMA HeadOf ==
    ASSUME NEW z \in Seq(Cell), NEW a \in 0 .. Len(z)
    PROVE  /\ SubSeq(z, 1, a) \in Seq(Cell) /\ Len(SubSeq(z, 1, a)) = a
           /\ \A i \in 1 .. a : SubSeq(z, 1, a)[i] = z[i]
OBVIOUS

\* Two texts in a row.
LEMMA JoinedOf ==
    ASSUME NEW s \in Seq(Cell), NEW x \in Seq(Cell)
    PROVE  /\ s \o x \in Seq(Cell) /\ Len(s \o x) = Len(s) + Len(x)
           /\ \A i \in 1 .. Len(s) + Len(x) :
                  (s \o x)[i] = IF i <= Len(s) THEN s[i] ELSE x[i - Len(s)]
OBVIOUS

\* The beginning and the end of a text that goes on.
LEMMA HeadOfJoined ==
    ASSUME NEW s \in Seq(Cell), NEW x \in Seq(Cell), NEW a \in 0 .. Len(s)
    PROVE  SubSeq(s \o x, 1, a) = SubSeq(s, 1, a)
<1>1. Len(s) \in Nat /\ Len(x) \in Nat
  OBVIOUS
<1>2. a \in 0 .. Len(s \o x) /\ s \o x \in Seq(Cell)
  BY <1>1, JoinedOf
<1>3. /\ SubSeq(s \o x, 1, a) \in Seq(Cell) /\ Len(SubSeq(s \o x, 1, a)) = a
      /\ \A i \in 1 .. a : SubSeq(s \o x, 1, a)[i] = (s \o x)[i]
  BY <1>2, HeadOf
<1>4. \A i \in 1 .. a : (s \o x)[i] = s[i]
  BY <1>1, JoinedOf
<1>5. /\ SubSeq(s, 1, a) \in Seq(Cell) /\ Len(SubSeq(s, 1, a)) = a
      /\ \A i \in 1 .. a : SubSeq(s, 1, a)[i] = s[i]
  BY HeadOf
<1>6. \A i \in 1 .. a : SubSeq(s \o x, 1, a)[i] = SubSeq(s, 1, a)[i]
  BY <1>3, <1>4, <1>5, Zenon
<1> QED BY ONLY <1>3, <1>5, <1>6, SameSeq

\* The end of a text that goes on goes on as well.
LEMMA TailOfJoined ==
    ASSUME NEW s \in Seq(Cell), NEW x \in Seq(Cell), NEW b \in 0 .. Len(s)
    PROVE  SubSeq(s \o x, b + 1, Len(s \o x)) = SubSeq(s, b + 1, Len(s)) \o x
<1>1. Len(s) \in Nat /\ Len(x) \in Nat
  OBVIOUS
<1> DEFINE z == s \o x
           y == SubSeq(z, b + 1, Len(z))
           q == SubSeq(s, b + 1, Len(s))
           r == q \o x
           n == Len(s) + Len(x) - b
<1>2. z \in Seq(Cell) /\ Len(z) = Len(s) + Len(x) /\ b \in 0 .. Len(z)
      /\ \A i \in 1 .. Len(s) + Len(x) : z[i] = IF i <= Len(s) THEN s[i] ELSE x[i - Len(s)]
  <2>1. z \in Seq(Cell) /\ Len(z) = Len(s) + Len(x)
        /\ \A i \in 1 .. Len(s) + Len(x) : z[i] = IF i <= Len(s) THEN s[i] ELSE x[i - Len(s)]
    BY JoinedOf
  <2> HIDE DEF z
  <2> QED BY <2>1, <1>1
<1> HIDE DEF z
<1>3. y \in Seq(Cell) /\ Len(y) = Len(z) - b /\ \A i \in 1 .. Len(z) - b : y[i] = z[i + b]
  BY <1>2, TailOf
<1>4. q \in Seq(Cell) /\ Len(q) = Len(s) - b /\ \A i \in 1 .. Len(s) - b : q[i] = s[i + b]
  BY TailOf
<1> HIDE DEF y, q
<1>5. r \in Seq(Cell) /\ Len(r) = Len(q) + Len(x)
      /\ \A i \in 1 .. Len(q) + Len(x) : r[i] = IF i <= Len(q) THEN q[i] ELSE x[i - Len(q)]
  BY <1>4, JoinedOf
<1> HIDE DEF r
<1>6. Len(y) = n /\ Len(r) = n /\ n \in Nat
  BY <1>1, <1>2, <1>3, <1>4, <1>5
<1>7. ASSUME NEW i \in 1 .. n PROVE y[i] = r[i]
  <2>1. y[i] = z[i + b]
    BY <1>3, <1>2, <1>6
  <2>2. CASE i <= Len(s) - b
    <3>1. i + b \in 1 .. Len(s) + Len(x) /\ i + b <= Len(s) /\ i \in 1 .. Len(s) - b
          /\ i \in 1 .. Len(q) + Len(x) /\ i <= Len(q)
      BY <2>2, <1>1, <1>4, <1>6
    <3>2. z[i + b] = s[i + b]
      BY <3>1, <1>2
    <3>3. r[i] = q[i] /\ q[i] = s[i + b]
      BY <3>1, <1>5, <1>4
    <3> QED BY <2>1, <3>2, <3>3
  <2>3. CASE ~(i <= Len(s) - b)
    <3>1. i + b \in 1 .. Len(s) + Len(x) /\ ~(i + b <= Len(s)) /\ i + b - Len(s) = i - Len(q)
          /\ i \in 1 .. Len(q) + Len(x) /\ ~(i <= Len(q))
      BY <2>3, <1>1, <1>4, <1>6
    <3>2. z[i + b] = x[i + b - Len(s)]
      BY <3>1, <1>2
    <3>3. r[i] = x[i - Len(q)]
      BY <3>1, <1>5
    <3> QED BY <2>1, <3>1, <3>2, <3>3
  <2> QED BY <2>2, <2>3
<1> HIDE DEF n
<1>8. y = r
  BY ONLY <1>3, <1>5, <1>6, <1>7, SameSeq
<1> QED BY <1>8 DEF y, r, q, z

\* A splice does not see what is behind it.
LEMMA SpliceBehind ==
    \A s, x, t \in Seq(Cell) : \A m :
        /\ m.start \in Nat /\ m.end \in Nat /\ 1 <= m.start /\ m.start <= m.end /\ m.end <= Len(s)
        => Splice(s \o x, m, t) = Splice(s, m, t) \o x
<1> SUFFICES ASSUME NEW s \in Seq(Cell), NEW x \in Seq(Cell), NEW t \in Seq(Cell), NEW m,
                    m.start \in Nat, m.end \in Nat, 1 <= m.start, m.start <= m.end, m.end <= Len(s)
             PROVE  Splice(s \o x, m, t) = Splice(s, m, t) \o x
  OBVIOUS
<1> DEFINE p == SubSeq(s, 1, m.start - 1)
           q == SubSeq(s, m.end + 1, Len(s))
<1>1. Len(s) \in Nat
  OBVIOUS
<1>2. m.start - 1 \in 0 .. Len(s) /\ m.end \in 0 .. Len(s)
  BY <1>1
<1>3. SubSeq(s \o x, 1, m.start - 1) = p
  BY <1>2, HeadOfJoined
<1>4. SubSeq(s \o x, m.end + 1, Len(s \o x)) = q \o x
  BY <1>2, TailOfJoined
<1>5. p \in Seq(Cell) /\ q \in Seq(Cell)
  BY <1>2, HeadOf, TailOf
<1>6. Splice(s \o x, m, t) = p \o t \o (q \o x)
  BY <1>3, <1>4, Zenon DEF Splice
<1>7. Splice(s, m, t) = p \o t \o q
  BY Zenon DEF Splice
<1>8. p \o t \in Seq(Cell)
  BY <1>5, JoinedOf
<1> HIDE DEF p, q
<1>9. (p \o t) \o (q \o x) = ((p \o t) \o q) \o x
  <2> DEFINE pt == p \o t
  <2> HIDE DEF pt
  <2>1. pt \in Seq(Cell)
    BY <1>8 DEF pt
  <2>2. pt \o (q \o x) = (pt \o q) \o x
    BY <2>1, <1>5, JoinedTwice
  <2> QED BY <2>2 DEF pt
<1> QED BY <1>6, <1>7, <1>9

\* What is in front of the first part is there, and comes first.
LEMMA RebuiltReaches ==
    ASSUME NEW text \in Seq(Cell), NEW parts, Parts(parts), NEW n \in 0 .. Len(text),
           \A m \in parts : m.start \in Nat /\ n < m.start
    PROVE  Rebuilt(text, parts) \in Seq(Cell) /\ n <= Len(Rebuilt(text, parts))
<1> DEFINE R == RebuiltTo(text, parts)
           T == {k \in Nat : n + k <= Len(text) => n <= Len(R[n + k])}
<1>1. /\ \A k \in 1 .. Len(text) : R[k] = R[k - 1] \o Becomes(text, parts, k)
      /\ \A k \in 0 .. Len(text) : R[k] \in Seq(Cell)
  BY RebuiltToWalk
<1>2. R[n] = SubSeq(text, 1, n)
  BY RebuiltBefore
<1> HIDE DEF R
<1>3. 0 \in T
  <2>1. Len(R[n]) = n /\ n + 0 = n
    BY <1>2, HeadOf
  <2> QED BY <2>1
<1>4. ASSUME NEW k \in Nat, k \in T PROVE k + 1 \in T
  <2> SUFFICES ASSUME n + (k + 1) <= Len(text) PROVE n <= Len(R[n + (k + 1)])
    OBVIOUS
  <2> DEFINE i == n + k
             j == n + (k + 1)
  <2>1. j \in 1 .. Len(text) /\ j - 1 = i /\ i \in 0 .. Len(text) /\ i <= Len(text)
    OBVIOUS
  <2>2. n <= Len(R[i])
    BY <1>4, <2>1
  <2>3. R[j] = R[i] \o Becomes(text, parts, j) /\ R[i] \in Seq(Cell) /\ Becomes(text, parts, j) \in Seq(Cell)
    BY <1>1, <2>1, BecomesText
  <2> HIDE DEF i, j
  <2>4. Len(R[j]) = Len(R[i]) + Len(Becomes(text, parts, j)) /\ Len(Becomes(text, parts, j)) \in Nat
        /\ Len(R[i]) \in Nat
    BY <2>3, JoinedOf
  <2>5. n <= Len(R[j])
    BY <2>2, <2>4
  <2> QED BY <2>5 DEF j
<1>5. Len(text) - n \in T
  <2>1. Len(text) - n \in Nat
    OBVIOUS
  <2> HIDE DEF T
  <2> QED BY <1>3, <1>4, <2>1, SetInduction
<1>6. n + (Len(text) - n) = Len(text) /\ Len(text) \in 0 .. Len(text)
  OBVIOUS
<1>7. n <= Len(R[Len(text)]) /\ R[Len(text)] \in Seq(Cell)
  BY <1>1, <1>5, <1>6
<1> QED BY <1>7, RebuiltIsLast DEF R

\* A replacement in front of all the others lands where its part was.
LEMMA RebuiltSplice ==
    ASSUME NEW text \in Seq(Cell), NEW parts, Parts(parts), NEW p, p.text \in Seq(Cell),
           p.start \in Nat, p.end \in Nat, 1 <= p.start, p.start <= p.end, p.end <= Len(text),
           \A m \in parts : m.start \in Nat /\ p.end < m.start
    PROVE  Splice(Rebuilt(text, parts), p, p.text) = Rebuilt(text, parts \cup {p})
<1> DEFINE more == parts \cup {p}
           R == RebuiltTo(text, parts)
           Q == RebuiltTo(text, more)
           n == Len(text)
           a == p.start
           b == p.end
           t == p.text
<1>1. n \in Nat /\ a \in Nat /\ b \in Nat /\ 1 <= a /\ a <= b /\ b <= n /\ t \in Seq(Cell)
  OBVIOUS
<1>2. Parts(more)
  BY DEF Parts
<1>3. \A m \in more : m = p \/ (m \in parts /\ m.start \in Nat /\ b < m.start)
  OBVIOUS
<1>4. /\ R[0] = <<>> /\ \A k \in 1 .. n : R[k] = R[k - 1] \o Becomes(text, parts, k)
      /\ \A k \in 0 .. n : R[k] \in Seq(Cell)
  BY RebuiltToWalk
<1>5. /\ Q[0] = <<>> /\ \A k \in 1 .. n : Q[k] = Q[k - 1] \o Becomes(text, more, k)
      /\ \A k \in 0 .. n : Q[k] \in Seq(Cell)
  BY <1>2, RebuiltToWalk
<1>6. R[b] = SubSeq(text, 1, b)
  <2>1. b \in 0 .. Len(text) /\ \A m \in parts : m.start \in Nat /\ b < m.start
    BY <1>1
  <2> QED BY <2>1, RebuiltBefore
<1>7. Q[a - 1] = SubSeq(text, 1, a - 1)
  <2>1. a - 1 \in 0 .. Len(text) /\ \A m \in more : m.start \in Nat /\ a - 1 < m.start
    BY <1>1, <1>3
  <2> QED BY <2>1, <1>2, RebuiltBefore
<1>8. Becomes(text, more, a) = t
  <2>1. \A m \in more : m.start = a => m = p
    BY <1>1, <1>3
  <2>2. p \in more /\ p.start = a
    OBVIOUS
  <2>3. (CHOOSE m \in more : m.start = a) = p
    BY <2>1, <2>2
  <2> QED BY <2>2, <2>3 DEF Becomes
<1>9. ASSUME NEW k \in 1 .. n, a < k, k <= b PROVE Becomes(text, more, k) = <<>>
  <2>1. ~\E m \in more : m.start = k
    BY <1>1, <1>3, <1>9
  <2>2. p \in more /\ p.start < k /\ k <= p.end
    BY <1>9
  <2> QED BY <2>1, <2>2 DEF Becomes
<1>10. ASSUME NEW k \in 1 .. n, b < k PROVE Becomes(text, more, k) = Becomes(text, parts, k)
  <2>1. \A m \in more : m.start = k <=> (m \in parts /\ m.start = k)
    BY <1>1, <1>3, <1>10
  <2>2. (CHOOSE m \in more : m.start = k) = (CHOOSE m \in parts : m.start = k)
    BY <2>1
  <2>3. \A m \in more : (m.start < k /\ k <= m.end) => m \in parts
    BY <1>1, <1>3, <1>10
  <2>4. parts \subseteq more
    OBVIOUS
  <2>5. (\E m \in more : m.start = k) <=> (\E m \in parts : m.start = k)
    BY <2>1, <2>4
  <2>6. (\E m \in more : m.start < k /\ k <= m.end) <=> (\E m \in parts : m.start < k /\ k <= m.end)
    BY <2>3, <2>4
  <2> HIDE DEF more
  <2> QED BY <2>2, <2>5, <2>6, Zenon DEF Becomes
<1> DEFINE L == SubSeq(text, 1, a - 1) \o t
<1>11. Q[b] = L
  <2> DEFINE T == {k \in Nat : a + k <= b => Q[a + k] = L}
  <2> HIDE DEF more, a, b, R, Q, t, n
  <2>1. 0 \in T
    <3>1. a \in 1 .. n /\ a + 0 = a
      BY <1>1
    <3>2. Q[a] = Q[a - 1] \o t
      BY <3>1, <1>5, <1>8
    <3> QED BY <3>1, <3>2, <1>7
  <2>2. ASSUME NEW k \in Nat, k \in T PROVE k + 1 \in T
    <3>0. k + 1 \in T <=> (a + (k + 1) <= b => Q[a + (k + 1)] = L)
      BY k + 1 \in Nat, Zenon
    <3> SUFFICES ASSUME a + (k + 1) <= b PROVE Q[a + (k + 1)] = L
      BY <3>0, Zenon
    <3> DEFINE j == a + (k + 1)
    <3>1. j \in 1 .. n /\ j - 1 = a + k /\ a < j /\ j <= b /\ a + k <= b /\ a + k \in 0 .. n
      BY <1>1
    <3>2. Q[a + k] = L /\ Q[a + k] \in Seq(Cell)
      BY <2>2, <3>1, <1>5
    <3> HIDE DEF j
    <3>3. Q[j] = Q[j - 1] \o <<>>
      BY <3>1, <1>5, <1>9
    <3>4. L \in Seq(Cell)
      BY <3>2
    <3> HIDE DEF L
    <3>5. L \o <<>> = L
      BY <3>4
    <3>6. Q[j] = L
      BY <3>1, <3>2, <3>3, <3>5
    <3> QED BY <3>6 DEF j
  <2> HIDE DEF T
  <2>3. b - a \in Nat
    BY <1>1
  <2>4. b - a \in T
    BY <2>1, <2>2, <2>3, SetInduction
  <2>5. a + (b - a) = b /\ b <= b
    BY <1>1
  <2> QED BY <2>4, <2>5 DEF T
<1>12. Splice(R[b], p, t) = L
  <2>1. SubSeq(text, 1, b) \in Seq(Cell) /\ Len(SubSeq(text, 1, b)) = b
    BY <1>1, HeadOf
  <2>2. SubSeq(SubSeq(text, 1, b), 1, a - 1) = SubSeq(text, 1, a - 1)
    <3>1. a - 1 \in 0 .. b /\ a - 1 \in 0 .. Len(text) /\ b \in 0 .. Len(text)
      BY <1>1
    <3> DEFINE u == SubSeq(text, 1, b)
    <3>2. u \in Seq(Cell) /\ Len(u) = b /\ \A i \in 1 .. b : u[i] = text[i]
      BY <3>1, HeadOf
    <3> HIDE DEF u, b, a
    <3>3. /\ SubSeq(u, 1, a - 1) \in Seq(Cell) /\ Len(SubSeq(u, 1, a - 1)) = a - 1
          /\ \A i \in 1 .. a - 1 : SubSeq(u, 1, a - 1)[i] = u[i]
      BY <3>1, <3>2, HeadOf
    <3>4. /\ SubSeq(text, 1, a - 1) \in Seq(Cell) /\ Len(SubSeq(text, 1, a - 1)) = a - 1
          /\ \A i \in 1 .. a - 1 : SubSeq(text, 1, a - 1)[i] = text[i]
      BY <3>1, HeadOf
    <3>5. \A i \in 1 .. a - 1 : SubSeq(u, 1, a - 1)[i] = SubSeq(text, 1, a - 1)[i]
      BY <3>1, <3>2, <3>3, <3>4
    <3>6. SubSeq(u, 1, a - 1) = SubSeq(text, 1, a - 1)
      BY ONLY <3>3, <3>4, <3>5, SameSeq
    <3> QED BY <3>6 DEF u
  <2>3. SubSeq(SubSeq(text, 1, b), b + 1, b) = <<>>
    BY <2>1, <1>1
  <2>4. L \in Seq(Cell) /\ L \o <<>> = L
    <3>1. SubSeq(text, 1, a - 1) \in Seq(Cell)
      BY <1>1, HeadOf
    <3> QED BY <3>1, <1>1
  <2> HIDE DEF L
  <2>5. Splice(R[b], p, t) = L \o <<>>
    BY <1>6, <2>1, <2>2, <2>3 DEF Splice, L
  <2> QED BY <2>4, <2>5
<1> DEFINE T == {k \in Nat : b + k <= n => b <= Len(R[b + k]) /\ Splice(R[b + k], p, t) = Q[b + k]}
<1>13. 0 \in T
  <2>1. Len(R[b]) = b /\ b + 0 = b
    BY <1>6, <1>1, HeadOf
  <2> HIDE DEF R, Q, L, a, b, t
  <2> QED BY <2>1, <1>11, <1>12, <1>1
<1>14. ASSUME NEW k \in Nat, k \in T PROVE k + 1 \in T
  <2> SUFFICES ASSUME b + (k + 1) <= n
               PROVE  b <= Len(R[b + (k + 1)]) /\ Splice(R[b + (k + 1)], p, t) = Q[b + (k + 1)]
    OBVIOUS
  <2> DEFINE i == b + k
             j == b + (k + 1)
             x == Becomes(text, parts, j)
  <2>1. j \in 1 .. n /\ j - 1 = i /\ i \in 0 .. n /\ b < j /\ i <= n
    BY <1>1
  <2>2. b <= Len(R[i]) /\ Splice(R[i], p, t) = Q[i]
    BY <1>14, <2>1
  <2>3. x \in Seq(Cell) /\ R[i] \in Seq(Cell)
    BY <2>1, <1>4, BecomesText
  <2>4. R[j] = R[i] \o x
    BY <2>1, <1>4
  <2>5. Q[j] = Q[i] \o x
    BY <2>1, <1>5, <1>10
  <2>6. Splice(R[i] \o x, p, t) = Splice(R[i], p, t) \o x
    <3> DEFINE r == R[i]
    <3>1. /\ r \in Seq(Cell) /\ x \in Seq(Cell) /\ t \in Seq(Cell)
          /\ p.start \in Nat /\ p.end \in Nat /\ 1 <= p.start /\ p.start <= p.end /\ p.end <= Len(r)
      BY <2>2, <2>3, <1>1
    <3> HIDE DEF r, x, t
    <3>3. r \in Seq(Cell) /\ x \in Seq(Cell) /\ t \in Seq(Cell)
      BY <3>1
    <3>4. \A m :
        m.start \in Nat /\ m.end \in Nat /\ 1 <= m.start /\ m.start <= m.end /\ m.end <= Len(r)
        => Splice(r \o x, m, t) = Splice(r, m, t) \o x
      BY ONLY <3>3, SpliceBehind
    <3>2. Splice(r \o x, p, t) = Splice(r, p, t) \o x
      BY ONLY <3>1, <3>4
    <3> QED BY <3>2 DEF r
  <2>7. Len(R[i] \o x) = Len(R[i]) + Len(x) /\ Len(R[i]) \in Nat /\ Len(x) \in Nat
    BY <2>3, JoinedOf
  <2> HIDE DEF R, Q, x, i, t, b
  <2>8. b <= Len(R[j])
    BY <2>2, <2>4, <2>7, <1>1
  <2> QED BY <2>2, <2>4, <2>5, <2>6, <2>8
<1>15. n - b \in T
  <2>1. n - b \in Nat
    BY <1>1
  <2> HIDE DEF T
  <2> QED BY <1>13, <1>14, <2>1, SetInduction
<1>16. b + (n - b) = n /\ n <= n
  BY <1>1
<1>17. Splice(R[n], p, t) = Q[n]
  BY <1>15, <1>16
<1> QED BY <1>17, RebuiltIsLast

-----------------------------------------------------------------------------
(* Tokens                                                                  *)

\* Heads, braces, blanks and the characters of a hash are told apart.
LEMMA CellsApart ==
    /\ Blank \notin HashCells /\ Closing \notin HashCells /\ Closing \notin Heads
    /\ \A c \in Heads : c \notin HashCells
    /\ Minted # Unbraced
<1>1. Blank \notin HashCells /\ Closing \notin HashCells /\ Minted # Unbraced
  BY Zenon DEF Blank, Closing, HashCells, Minted, Unbraced
<1>2. Closing \notin Heads
  BY Zenon DEF Closing, Heads, Minted, Unbraced
<1>3. \A c \in Heads : c \notin HashCells
  BY Zenon DEF Heads, HashCells, Minted, Unbraced
<1> QED BY <1>1, <1>2, <1>3

\* A set of numbers has a first one.
LEMMA LeastOf ==
    ASSUME NEW S, S \subseteq Nat, S # {}
    PROVE  \E x \in S : \A y \in S : x <= y
<1>1. PICK x \in S : \A y \in S : ~(<<y, x>> \in OpToRel(<, Nat))
  BY NatLessThanWellFounded, WFMin, Zenon
<1>2. ASSUME NEW y \in S, y < x PROVE FALSE
  <2>1. <<y, x>> \in Nat \X Nat /\ <<y, x>>[1] < <<y, x>>[2]
    BY <1>2
  <2>2. <<y, x>> \in OpToRel(<, Nat)
    BY <2>1, Zenon DEF OpToRel
  <2> QED BY <1>1, <2>2
<1>3. \A y \in S : x <= y
  BY <1>2
<1> QED BY <1>3

\* A run of hash cells ends within the text.
LEMMA RunEnds ==
    ASSUME NEW text \in Seq(Cell), NEW i \in Nat \ {0}
    PROVE  /\ Run(text, i) \in 0 .. Len(text)
           /\ \A j \in i .. i + Run(text, i) - 1 : CellAt(text, j) \in HashCells
           /\ CellAt(text, i + Run(text, i)) \notin HashCells
<1> DEFINE S == {n \in 0 .. Len(text) : CellAt(text, i + n) \notin HashCells}
           P(n) == /\ \A j \in i .. i + n - 1 : CellAt(text, j) \in HashCells
                   /\ CellAt(text, i + n) \notin HashCells
<1>1. Len(text) \in S
  <2>1. i + Len(text) \notin DOMAIN text /\ Len(text) \in 0 .. Len(text)
    OBVIOUS
  <2>2. CellAt(text, i + Len(text)) = Blank
    BY <2>1, Zenon DEF CellAt
  <2> QED BY <2>1, <2>2, CellsApart
<1>2. S \subseteq Nat
  OBVIOUS
<1>3. PICK n \in S : \A k \in S : n <= k
  BY <1>1, <1>2, LeastOf
<1>4. n \in 0 .. Len(text) /\ P(n)
  <2>1. ASSUME NEW j \in i .. i + n - 1 PROVE CellAt(text, j) \in HashCells
    <3>0. n \in 0 .. Len(text) /\ i \in Nat /\ Len(text) \in Nat
      BY <1>3
    <3> HIDE DEF S, P
    <3>1. j - i \in 0 .. Len(text) /\ j - i < n /\ i + (j - i) = j
      BY ONLY <3>0, j \in i .. i + n - 1
    <3>2. ~(j - i \in S)
      BY ONLY <1>3, <3>0, <3>1
    <3> QED BY <3>1, <3>2 DEF S
  <2> QED BY <2>1, <1>3
<1>5. Run(text, i) = CHOOSE k \in 0 .. Len(text) : P(k)
  BY Zenon DEF Run
<1> HIDE DEF P
<1>6. Run(text, i) \in 0 .. Len(text) /\ P(Run(text, i))
  BY <1>4, <1>5, Zenon
<1> QED BY <1>6 DEF P

\* What a token is: a head, the cells of its hash, and the braces; where it starts says which.
IsToken(text, m) ==
    /\ m.start \in 1 .. Len(text) /\ m.end \in m.start .. Len(text)
    /\ text[m.start] \in Heads
    /\ \A j \in m.start + 1 .. m.end : text[j] \in HashCells \cup {Closing}
    /\ m.type # "repair" => Run(text, m.start + 1) = HashLength /\ text[m.start] # Unbraced
    /\ Run(text, m.start + 1) <= HashLength + 1 =>
           m.hash = SubSeq(text, m.start + 1, m.start + Run(text, m.start + 1))

\* What the three patterns have in common: they take n cells of the run behind the head at
\* place i, and the braces behind these.
Takes(text, i, n, end, type) ==
    /\ n \in 0 .. Run(text, i + 1)
    /\ end = i + n \/ (end = i + n + 1 /\ CellAt(text, i + n + 1) = Closing)
    /\ type # "repair" => Run(text, i + 1) = HashLength /\ text[i] # Unbraced
    /\ Run(text, i + 1) <= HashLength + 1 => n = Run(text, i + 1)

\* What is taken so is a token.
LEMMA TokenShape ==
    ASSUME NEW text \in Seq(Cell), NEW i \in 1 .. Len(text), text[i] \in Heads,
           NEW n, NEW end, NEW type, Takes(text, i, n, end, type)
    PROVE  IsToken(text, [start |-> i, end |-> end, type |-> type,
                          hash |-> SubSeq(text, i + 1, IF text[end] = Closing THEN end - 1 ELSE end)])
<1> DEFINE run == Run(text, i + 1)
           m == [start |-> i, end |-> end, type |-> type,
                 hash |-> SubSeq(text, i + 1, IF text[end] = Closing THEN end - 1 ELSE end)]
<1>0. i + 1 \in Nat \ {0} /\ Len(text) \in Nat /\ i \in Nat
  OBVIOUS
<1>1. run \in 0 .. Len(text) /\ \A j \in i + 1 .. i + run : CellAt(text, j) \in HashCells
  <2>2. /\ run \in 0 .. Len(text) /\ \A j \in i + 1 .. (i + 1) + run - 1 : CellAt(text, j) \in HashCells
    BY <1>0, RunEnds
  <2> HIDE DEF run
  <2>3. (i + 1) + run - 1 = i + run
    BY <2>2, <1>0
  <2> QED BY <2>2, <2>3
<1>2. n \in Nat /\ n <= run /\ (end = i + n \/ (end = i + n + 1 /\ CellAt(text, i + n + 1) = Closing))
  <2>1. n \in 0 .. run /\ (end = i + n \/ (end = i + n + 1 /\ CellAt(text, i + n + 1) = Closing))
    BY Zenon DEF Takes
  <2> HIDE DEF run
  <2>2. n \in Nat /\ n <= run
    BY ONLY <2>1, <1>1
  <2> QED BY ONLY <2>1, <2>2
<1>20. /\ type # "repair" => run = HashLength /\ text[i] # Unbraced
       /\ run <= HashLength + 1 => n = run
  BY Zenon DEF Takes
<1> HIDE DEF run, m
<1>3. \A j \in i + 1 .. i + n : j \in 1 .. Len(text) /\ text[j] \in HashCells
  <2> TAKE j \in i + 1 .. i + n
  <2>1. j \in i + 1 .. i + run
    BY ONLY <1>0, <1>1, <1>2, j \in i + 1 .. i + n
  <2>2. CellAt(text, j) \in HashCells
    BY <2>1, <1>1
  <2>3. j \in DOMAIN text
    BY <2>2, CellsApart, Zenon DEF CellAt
  <2> QED BY <2>2, <2>3 DEF CellAt
<1>4. i + n \in 1 .. Len(text)
  <2>1. CASE n = 0
    BY <2>1
  <2>2. CASE n # 0
    <3>1. i + n \in i + 1 .. i + n
      BY ONLY <2>2, <1>2, <1>0
    <3> QED BY <3>1, <1>3
  <2> QED BY <2>1, <2>2
<1>5. text[i + n] # Closing
  <2>1. CASE n = 0
    <3>1. i + n = i
      BY ONLY <2>1, <1>0
    <3> QED BY <3>1, CellsApart
  <2>2. CASE n # 0
    <3>1. i + n \in i + 1 .. i + n
      BY ONLY <2>2, <1>2, <1>0
    <3>2. text[i + n] \in HashCells
      BY ONLY <3>1, <1>3
    <3> QED BY <3>2, CellsApart, Zenon
  <2> QED BY <2>1, <2>2
<1>6. /\ end \in i .. Len(text)
      /\ \A j \in i + 1 .. end : text[j] \in HashCells \cup {Closing}
      /\ m.hash = SubSeq(text, i + 1, i + n)
  <2>1. CASE end = i + n
    <3>1. m.hash = SubSeq(text, i + 1, i + n)
      BY <2>1, <1>5 DEF m
    <3>2. end \in i .. Len(text)
      BY <2>1, <1>4, <1>2
    <3>3. \A j \in i + 1 .. end : text[j] \in HashCells \cup {Closing}
      BY <2>1, <1>3
    <3> QED BY <3>1, <3>2, <3>3
  <2>2. CASE end = i + n + 1 /\ CellAt(text, i + n + 1) = Closing
    <3>1. end \in DOMAIN text /\ text[end] = Closing
      <4>1. CellAt(text, end) = Closing
        BY <2>2
      <4>2. Blank # Closing
        BY Zenon DEF Blank, Closing
      <4> QED BY <4>1, <4>2, Zenon DEF CellAt
    <3>2. end - 1 = i + n /\ end \in i .. Len(text)
      BY <2>2, <3>1, <1>2
    <3>3. m.hash = SubSeq(text, i + 1, i + n)
      BY <3>1, <3>2 DEF m
    <3>4. \A j \in i + 1 .. end : text[j] \in HashCells \cup {Closing}
      <4> TAKE j \in i + 1 .. end
      <4>1. j = end \/ j \in i + 1 .. i + n
        BY ONLY <3>2, <1>2, <1>0, j \in i + 1 .. end
      <4>2. CASE j = end
        BY <4>2, <3>1
      <4>3. CASE j \in i + 1 .. i + n
        BY <4>3, <1>3
      <4> QED BY <4>1, <4>2, <4>3
    <3> QED BY <3>2, <3>3, <3>4
  <2> QED BY <1>2, <2>1, <2>2
<1>7. m.start = i /\ m.end = end /\ m.type = type
  BY DEF m
<1>8. run <= HashLength + 1 => m.hash = SubSeq(text, i + 1, i + run)
  BY <1>6, <1>20
<1>9. IsToken(text, m)
  BY <1>6, <1>7, <1>8, <1>20, Zenon DEF IsToken, run
<1> QED BY <1>9 DEF m

\* The length of a run is a number.
LEMMA RunIsNat ==
    \A text \in Seq(Cell) : \A i \in 1 .. Len(text) : Run(text, i + 1) \in Nat
<1> TAKE text \in Seq(Cell)
<1> TAKE i \in 1 .. Len(text)
<1>1. i + 1 \in Nat \ {0}
  OBVIOUS
<1>2. Run(text, i + 1) \in 0 .. Len(text)
  BY <1>1, RunEnds
<1> QED BY <1>2

\* A hash has a length.
LEMMA HashLengthIsNat == HashLength \in Nat /\ HashLength # 0
BY PassAssumption

\* The strict pattern.
LEMMA StrictTakes ==
    ASSUME NEW text \in Seq(Cell), NEW i \in 1 .. Len(text), StrictEnd(text, i) # 0
    PROVE  Takes(text, i, HashLength, StrictEnd(text, i), "strict")
<1>1. /\ text[i] = Minted /\ Run(text, i + 1) = HashLength
      /\ CellAt(text, i + HashLength + 1) = Closing /\ StrictEnd(text, i) = i + HashLength + 1
  BY Zenon DEF StrictEnd
<1>2. HashLength \in 0 .. Run(text, i + 1)
  BY <1>1, HashLengthIsNat
<1> QED BY <1>1, <1>2, CellsApart, Zenon DEF Takes

\* The lenient pattern.
LEMMA LenientTakes ==
    ASSUME NEW text \in Seq(Cell), NEW i \in 1 .. Len(text), LenientEnd(text, i) # 0
    PROVE  Takes(text, i, HashLength, LenientEnd(text, i), "lenient")
<1>1. /\ text[i] # Unbraced /\ Run(text, i + 1) = HashLength
      /\ \/ LenientEnd(text, i) = i + HashLength
         \/ LenientEnd(text, i) = (i + HashLength) + 1 /\ CellAt(text, (i + HashLength) + 1) = Closing
  BY Zenon DEF LenientEnd
<1>2. HashLength \in 0 .. Run(text, i + 1)
  BY <1>1, HashLengthIsNat
<1> QED BY <1>1, <1>2, Zenon DEF Takes

\* The repair pattern.
LEMMA RepairTakes ==
    ASSUME NEW text \in Seq(Cell), NEW i \in 1 .. Len(text), RepairEnd(text, i) # 0
    PROVE  \E n : Takes(text, i, n, RepairEnd(text, i), "repair")
<1> DEFINE run == Run(text, i + 1)
           n == IF run > HashLength THEN HashLength + 1 ELSE run
<1>1. run \in Nat /\ HashLength \in Nat
  BY RunIsNat, HashLengthIsNat
<1>2. \/ RepairEnd(text, i) = i + n
      \/ RepairEnd(text, i) = i + n + 1 /\ CellAt(text, i + n + 1) = Closing
  BY Zenon DEF RepairEnd
<1> HIDE DEF run
<1>3. n \in 0 .. run /\ (run <= HashLength + 1 => n = run)
  BY ONLY <1>1
<1> HIDE DEF n
<1>4. Takes(text, i, n, RepairEnd(text, i), "repair")
  BY <1>2, <1>3, Zenon DEF Takes, run
<1> QED BY <1>4

\* Every token of a text is one, and no two start in one place.
LEMMA TokensAre ==
    ASSUME NEW text \in Seq(Cell)
    PROVE  /\ \A m \in Tokens(text) : IsToken(text, m)
           /\ \A m, o \in Tokens(text) : m.start = o.start => m = o
<1> DEFINE Found(i, type, end) ==
               [start |-> i, end |-> end, type |-> type,
                hash |-> SubSeq(text, i + 1, IF text[end] = Closing THEN end - 1 ELSE end)]
<1>1. ASSUME NEW i \in DOMAIN text
      PROVE  TokenAt(text, i) =
                 IF StrictEnd(text, i) # 0 THEN {Found(i, "strict", StrictEnd(text, i))}
                 ELSE IF LenientEnd(text, i) # 0 THEN {Found(i, "lenient", LenientEnd(text, i))}
                 ELSE IF repair /\ RepairEnd(text, i) # 0 THEN {Found(i, "repair", RepairEnd(text, i))}
                 ELSE {}
  BY Zenon DEF TokenAt
<1>2. ASSUME NEW i \in DOMAIN text, text[i] \in Heads, NEW m \in TokenAt(text, i)
      PROVE  m.start = i /\ IsToken(text, m)
  <2>0. i \in 1 .. Len(text)
    OBVIOUS
  <2>1. CASE StrictEnd(text, i) # 0
    <3>1. m = Found(i, "strict", StrictEnd(text, i))
      <4> HIDE DEF Found
      <4> QED BY <2>1, <1>1
    <3>2. Takes(text, i, HashLength, StrictEnd(text, i), "strict")
      BY <2>0, <2>1, StrictTakes
    <3>3. IsToken(text, Found(i, "strict", StrictEnd(text, i)))
      BY <2>0, <1>2, <3>2, TokenShape
    <3> QED BY <3>1, <3>3
  <2>2. CASE StrictEnd(text, i) = 0 /\ LenientEnd(text, i) # 0
    <3>1. m = Found(i, "lenient", LenientEnd(text, i))
      <4> HIDE DEF Found
      <4> QED BY <2>2, <1>1
    <3>2. Takes(text, i, HashLength, LenientEnd(text, i), "lenient")
      BY <2>0, <2>2, LenientTakes
    <3>3. IsToken(text, Found(i, "lenient", LenientEnd(text, i)))
      BY <2>0, <1>2, <3>2, TokenShape
    <3> QED BY <3>1, <3>3
  <2>3. CASE StrictEnd(text, i) = 0 /\ LenientEnd(text, i) = 0
    <3>1. RepairEnd(text, i) # 0 /\ m = Found(i, "repair", RepairEnd(text, i))
      <4> HIDE DEF Found
      <4> QED BY <2>3, <1>1
    <3>2. PICK n : Takes(text, i, n, RepairEnd(text, i), "repair")
      BY <2>0, <3>1, RepairTakes
    <3>3. IsToken(text, Found(i, "repair", RepairEnd(text, i)))
      BY <2>0, <1>2, <3>2, TokenShape
    <3> QED BY <3>1, <3>3
  <2> QED BY <2>1, <2>2, <2>3
<1>3. ASSUME NEW i \in DOMAIN text, NEW m \in TokenAt(text, i), NEW o \in TokenAt(text, i)
      PROVE  m = o
  <2> HIDE DEF Found
  <2> QED BY <1>1
<1>4. \A m \in Tokens(text) : \E i \in DOMAIN text : text[i] \in Heads /\ m \in TokenAt(text, i)
  BY Zenon DEF Tokens
<1>5. \A m \in Tokens(text) : IsToken(text, m)
  BY <1>2, <1>4, Zenon
<1>6. ASSUME NEW m \in Tokens(text), NEW o \in Tokens(text), m.start = o.start PROVE m = o
  <2>1. PICK i \in DOMAIN text : text[i] \in Heads /\ m \in TokenAt(text, i)
    BY <1>4
  <2>2. PICK j \in DOMAIN text : text[j] \in Heads /\ o \in TokenAt(text, j)
    BY <1>4
  <2>3. m.start = i /\ o.start = j
    BY <1>2, <2>1, <2>2, Zenon
  <2>4. i = j
    BY <1>6, <2>3
  <2> QED BY <1>3, <2>1, <2>2, <2>4, Zenon
<1> QED BY <1>5, <1>6, Zenon

\* No token reaches into the next.
LEMMA TokensApart ==
    ASSUME NEW text \in Seq(Cell), NEW m \in Tokens(text), NEW o \in Tokens(text), m.start < o.start
    PROVE  m.end < o.start
<1>1. IsToken(text, m) /\ IsToken(text, o)
  BY TokensAre
<1>2. /\ m.start \in Nat /\ m.end \in Nat /\ o.start \in Nat
      /\ \A j \in m.start + 1 .. m.end : text[j] \in HashCells \cup {Closing}
      /\ text[o.start] \in Heads
  <2>1. m.start \in 1 .. Len(text) /\ m.end \in m.start .. Len(text) /\ o.start \in 1 .. Len(text)
    BY <1>1, Zenon DEF IsToken
  <2>2. m.start \in Nat /\ m.end \in Nat /\ o.start \in Nat
    BY <2>1
  <2> QED BY <2>2, <1>1, Zenon DEF IsToken
<1>3. ASSUME ~(m.end < o.start) PROVE FALSE
  <2>1. o.start \in m.start + 1 .. m.end
    BY ONLY <1>2, <1>3, m.start < o.start
  <2>2. text[o.start] \in HashCells \cup {Closing}
    BY <1>2, <2>1
  <2> QED BY <1>2, <2>2, CellsApart
<1> QED BY <1>3

-----------------------------------------------------------------------------
(* Look-alikes                                                             *)

\* The look-alike of every entry is a text of the pool.
LEMMA SyntheticIs ==
    ASSUME NEW h \in DOMAIN OriginalOf
    PROVE  /\ Synthetic[h] \in Seq(Cell) /\ Len(Synthetic[h]) \in Nat \ {0}
           /\ IsHangul(h) => Synthetic[h][Len(Synthetic[h])] \in Hangul
<1>1. Len(Pool) \in Nat \ {0} /\ \A i \in 1 .. Len(Pool) : Pool[i] \in Seq(Cell) /\ i \in DOMAIN Pool
  BY PassAssumption
<1>2. SeedOf[h] \in Nat \ {0}
  BY PassAssumption
<1>3. Slot(SeedOf[h]) \in 1 .. Len(Pool)
  <2>1. SeedOf[h] - 1 \in Nat
    BY <1>2
  <2>2. (SeedOf[h] - 1) % Len(Pool) \in 0 .. Len(Pool) - 1
    BY <2>1, <1>1
  <2> QED BY <2>2, <1>1 DEF Slot
<1> DEFINE i == Slot(SeedOf[h])
<1>4. Synthetic[h] = Pool[i]
  BY DEF Synthetic
<1> HIDE DEF i
<1>5. Pool[i] \in Seq(Cell) /\ i \in DOMAIN Pool
  BY <1>1, <1>3 DEF i
<1>6. Pool[i] # <<>> /\ ((\E j \in DOMAIN Pool[i] : Pool[i][j] \in Hangul) => Pool[i][Len(Pool[i])] \in Hangul)
  BY <1>5, PassAssumption
<1>7. Len(Pool[i]) \in Nat \ {0}
  BY <1>5, <1>6
<1> QED BY <1>4, <1>5, <1>6, <1>7 DEF IsHangul

Length(h) == Len(Synthetic[h])

\* A look-alike has a length.
LEMMA LengthIsNat == \A h \in DOMAIN OriginalOf : Length(h) \in Nat /\ Length(h) # 0
BY SyntheticIs DEF Length

\* A queue in which no look-alike is longer than one before it.
Sorted(q, n) == \A i, j \in 1 .. n : i < j => q[i] # q[j] /\ Length(q[i]) >= Length(q[j])

\* Any entries can be put in that order: the one with the shortest look-alike comes last.
LEMMA SortedExists ==
    \A S \in SUBSET DOMAIN OriginalOf : \E q \in [1 .. Cardinality(S) -> S] : Sorted(q, Cardinality(S))
<1> DEFINE D == DOMAIN OriginalOf
           T == {n \in Nat : \A S \in SUBSET D : Cardinality(S) = n =>
                                 \E q \in [1 .. n -> S] : Sorted(q, n)}
<1>0. IsFiniteSet(D)
  BY PassAssumption
<1> HIDE DEF D
<1>1. 0 \in T
  <2> SUFFICES ASSUME NEW S \in SUBSET D PROVE \E q \in [1 .. 0 -> S] : Sorted(q, 0)
    OBVIOUS
  <2> DEFINE q == [i \in 1 .. 0 |-> i]
  <2>1. q \in [1 .. 0 -> S]
    OBVIOUS
  <2>2. Sorted(q, 0)
    BY DEF Sorted
  <2> QED BY <2>1, <2>2
<1>2. ASSUME NEW n \in Nat, n \in T PROVE n + 1 \in T
  <2> SUFFICES ASSUME NEW S \in SUBSET D, Cardinality(S) = n + 1
               PROVE  \E q \in [1 .. n + 1 -> S] : Sorted(q, n + 1)
    OBVIOUS
  <2>1. IsFiniteSet(S)
    BY <1>0, FS_Subset
  <2>2. S # {}
    <3>1. n + 1 # 0
      OBVIOUS
    <3> QED BY <3>1, FS_EmptySet
  <2>3. PICK x \in S : \A y \in S : Length(x) <= Length(y)
    <3> DEFINE N == {Length(h) : h \in S}
    <3>1. N \subseteq Nat /\ N # {}
      BY <2>2, LengthIsNat DEF D
    <3>2. PICK s \in N : \A t \in N : s <= t
      BY <3>1, LeastOf
    <3> QED BY <3>2
  <2>4. IsFiniteSet(S \ {x}) /\ Cardinality(S \ {x}) = n
    <3>1. IsFiniteSet(S \ {x}) /\ Cardinality(S \ {x}) = Cardinality(S) - 1
      BY <2>1, FS_RemoveElement
    <3> QED BY <3>1
  <2>5. PICK r \in [1 .. n -> S \ {x}] : Sorted(r, n)
    <3>1. S \ {x} \in SUBSET D
      OBVIOUS
    <3> QED BY <1>2, <2>4, <3>1
  <2> DEFINE q == [i \in 1 .. n + 1 |-> IF i <= n THEN r[i] ELSE x]
  <2>6. \A i \in 1 .. n + 1 : q[i] = IF i <= n THEN r[i] ELSE x
    OBVIOUS
  <2>7. q \in [1 .. n + 1 -> S]
    BY <2>5
  <2> HIDE DEF q
  <2>8. ASSUME NEW i \in 1 .. n + 1, NEW j \in 1 .. n + 1, i < j
        PROVE  q[i] # q[j] /\ Length(q[i]) >= Length(q[j])
    <3>1. i \in 1 .. n /\ i <= n /\ q[i] = r[i] /\ r[i] \in S \ {x}
      BY <2>5, <2>6, <2>8
    <3>2. CASE j <= n
      <4>1. j \in 1 .. n /\ q[j] = r[j]
        BY <3>2, <2>6
      <4>2. r[i] # r[j] /\ Length(r[i]) >= Length(r[j])
        BY <2>5, <2>8, <3>1, <4>1 DEF Sorted
      <4> QED BY <3>1, <4>1, <4>2
    <3>3. CASE ~(j <= n)
      <4>1. q[j] = x
        BY <3>3, <2>6
      <4>2. Length(x) <= Length(r[i]) /\ Length(x) \in Nat /\ Length(r[i]) \in Nat
        BY <2>3, <3>1, LengthIsNat DEF D
      <4> QED BY <3>1, <4>1, <4>2
    <3> QED BY <3>2, <3>3
  <2>9. Sorted(q, n + 1)
    BY <2>8 DEF Sorted
  <2> QED BY <2>7, <2>9
<1>3. Nat \subseteq T
  <2> HIDE DEF T
  <2> QED BY <1>1, <1>2, SetInduction
<1>4. ASSUME NEW S \in SUBSET D PROVE \E q \in [1 .. Cardinality(S) -> S] : Sorted(q, Cardinality(S))
  <2>1. Cardinality(S) \in Nat
    BY <1>0, FS_Subset, FS_CardinalityType
  <2>2. Cardinality(S) \in T
    BY <1>3, <2>1
  <2> QED BY <2>2
<1> QED BY <1>4 DEF D

\* BySize: in order, and all of them.
LEMMA BySizeIs ==
    ASSUME NEW S \in SUBSET DOMAIN OriginalOf
    PROVE  /\ BySize(S) \in Seq(S) /\ Len(BySize(S)) = Cardinality(S)
           /\ Sorted(BySize(S), Len(BySize(S)))
           /\ \A h \in S : \E k \in 1 .. Len(BySize(S)) : BySize(S)[k] = h
<1> DEFINE n == Cardinality(S)
           q == BySize(S)
<1>1. IsFiniteSet(S) /\ n \in Nat
  BY PassAssumption, FS_Subset, FS_CardinalityType
<1>2. q \in [1 .. n -> S] /\ Sorted(q, n)
  <2>1. q = CHOOSE r \in [1 .. n -> S] : Sorted(r, n)
    BY Zenon DEF BySize, Sorted, Length
  <2>2. \E r \in [1 .. n -> S] : Sorted(r, n)
    BY SortedExists
  <2> HIDE DEF n, q
  <2> QED BY <2>1, <2>2, Zenon
<1> HIDE DEF n, q
<1>3. q \in Seq(S) /\ Len(q) = n
  BY <1>1, <1>2
<1>4. q \in Injection(1 .. n, S)
  <2>1. ASSUME NEW a \in 1 .. n, NEW b \in 1 .. n, q[a] = q[b] PROVE a = b
    <3>1. a < b \/ b < a \/ a = b
      BY <1>1
    <3> QED BY <3>1, <2>1, <1>2 DEF Sorted
  <2> QED BY <1>2, <2>1 DEF Injection, IsInjective
<1>5. Cardinality(1 .. n) = n
  <2>1. Cardinality(1 .. n) = IF 1 > n THEN 0 ELSE n - 1 + 1
    BY <1>1, FS_Interval
  <2> QED BY <2>1, <1>1
<1>6. q \in Surjection(1 .. n, S)
  BY <1>1, <1>4, <1>5, FS_Injection DEF n
<1>7. \A h \in S : \E k \in 1 .. n : q[k] = h
  BY <1>6 DEF Surjection
<1> QED BY <1>2, <1>3, <1>7 DEF n, q

-----------------------------------------------------------------------------
(* The invariant                                                           *)

\* The last of some places in a text.
LEMMA RightmostIs ==
    ASSUME NEW S, S # {}, NEW n \in Nat, \A m \in S : m.start \in 1 .. n
    PROVE  Rightmost(S) \in S /\ \A o \in S : o.start <= Rightmost(S).start
<1> DEFINE N == {n - m.start : m \in S}
<1>1. N \subseteq Nat /\ N # {}
  OBVIOUS
<1>2. PICK d \in N : \A e \in N : d <= e
  BY <1>1, LeastOf
<1>3. PICK m \in S : d = n - m.start
  BY <1>2
<1>4. \A o \in S : o.start <= m.start
  <2> TAKE o \in S
  <2>1. n - m.start <= n - o.start
    BY <1>2, <1>3
  <2>2. n \in Nat /\ m.start \in Nat /\ o.start \in Nat
    OBVIOUS
  <2> QED BY ONLY <2>1, <2>2
<1>5. Rightmost(S) = CHOOSE x \in S : \A o \in S : o.start <= x.start
  BY Zenon DEF Rightmost
<1> QED BY <1>4, <1>5, Zenon

\* What a look-alike that was found is: it stands alone in the text, with or without a particle.
IsMatch(m) ==
    /\ m.hash \in vault
    /\ m.start \in 1 .. Len(given) /\ m.end \in m.start .. Len(given)
    /\ Occurs(given, m.hash, m.start)
    /\ Alone(given, m.start, m.start + Length(m.hash) - 1, IsHangul(m.hash))
    /\ m.end = m.start + Length(m.hash) - 1 \/ m.end = m.start + Length(m.hash)

\* The look-alikes found, replaced or not yet.
Matches == spans \cup OfSynthetic

\* What stands at place i is the look-alike of h, or was covered by one that is no shorter.
Covered(h, i) ==
    Occurs(given, h, i) /\ Alone(given, i, i + Length(h) - 1, IsHangul(h)) =>
        \E m \in Matches : m.start <= i + Length(h) - 1 /\ i <= m.end /\ Length(m.hash) >= Length(h)

PassTypes ==
    /\ mode \in {"token", "synthetic"} /\ vault \in SUBSET DOMAIN OriginalOf
    /\ given \in Seq(Cell) /\ scanned \in Seq(Cell) /\ out \in Seq(Cell)
    /\ queue \in Seq(vault) /\ from \in Nat \ {0}
    /\ IsFiniteSet(done) /\ \A d \in done : d.text \in Seq(Cell)

\* One thing after the other.
Phases ==
    /\ mode = "token" => queue = <<>> /\ spans = {}
    /\ queue # <<>> => scanned = <<>> /\ done = {}
    /\ scanned # <<>> => spans = {}
    /\ scanned = <<>> => todo = {} /\ OfTokens = {}

\* Look-alikes found are apart, and those replaced are behind those that are not.
MatchesApart ==
    /\ \A m \in Matches : IsMatch(m)
    /\ \A m, n \in spans : m # n => ~Overlaps(m, n)
    /\ \A m, n \in OfSynthetic : m # n => ~Overlaps(m, n)
    /\ \A m \in spans, n \in OfSynthetic : m.end < n.start

\* The longer look-alikes have been sought, that of the head up to where the search goes on.
Searched ==
    /\ Sorted(queue, Len(queue))
    /\ \A m \in spans : \A k \in 1 .. Len(queue) : Length(m.hash) >= Length(queue[k])
    /\ mode = "synthetic" =>
           /\ \A h \in vault : (\A k \in 1 .. Len(queue) : queue[k] # h) =>
                  \A i \in 1 .. Len(given) : Covered(h, i)
           /\ queue # <<>> => \A i \in 1 .. Len(given) : i < from => Covered(queue[1], i)

\* The tokens left are in front of those dealt with.
TokensLeft ==
    /\ todo \subseteq Wanted(scanned)
    /\ \A d \in OfTokens : d.start \in 1 .. Len(scanned)
    /\ \A m \in todo, d \in OfTokens : m.end < d.start

OwnValue == \A m \in OfSynthetic : m.text = OriginalOf[m.hash]

Tallies == {"restored", "repaired", "lenient", "unknown", "missed", "ambiguous", "pathSkip"}

\* Each part replaced is counted once.
Tallied ==
    /\ DOMAIN counts = DOMAIN NoCounts
    /\ \A f \in Tallies : counts[f] \in Nat
    /\ counts.unknown = counts.missed + counts.ambiguous
    /\ counts.repaired + counts.lenient <= counts.restored
    /\ counts.restored + counts.unknown + counts.pathSkip
           = Cardinality(OfTokens) + Cardinality(OfSynthetic)

PassIInv ==
    /\ PassTypes /\ Phases /\ MatchesApart /\ Searched /\ OwnValue
    /\ TokensLeft /\ Tallied /\ InPlace /\ OwnText

\* The invariant says all of PassInv.
LEMMA PassIInvIsEnough == PassIInv => PassInv
<1> SUFFICES ASSUME PassIInv PROVE PassInv
  OBVIOUS
<1>1. PassTypes /\ Phases /\ MatchesApart /\ Searched /\ OwnValue
      /\ TokensLeft /\ Tallied /\ InPlace /\ OwnText
  BY DEF PassIInv
<1>2. ASSUME NEW m \in OfSynthetic
      PROVE  /\ Occurs(given, m.hash, m.start) /\ m.text = OriginalOf[m.hash]
             /\ m.end - m.start + 1 - Len(Synthetic[m.hash]) \in {0, 1}
             /\ \A n \in OfSynthetic : m # n => ~Overlaps(m, n)
  <2>1. IsMatch(m)
    BY <1>1 DEF MatchesApart, Matches
  <2>2. m.hash \in DOMAIN OriginalOf
    BY <1>1, <2>1 DEF IsMatch, PassTypes
  <2>3. m.start \in Nat /\ m.end \in Nat /\ Length(m.hash) \in Nat
    <3>1. Len(given) \in Nat
      BY <1>1 DEF PassTypes
    <3>2. m.start \in 1 .. Len(given) /\ m.end \in m.start .. Len(given)
      BY <2>1 DEF IsMatch
    <3> QED BY <2>2, <3>1, <3>2, LengthIsNat
  <2>4. m.end = m.start + Length(m.hash) - 1 \/ m.end = m.start + Length(m.hash)
    BY <2>1 DEF IsMatch
  <2>5. m.end - m.start + 1 - Length(m.hash) \in {0, 1}
    BY ONLY <2>3, <2>4
  <2>6. \A n \in OfSynthetic : m # n => ~Overlaps(m, n)
    BY <1>1 DEF MatchesApart
  <2>7. Occurs(given, m.hash, m.start)
    BY <2>1 DEF IsMatch
  <2> QED BY <1>1, <2>5, <2>6, <2>7 DEF OwnValue, Length
<1>3. ASSUME queue = <<>>, spans = {}, mode = "synthetic", NEW h \in vault, NEW i \in DOMAIN given,
             Occurs(given, h, i), Alone(given, i, i + Len(Synthetic[h]) - 1, IsHangul(h))
      PROVE  \E m \in OfSynthetic : m.start <= i + Len(Synthetic[h]) - 1 /\ i <= m.end
                                    /\ Len(Synthetic[m.hash]) >= Len(Synthetic[h])
  <2>1. Len(queue) = 0
    BY <1>3
  <2>2. \A k \in 1 .. Len(queue) : queue[k] # h
    BY <2>1
  <2>3. i \in 1 .. Len(given)
    BY <1>1 DEF PassTypes
  <2>4. Covered(h, i)
    BY <1>1, <1>3, <2>2, <2>3 DEF Searched
  <2> QED BY <1>3, <2>4 DEF Covered, Matches, Length
<1>4. LookAlikes
  <2>1. \A m \in OfSynthetic :
           /\ Occurs(given, m.hash, m.start) /\ m.text = OriginalOf[m.hash]
           /\ m.end - m.start + 1 - Len(Synthetic[m.hash]) \in {0, 1}
           /\ \A n \in OfSynthetic : m # n => ~Overlaps(m, n)
    BY <1>2
  <2> QED BY <2>1, <1>3, Zenon DEF LookAlikes
<1>5. CountsAddUp
  <2>1. IsFiniteSet(OfTokens) /\ IsFiniteSet(OfSynthetic)
    BY <1>1, FS_Subset DEF PassTypes, OfTokens, OfSynthetic
  <2>2. Cardinality(OfTokens) \in Nat /\ Cardinality(OfSynthetic) \in Nat
    BY <2>1, FS_CardinalityType
  <2>3. counts.restored \in Nat /\ counts.unknown \in Nat /\ counts.pathSkip \in Nat
    BY <1>1 DEF Tallied, Tallies
  <2>4. counts.restored + counts.unknown + counts.pathSkip
           = Cardinality(OfTokens) + Cardinality(OfSynthetic)
    BY <1>1 DEF Tallied
  <2>5. counts.restored - Cardinality(OfSynthetic) + counts.unknown + counts.pathSkip
           = Cardinality(OfTokens)
    BY ONLY <2>2, <2>3, <2>4
  <2> QED BY <1>1, <2>5 DEF CountsAddUp, Tallied
<1> QED BY <1>1, <1>4, <1>5 DEF PassInv

\* The invariant when restore() begins.
LEMMA PassInitOK == PassInit => PassIInv
<1> SUFFICES ASSUME PassInit PROVE PassIInv
  OBVIOUS
<1>1. /\ mode \in {"token", "synthetic"} /\ vault \in SUBSET DOMAIN OriginalOf /\ given \in Samples[mode]
      /\ queue = (IF mode = "synthetic" THEN BySize(vault) ELSE <<>>)
      /\ from = 1 /\ spans = {} /\ scanned = <<>> /\ todo = {} /\ done = {}
      /\ out = given /\ counts = NoCounts
  BY DEF PassInit
<1>2. given \in Seq(Cell)
  BY <1>1, PassAssumption
<1>3. /\ BySize(vault) \in Seq(vault) /\ Sorted(BySize(vault), Len(BySize(vault)))
      /\ \A h \in vault : \E k \in 1 .. Len(BySize(vault)) : BySize(vault)[k] = h
  BY <1>1, BySizeIs
<1>4. OfTokens = {} /\ OfSynthetic = {} /\ Matches = {}
  BY <1>1 DEF OfTokens, OfSynthetic, Matches
<1>5. PassTypes
  <2>1. queue \in Seq(vault)
    BY <1>1, <1>3
  <2>2. scanned \in Seq(Cell)
    BY <1>1
  <2>3. IsFiniteSet(done)
    BY <1>1, FS_EmptySet
  <2> QED BY <1>1, <1>2, <2>1, <2>2, <2>3 DEF PassTypes
<1>6. Phases
  BY <1>1, <1>4 DEF Phases
<1>7. MatchesApart
  BY <1>1, <1>4 DEF MatchesApart
<1>8. Searched
  <2>1. Sorted(queue, Len(queue))
    <3>1. CASE mode = "synthetic"
      BY <1>1, <1>3, <3>1
    <3>2. CASE mode # "synthetic"
      <4>1. Len(queue) = 0
        BY <1>1, <3>2
      <4> QED BY <4>1 DEF Sorted
    <3> QED BY <3>1, <3>2
  <2>2. mode = "synthetic" => \A h \in vault : \E k \in 1 .. Len(queue) : queue[k] = h
    BY <1>1, <1>3
  <2>3. \A i \in 1 .. Len(given) : ~(i < from)
    BY <1>1
  <2> QED BY <1>1, <2>1, <2>2, <2>3, Zenon DEF Searched
<1>9. OwnValue /\ TokensLeft /\ OwnText
  BY <1>1, <1>4 DEF OwnValue, TokensLeft, OwnText
<1>10. Tallied
  <2>1. Cardinality(OfTokens) = 0 /\ Cardinality(OfSynthetic) = 0
    BY <1>4, FS_EmptySet
  <2> QED BY <1>1, <2>1 DEF Tallied, Tallies, NoCounts
<1>11. InPlace
  <2>1. Rebuilt(given, {}) = given
    BY <1>2, RebuiltOfNone
  <2> QED BY <1>1, <1>4, <2>1 DEF InPlace
<1> QED BY <1>5, <1>6, <1>7, <1>8, <1>9, <1>10, <1>11 DEF PassIInv

\* A particle is one cell of the text.
LEMMA WithParticleIs ==
    ASSUME NEW text \in Seq(Cell), NEW e \in 1 .. Len(text)
    PROVE  \/ WithParticle(text, e) = e
           \/ WithParticle(text, e) = e + 1 /\ e + 1 \in 1 .. Len(text) /\ text[e + 1] \in Hangul
<1>1. "p" \in Hangul
  BY Zenon DEF Hangul
<1>2. Blank # "p"
  BY Zenon DEF Blank
<1>3. CellAt(text, e + 1) = "p" => e + 1 \in DOMAIN text /\ text[e + 1] = "p"
  BY <1>2, Zenon DEF CellAt
<1>4. DOMAIN text = 1 .. Len(text)
  OBVIOUS
<1> QED BY <1>1, <1>3, <1>4, Zenon DEF WithParticle

\* Where a look-alike stands, its cells do.
LEMMA OccursIs ==
    ASSUME NEW h \in DOMAIN OriginalOf, NEW text \in Seq(Cell), NEW i \in 1 .. Len(text),
           Occurs(text, h, i)
    PROVE  /\ i + Length(h) - 1 \in i .. Len(text)
           /\ text[i + Length(h) - 1] = Synthetic[h][Length(h)]
           /\ text[i] = Synthetic[h][1]
<1> DEFINE s == Synthetic[h]
           n == Length(h)
           e == i + n - 1
<1>1. s \in Seq(Cell) /\ n = Len(s) /\ n \in Nat /\ n # 0
  BY SyntheticIs DEF Length
<1>2. e <= Len(text) /\ SubSeq(text, i, e) = s
  BY DEF Occurs, Length
<1> HIDE DEF s, n
<1>3. e \in i .. Len(text) /\ Len(text) \in Nat /\ i \in Nat
  BY <1>1, <1>2
<1>4. e - i + 1 = n /\ n \in 1 .. n /\ 1 \in 1 .. n /\ i + n - 1 = e /\ i + 1 - 1 = i
  BY <1>1, <1>3
<1>5. \A k \in 1 .. n : SubSeq(text, i, e)[k] = text[i + k - 1]
  <2> HIDE DEF e
  <2> QED BY <1>3, <1>4
<1>6. s[n] = text[i + n - 1] /\ s[1] = text[i + 1 - 1]
  BY <1>2, <1>4, <1>5
<1> QED BY <1>3, <1>4, <1>6 DEF s, n

\* What the search leaves alone stays as it is.
LEMMA SeekKeeps ==
    ASSUME PassIInv, Seek
    PROVE  OwnValue' /\ TokensLeft' /\ Tallied' /\ InPlace' /\ OwnText'
           /\ OfSynthetic = {} /\ OfTokens = {} /\ OfSynthetic' = {} /\ OfTokens' = {}
           /\ Matches = spans /\ Matches' = spans'
<1>1. /\ queue # <<>> /\ scanned = <<>>
      /\ UNCHANGED <<mode, lenient, repair, handler, vault, given, scanned, todo, done, out, counts>>
  BY Zenon DEF Seek
<1>2. done = {}
  BY <1>1 DEF PassIInv, Phases
<1>3. OfSynthetic = {} /\ OfTokens = {} /\ OfSynthetic' = {} /\ OfTokens' = {}
  BY <1>1, <1>2 DEF OfSynthetic, OfTokens
<1>4. Matches = spans /\ Matches' = spans'
  BY <1>3 DEF Matches
<1>5. OwnValue' /\ OwnText'
  BY <1>3 DEF OwnValue, OwnText
<1>6. todo' = {}
  BY <1>1 DEF PassIInv, Phases
<1>7. TokensLeft'
  BY <1>3, <1>6 DEF TokensLeft
<1>8. Tallied'
  <2>1. Tallied
    BY DEF PassIInv
  <2> QED BY <1>1, <1>3, <2>1 DEF Tallied
<1>9. InPlace'
  <2>1. InPlace
    BY DEF PassIInv
  <2>2. out = Rebuilt(given, {})
    BY <1>1, <1>3, <2>1 DEF InPlace
  <2>3. out' = Rebuilt(given', {})
    BY <1>1, <2>2
  <2>4. scanned' = <<>>
    BY <1>1
  <2> QED BY <1>3, <2>3, <2>4 DEF InPlace
<1> QED BY <1>3, <1>4, <1>5, <1>7, <1>8, <1>9

\* With more matches, what was covered is.
LEMMA CoveredStays ==
    ASSUME Matches \subseteq Matches', given' = given, NEW h, NEW i, Covered(h, i)
    PROVE  Covered(h, i)'
<1>1. ASSUME Occurs(given, h, i) /\ Alone(given, i, i + Length(h) - 1, IsHangul(h))
      PROVE  \E m \in Matches' : m.start <= i + Length(h) - 1 /\ i <= m.end /\ Length(m.hash) >= Length(h)
  <2>1. PICK m \in Matches : m.start <= i + Length(h) - 1 /\ i <= m.end /\ Length(m.hash) >= Length(h)
    BY <1>1 DEF Covered
  <2> QED BY <2>1
<1> QED BY <1>1 DEF Covered

\* No more of the look-alike at hand: on with the next.
LEMMA SeekNext ==
    ASSUME PassIInv, Seek, queue' = Tail(queue), from' = 1, spans' = spans,
           \A i \in from .. Len(given) : ~Occurs(given, Head(queue), i)
    PROVE  PassIInv'
<1>0. /\ queue # <<>> /\ scanned = <<>>
      /\ UNCHANGED <<mode, lenient, repair, handler, vault, given, scanned, todo, done, out, counts>>
  BY Zenon DEF Seek
<1>1. PassTypes /\ Phases /\ MatchesApart /\ Searched
  BY DEF PassIInv
<1>2. /\ OwnValue' /\ TokensLeft' /\ Tallied' /\ InPlace' /\ OwnText'
      /\ OfSynthetic = {} /\ OfTokens = {} /\ OfSynthetic' = {} /\ OfTokens' = {}
      /\ Matches = spans /\ Matches' = spans'
  BY SeekKeeps
<1>3. queue \in Seq(vault) /\ from \in Nat \ {0} /\ given \in Seq(Cell)
  BY <1>1 DEF PassTypes
<1> DEFINE n == Len(queue)
<1>4. /\ n \in Nat \ {0} /\ queue[1] = Head(queue) /\ Tail(queue) \in Seq(vault)
      /\ Len(Tail(queue)) = n - 1 /\ \A k \in 1 .. n - 1 : Tail(queue)[k] = queue[k + 1]
  BY <1>0, <1>3
<1> HIDE DEF n
<1>5. PassTypes'
  <2>1. queue' \in Seq(vault') /\ from' \in Nat \ {0}
    BY <1>0, <1>4
  <2> QED BY <1>0, <1>1, <2>1 DEF PassTypes
<1>6. Phases'
  <2>1. mode # "token"
    BY <1>0, <1>1 DEF Phases
  <2> QED BY <1>0, <1>1, <1>2, <2>1 DEF Phases
<1>7. MatchesApart'
  <2>1. \A m \in Matches' : IsMatch(m)'
    BY <1>0, <1>1, <1>2 DEF MatchesApart, IsMatch
  <2> QED BY <1>0, <1>1, <1>2, <2>1 DEF MatchesApart
<1>8. Searched'
  <2>1. Sorted(queue', Len(queue'))
    <3>1. \A k \in 1 .. n - 1 : queue'[k] = queue[k + 1] /\ k + 1 \in 1 .. n
      BY <1>4
    <3>2. Sorted(queue, n)
      BY <1>1 DEF Searched, n
    <3>3. ASSUME NEW k \in 1 .. n - 1, NEW l \in 1 .. n - 1, k < l
          PROVE  queue'[k] # queue'[l] /\ Length(queue'[k]) >= Length(queue'[l])
      <4>1. k + 1 \in 1 .. n /\ l + 1 \in 1 .. n /\ k + 1 < l + 1
        BY <3>3, <1>4
      <4> QED BY <3>1, <3>2, <4>1 DEF Sorted
    <3> QED BY <3>3, <1>4 DEF Sorted
  <2>2. \A m \in spans' : \A k \in 1 .. Len(queue') : Length(m.hash) >= Length(queue'[k])
    <3> TAKE m \in spans'
    <3> TAKE k \in 1 .. Len(queue')
    <3>1. queue'[k] = queue[k + 1] /\ k + 1 \in 1 .. n
      BY <1>4
    <3>2. Length(m.hash) >= Length(queue[k + 1])
      BY <1>1, <3>1 DEF Searched, n
    <3> QED BY <3>1, <3>2
  <2>3. ASSUME mode = "synthetic", NEW h \in vault, \A k \in 1 .. Len(queue') : queue'[k] # h,
               NEW i \in 1 .. Len(given)
        PROVE  Covered(h, i)
    <3>1. CASE h = queue[1]
      <4>1. CASE i < from
        BY <1>0, <1>1, <2>3, <3>1, <4>1 DEF Searched
      <4>2. CASE ~(i < from)
        <5>1. i \in from .. Len(given)
          BY <4>2, <1>3
        <5>2. ~Occurs(given, h, i)
          BY <5>1, <3>1, <1>4
        <5> QED BY <5>2 DEF Covered
      <4> QED BY <4>1, <4>2
    <3>2. CASE h # queue[1]
      <4>1. ASSUME NEW k \in 1 .. n PROVE queue[k] # h
        <5>1. CASE k = 1
          BY <5>1, <3>2
        <5>2. CASE k # 1
          <6>1. k - 1 \in 1 .. n - 1 /\ (k - 1) + 1 = k
            BY <5>2, <1>4
          <6>2. queue'[k - 1] = queue[k] /\ k - 1 \in 1 .. Len(queue')
            BY <6>1, <1>4
          <6> QED BY <6>2, <2>3
        <5> QED BY <5>1, <5>2
      <4> QED BY <4>1, <1>1, <2>3 DEF Searched, n
    <3> QED BY <3>1, <3>2
  <2>4. \A h, i : Covered(h, i) => Covered(h, i)'
    BY <1>0, <1>2, CoveredStays
  <2>5. \A i \in 1 .. Len(given) : ~(i < from')
    OBVIOUS
  <2>6. mode' = "synthetic" => \A h \in vault' : (\A k \in 1 .. Len(queue') : queue'[k] # h) =>
                                 \A i \in 1 .. Len(given') : Covered(h, i)'
    BY <1>0, <2>3, <2>4
  <2>7. \A i \in 1 .. Len(given') : ~(i < from')
    BY <1>0, <2>5
  <2> QED BY <2>1, <2>2, <2>6, <2>7, Zenon DEF Searched
<1> QED BY <1>2, <1>5, <1>6, <1>7, <1>8 DEF PassIInv

\* The next occurrence of the look-alike at hand, and what would be the match.
LEMMA Occurrence ==
    ASSUME PassIInv, Seek, NEW i \in from .. Len(given), Occurs(given, Head(queue), i), NEW last, NEW end,
           last = i + Length(Head(queue)) - 1,
           end = IF IsHangul(Head(queue)) THEN WithParticle(given, last) ELSE last
    PROVE  /\ Head(queue) = queue[1] /\ Head(queue) \in vault /\ Head(queue) \in DOMAIN OriginalOf
           /\ i \in 1 .. Len(given) /\ last \in i .. Len(given) /\ end \in last .. Len(given)
           /\ end = last \/ end = last + 1
           /\ end # last => /\ IsHangul(Head(queue)) /\ given[last] \in Hangul
                            /\ given[last + 1] \in Hangul
<1> DEFINE h == Head(queue)
<1>0. queue # <<>>
  BY Zenon DEF Seek
<1>1. queue \in Seq(vault) /\ from \in Nat \ {0} /\ given \in Seq(Cell) /\ vault \in SUBSET DOMAIN OriginalOf
  BY DEF PassIInv, PassTypes
<1>2. h = queue[1] /\ h \in vault /\ h \in DOMAIN OriginalOf
  BY <1>0, <1>1
<1>3. i \in 1 .. Len(given)
  BY <1>1
<1> HIDE DEF h
<1>4. /\ i + Length(h) - 1 \in i .. Len(given)
      /\ given[i + Length(h) - 1] = Synthetic[h][Length(h)]
  BY <1>1, <1>2, <1>3, OccursIs DEF h
<1>5. last \in i .. Len(given) /\ given[last] = Synthetic[h][Length(h)]
  BY <1>4 DEF h
<1>6. last \in 1 .. Len(given)
  BY <1>3, <1>5
<1>7. CASE IsHangul(h) /\ end # last
  <2>1. end = WithParticle(given, last)
    BY <1>7 DEF h
  <2>2. end = last + 1 /\ last + 1 \in 1 .. Len(given) /\ given[last + 1] \in Hangul
    BY <1>1, <1>6, <1>7, <2>1, WithParticleIs
  <2>3. Synthetic[h][Length(h)] \in Hangul
    BY <1>2, <1>7, SyntheticIs DEF Length
  <2>4. end \in last .. Len(given)
    BY <1>6, <2>2
  <2> QED BY <1>2, <1>3, <1>5, <1>7, <2>2, <2>3, <2>4 DEF h
<1>8. CASE end = last
  <2>1. end \in last .. Len(given)
    BY <1>6, <1>8
  <2> QED BY <1>2, <1>3, <1>5, <1>8, <2>1 DEF h
<1>9. ~IsHangul(h) => end = last
  BY DEF h
<1> QED BY <1>7, <1>8, <1>9

\* A look-alike that stands alone where no other was found is one more match.
LEMMA SeekFound ==
    ASSUME PassIInv, Seek, NEW i \in from .. Len(given), Occurs(given, Head(queue), i), NEW last, NEW end,
           last = i + Length(Head(queue)) - 1,
           end = IF IsHangul(Head(queue)) THEN WithParticle(given, last) ELSE last,
           \A j \in from .. Len(given) : Occurs(given, Head(queue), j) => i <= j,
           Alone(given, i, last, IsHangul(Head(queue))),
           NEW m, m = [start |-> i, end |-> end, hash |-> Head(queue)], ~Taken(m),
           spans' = spans \cup {m}, from' = end + 1, queue' = queue
    PROVE  PassIInv'
<1>h. PICK h : h = Head(queue)
  OBVIOUS
<1>0. /\ queue # <<>> /\ scanned = <<>>
      /\ UNCHANGED <<mode, lenient, repair, handler, vault, given, scanned, todo, done, out, counts>>
  BY Zenon DEF Seek
<1>1. PassTypes /\ Phases /\ MatchesApart /\ Searched
  BY DEF PassIInv
<1>2. /\ OwnValue' /\ TokensLeft' /\ Tallied' /\ InPlace' /\ OwnText'
      /\ OfSynthetic = {} /\ OfTokens = {} /\ OfSynthetic' = {} /\ OfTokens' = {}
      /\ Matches = spans /\ Matches' = spans'
  BY SeekKeeps
<1>3. queue \in Seq(vault) /\ from \in Nat \ {0} /\ given \in Seq(Cell)
  BY <1>1 DEF PassTypes
<1>4. /\ h = queue[1] /\ h \in vault /\ h \in DOMAIN OriginalOf
      /\ i \in 1 .. Len(given) /\ last \in i .. Len(given) /\ end \in last .. Len(given)
      /\ end = last \/ end = last + 1
  BY Occurrence, <1>h
<1>5. m.start = i /\ m.end = end /\ m.hash = h
  BY <1>h
<1>6. Length(h) \in Nat /\ Length(h) # 0 /\ Len(given) \in Nat /\ last = i + Length(h) - 1
  BY <1>3, <1>4, <1>h, LengthIsNat
<1>7. Occurs(given, h, i) /\ Alone(given, i, last, IsHangul(h))
  BY <1>h
<1>8. IsMatch(m)
  <2>1. end \in i .. Len(given)
    BY ONLY <1>4, <1>6
  <2>2. end = i + Length(h) - 1 \/ end = i + Length(h)
    BY ONLY <1>4, <1>6
  <2> QED BY <1>4, <1>5, <1>6, <1>7, <2>1, <2>2 DEF IsMatch
<1>9. PassTypes'
  <2>1. end + 1 \in Nat \ {0}
    BY ONLY <1>4, <1>6
  <2> QED BY <1>0, <1>1, <2>1 DEF PassTypes
<1>10. Phases'
  <2>1. mode # "token"
    BY <1>0, <1>1 DEF Phases
  <2> QED BY <1>0, <1>1, <1>2, <2>1 DEF Phases
<1>11. MatchesApart'
  <2>1. \A x \in Matches : IsMatch(x)
    BY <1>1 DEF MatchesApart
  <2>2. \A x \in spans' : IsMatch(x)
    BY <1>2, <1>8, <2>1
  <2>3. \A x \in Matches' : IsMatch(x)'
    BY <1>0, <1>2, <2>2 DEF IsMatch
  <2>4. \A x \in spans : ~Overlaps(m, x)
    BY DEF Taken
  <2>5. \A x \in spans : ~Overlaps(x, m)
    BY <2>4 DEF Overlaps
  <2>6. \A x, y \in spans : x # y => ~Overlaps(x, y)
    BY <1>1 DEF MatchesApart
  <2>7. \A x, y \in spans' : x # y => ~Overlaps(x, y)
    BY <2>4, <2>5, <2>6
  <2> QED BY <1>2, <2>3, <2>7 DEF MatchesApart
<1>12. Searched'
  <2>1. Sorted(queue', Len(queue'))
    BY <1>1 DEF Searched
  <2>2. ASSUME NEW x \in spans', NEW k \in 1 .. Len(queue) PROVE Length(x.hash) >= Length(queue[k])
    <3>1. CASE x \in spans
      BY <1>1, <3>1 DEF Searched
    <3>2. CASE x = m
      <4>1. CASE k = 1
        BY <1>4, <1>5, <1>6, <3>2, <4>1
      <4>2. CASE k # 1
        <5>1. 1 \in 1 .. Len(queue) /\ 1 < k
          BY <1>3, <4>2
        <5>2. Sorted(queue, Len(queue))
          BY <1>1 DEF Searched
        <5> QED BY <1>4, <1>5, <3>2, <5>1, <5>2 DEF Sorted
      <4> QED BY <4>1, <4>2
    <3> QED BY <3>1, <3>2
  <2>3. \A g, j : Covered(g, j) => Covered(g, j)'
    BY <1>0, <1>2, CoveredStays
  <2>4. mode' = "synthetic" => \A g \in vault' : (\A k \in 1 .. Len(queue') : queue'[k] # g) =>
                                 \A j \in 1 .. Len(given') : Covered(g, j)'
    <3>1. mode = "synthetic" => \A g \in vault : (\A k \in 1 .. Len(queue) : queue[k] # g) =>
                                 \A j \in 1 .. Len(given) : Covered(g, j)
      BY <1>1 DEF Searched
    <3> QED BY <1>0, <2>3, <3>1
  <2>5. ASSUME mode = "synthetic", NEW j \in 1 .. Len(given), j < end + 1 PROVE Covered(h, j)'
    <3>1. CASE j < from
      <4>1. Covered(h, j)
        BY <1>0, <1>1, <1>4, <2>5, <3>1 DEF Searched
      <4> QED BY <2>3, <4>1
    <3>2. CASE ~(j < from) /\ j < i
      <4>1. j \in from .. Len(given) /\ ~(i <= j)
        BY <1>3, <1>4, <1>6, <3>2
      <4>2. ~Occurs(given, h, j)
        BY <4>1, <1>h
      <4>3. ~Occurs(given', h, j)
        BY <1>0, <4>2
      <4> QED BY <4>3 DEF Covered
    <3>3. CASE ~(j < i)
      <4>1. i <= j + Length(h) - 1 /\ j <= end /\ Length(h) >= Length(h)
        BY ONLY <1>4, <1>6, <2>5, <3>3
      <4>2. m \in Matches'
        BY <1>2
      <4>3. \E x \in Matches' : x.start <= j + Length(h) - 1 /\ j <= x.end /\ Length(x.hash) >= Length(h)
        BY <1>5, <4>1, <4>2
      <4> QED BY <4>3 DEF Covered
    <3> QED BY <3>1, <3>2, <3>3
  <2>6. mode' = "synthetic" /\ queue' # <<>> =>
            \A j \in 1 .. Len(given') : j < from' => Covered(queue[1], j)'
    BY <1>0, <1>4, <2>5
  <2>7. \A x \in spans' : \A k \in 1 .. Len(queue') : Length(x.hash) >= Length(queue'[k])
    BY <2>2
  <2> QED BY <2>1, <2>4, <2>6, <2>7, Zenon DEF Searched
<1> QED BY <1>2, <1>9, <1>10, <1>11, <1>12 DEF PassIInv

\* A look-alike that is part of a longer word, or that is where another one was found.
LEMMA SeekPast ==
    ASSUME PassIInv, Seek, NEW i \in from .. Len(given), Occurs(given, Head(queue), i), NEW last, NEW end,
           last = i + Length(Head(queue)) - 1,
           end = IF IsHangul(Head(queue)) THEN WithParticle(given, last) ELSE last,
           \A j \in from .. Len(given) : Occurs(given, Head(queue), j) => i <= j,
           NEW m, m = [start |-> i, end |-> end, hash |-> Head(queue)],
           ~Alone(given, i, last, IsHangul(Head(queue))) \/ Taken(m),
           spans' = spans, from' = i + 1, queue' = queue
    PROVE  PassIInv'
<1>h. PICK h : h = Head(queue)
  OBVIOUS
<1>0. /\ queue # <<>> /\ scanned = <<>>
      /\ UNCHANGED <<mode, lenient, repair, handler, vault, given, scanned, todo, done, out, counts>>
  BY Zenon DEF Seek
<1>1. PassTypes /\ Phases /\ MatchesApart /\ Searched
  BY DEF PassIInv
<1>2. /\ OwnValue' /\ TokensLeft' /\ Tallied' /\ InPlace' /\ OwnText'
      /\ OfSynthetic = {} /\ OfTokens = {} /\ OfSynthetic' = {} /\ OfTokens' = {}
      /\ Matches = spans /\ Matches' = spans'
  BY SeekKeeps
<1>3. queue \in Seq(vault) /\ from \in Nat \ {0} /\ given \in Seq(Cell) /\ vault \in SUBSET DOMAIN OriginalOf
  BY <1>1 DEF PassTypes
<1>4. /\ h = queue[1] /\ h \in vault /\ h \in DOMAIN OriginalOf
      /\ i \in 1 .. Len(given) /\ last \in i .. Len(given) /\ end \in last .. Len(given)
      /\ end = last \/ end = last + 1
      /\ end # last => given[last] \in Hangul /\ given[last + 1] \in Hangul
  BY Occurrence, <1>h
<1>5. m.start = i /\ m.end = end /\ m.hash = h
  BY <1>h
<1>6. Length(h) \in Nat /\ Length(h) # 0 /\ Len(given) \in Nat /\ last = i + Length(h) - 1
  BY <1>3, <1>4, <1>h, LengthIsNat
<1>7. PassTypes'
  <2>1. i + 1 \in Nat \ {0}
    BY ONLY <1>4, <1>6
  <2> QED BY <1>0, <1>1, <2>1 DEF PassTypes
<1>8. Phases'
  <2>1. mode # "token"
    BY <1>0, <1>1 DEF Phases
  <2> QED BY <1>0, <1>1, <1>2, <2>1 DEF Phases
<1>9. MatchesApart'
  <2>1. \A x \in Matches' : IsMatch(x)'
    BY <1>0, <1>1, <1>2 DEF MatchesApart, IsMatch
  <2> QED BY <1>0, <1>1, <1>2, <2>1 DEF MatchesApart
<1>10. Covered(h, i)
  <2>1. CASE ~Alone(given, i, last, IsHangul(h))
    BY <1>6, <2>1 DEF Covered
  <2>2. CASE Taken(m)
    <3>1. PICK x \in spans : Overlaps(m, x)
      BY <2>2 DEF Taken
    <3>2. i <= x.end /\ x.start <= end
      BY <1>5, <3>1 DEF Overlaps
    <3>3. IsMatch(x) /\ x \in Matches
      BY <1>1, <1>2 DEF MatchesApart
    <3>4. Length(x.hash) >= Length(h)
      <4>1. 1 \in 1 .. Len(queue)
        BY <1>0, <1>3
      <4> QED BY <1>1, <1>4, <4>1 DEF Searched
    <3>5. x.start \in 1 .. Len(given) /\ x.hash \in DOMAIN OriginalOf /\ Occurs(given, x.hash, x.start)
      BY <1>3, <3>3 DEF IsMatch
    <3>6. x.start <= last
      <4> SUFFICES ASSUME ~(x.start <= last) PROVE FALSE
        OBVIOUS
      <4>1. x.start = last + 1 /\ end # last /\ x.start - 1 = last /\ last \in 1 .. Len(given)
        BY ONLY <1>4, <1>6, <3>2, <3>5, ~(x.start <= last)
      <4>2. given[last] \in Hangul /\ given[x.start] \in Hangul
        BY <1>4, <4>1
      <4>3. given[x.start] = Synthetic[x.hash][1]
        BY <1>3, <3>5, OccursIs
      <4>4. IsHangul(x.hash)
        <5>1. 1 \in DOMAIN Synthetic[x.hash]
          BY <3>5, SyntheticIs
        <5> QED BY <4>2, <4>3, <5>1 DEF IsHangul
      <4>5. CellAt(given, x.start - 1) \notin Hangul
        <5>1. Alone(given, x.start, x.start + Length(x.hash) - 1, IsHangul(x.hash))
          BY <3>3 DEF IsMatch
        <5> QED BY <4>4, <5>1, Zenon DEF Alone
      <4>6. CellAt(given, last) = given[last]
        <5>1. last \in DOMAIN given
          BY <1>3, <4>1
        <5> QED BY <5>1 DEF CellAt
      <4> QED BY <4>1, <4>2, <4>5, <4>6
    <3> QED BY <1>6, <3>2, <3>3, <3>4, <3>6 DEF Covered
  <2> QED BY <2>1, <2>2, <1>h
<1>11. Searched'
  <2>1. Sorted(queue', Len(queue')) /\ \A x \in spans' : \A k \in 1 .. Len(queue') : Length(x.hash) >= Length(queue'[k])
    BY <1>1 DEF Searched
  <2>3. \A g, j : Covered(g, j) => Covered(g, j)'
    BY <1>0, <1>2, CoveredStays
  <2>4. mode' = "synthetic" => \A g \in vault' : (\A k \in 1 .. Len(queue') : queue'[k] # g) =>
                                 \A j \in 1 .. Len(given') : Covered(g, j)'
    <3>1. mode = "synthetic" => \A g \in vault : (\A k \in 1 .. Len(queue) : queue[k] # g) =>
                                 \A j \in 1 .. Len(given) : Covered(g, j)
      BY <1>1 DEF Searched
    <3> QED BY <1>0, <2>3, <3>1
  <2>5. ASSUME mode = "synthetic", NEW j \in 1 .. Len(given), j < i + 1 PROVE Covered(h, j)
    <3>1. CASE j < from
      BY <1>0, <1>1, <1>4, <2>5, <3>1 DEF Searched
    <3>2. CASE ~(j < from) /\ j < i
      <4>1. j \in from .. Len(given) /\ ~(i <= j)
        BY <1>3, <1>4, <1>6, <3>2
      <4>2. ~Occurs(given, h, j)
        BY <4>1, <1>h
      <4> QED BY <4>2 DEF Covered
    <3>3. CASE j = i
      BY <1>10, <3>3
    <3> QED
      <4>1. j < i \/ j = i
        BY ONLY <1>4, <1>6, <2>5
      <4> QED BY <3>1, <3>2, <3>3, <4>1
  <2>6. mode' = "synthetic" /\ queue' # <<>> =>
            \A j \in 1 .. Len(given') : j < from' => Covered(queue[1], j)'
    BY <1>0, <1>4, <2>3, <2>5
  <2> QED BY <2>1, <2>4, <2>6, Zenon DEF Searched
<1> QED BY <1>2, <1>7, <1>8, <1>9, <1>11 DEF PassIInv

\* A step of the search for look-alikes.
LEMMA SeekOK == ASSUME PassIInv, Seek PROVE PassIInv'
<1> DEFINE h == Head(queue)
           places == {i \in from .. Len(given) : Occurs(given, h, i)}
           last(i) == i + Length(h) - 1
           end(i) == IF IsHangul(h) THEN WithParticle(given, last(i)) ELSE last(i)
           m(i) == [start |-> i, end |-> end(i), hash |-> h]
<1>1. \/ places = {} /\ queue' = Tail(queue) /\ from' = 1 /\ spans' = spans
      \/ \E i \in places :
             /\ \A j \in places : i <= j
             /\ IF Alone(given, i, last(i), IsHangul(h)) /\ ~Taken(m(i))
                THEN spans' = spans \cup {m(i)} /\ from' = end(i) + 1
                ELSE spans' = spans /\ from' = i + 1
             /\ queue' = queue
  BY Zenon DEF Seek, Length
<1>2. CASE places = {} /\ queue' = Tail(queue) /\ from' = 1 /\ spans' = spans
  BY <1>2, SeekNext
<1>3. ASSUME NEW i \in places, \A j \in places : i <= j,
             IF Alone(given, i, last(i), IsHangul(h)) /\ ~Taken(m(i))
             THEN spans' = spans \cup {m(i)} /\ from' = end(i) + 1
             ELSE spans' = spans /\ from' = i + 1,
             queue' = queue
      PROVE  PassIInv'
  <2>1. i \in from .. Len(given) /\ Occurs(given, h, i)
    OBVIOUS
  <2>2. \A j \in from .. Len(given) : Occurs(given, h, j) => i <= j
    BY <1>3
  <2>3. CASE Alone(given, i, last(i), IsHangul(h)) /\ ~Taken(m(i))
    <3>1. spans' = spans \cup {m(i)} /\ from' = end(i) + 1
      BY <1>3, <2>3
    <3> QED BY <1>3, <2>1, <2>2, <2>3, <3>1, SeekFound
  <2>4. CASE ~(Alone(given, i, last(i), IsHangul(h)) /\ ~Taken(m(i)))
    <3>1. spans' = spans /\ from' = i + 1
      BY <1>3, <2>4
    <3> QED BY <1>3, <2>1, <2>2, <2>4, <3>1, SeekPast
  <2> QED BY <2>3, <2>4
<1> QED BY <1>1, <1>2, <1>3

\* The last look-alike that is left is replaced.
LEMMA ReplaceSyntheticOK == ASSUME PassIInv, ReplaceSynthetic PROVE PassIInv'
<1> PICK m : m = Rightmost(spans)
  OBVIOUS
<1> PICK d : d = [start |-> m.start, end |-> m.end, text |-> OriginalOf[m.hash],
                  how |-> "synthetic", hash |-> m.hash]
  OBVIOUS
<1>1. /\ queue = <<>> /\ scanned = <<>> /\ spans # {}
      /\ out' = Splice(out, m, OriginalOf[m.hash]) /\ spans' = spans \ {m} /\ done' = done \cup {d}
      /\ counts' = [counts EXCEPT !.restored = @ + 1]
      /\ UNCHANGED <<mode, lenient, repair, handler, vault, given, queue, from, scanned, todo>>
  BY Zenon DEF ReplaceSynthetic
<1>2. PassTypes /\ Phases /\ MatchesApart /\ Searched /\ OwnValue /\ Tallied /\ InPlace
  BY DEF PassIInv
<1>3. given \in Seq(Cell) /\ Len(given) \in Nat /\ out \in Seq(Cell) /\ vault \in SUBSET DOMAIN OriginalOf
  BY <1>2 DEF PassTypes
<1>4. \A x \in Matches : IsMatch(x) /\ x.start \in 1 .. Len(given) /\ x.end \in x.start .. Len(given)
  BY <1>2 DEF MatchesApart, IsMatch
<1>5. m \in spans /\ \A x \in spans : x.start <= m.start
  BY <1>1, <1>3, <1>4, RightmostIs DEF Matches
<1>6. IsMatch(m) /\ m.start \in 1 .. Len(given) /\ m.end \in m.start .. Len(given)
  BY <1>4, <1>5 DEF Matches
<1>7. /\ d.start = m.start /\ d.end = m.end /\ d.hash = m.hash /\ d.text = OriginalOf[m.hash]
      /\ d.how = "synthetic"
  OBVIOUS
<1>8. m.hash \in DOMAIN OriginalOf /\ d.text \in Seq(Cell)
  BY <1>3, <1>6, <1>7, PassAssumption DEF IsMatch
<1>9. OfTokens = {} /\ OfTokens' = {} /\ OfSynthetic' = OfSynthetic \cup {d}
  <2>1. OfTokens = {}
    BY <1>1, <1>2 DEF Phases
  <2>2. OfTokens' = {}
    BY <1>1, <1>7, <2>1 DEF OfTokens
  <2> QED BY <1>1, <2>1, <2>2 DEF OfSynthetic
<1>10. \A x \in OfSynthetic : d.end < x.start
  BY <1>2, <1>5, <1>7 DEF MatchesApart
<1>11. \A x \in spans' : x \in spans /\ x.end < d.start
  <2> TAKE x \in spans'
  <2>1. x \in spans /\ x # m
    BY <1>1
  <2>2. ~Overlaps(x, m)
    BY <1>2, <1>5, <2>1 DEF MatchesApart
  <2>3. x.start \in 1 .. Len(given) /\ x.end \in x.start .. Len(given)
    BY <1>4, <2>1 DEF Matches
  <2>4. ~(x.start <= m.end /\ m.start <= x.end)
    BY <2>2 DEF Overlaps
  <2>5. x.end < m.start
    BY ONLY <1>3, <1>5, <1>6, <2>1, <2>3, <2>4
  <2> QED BY <1>7, <2>1, <2>5
<1>12. IsMatch(d)
  BY <1>6, <1>7 DEF IsMatch
<1>13. OfSynthetic \subseteq Matches /\ spans \subseteq Matches
       /\ Matches' = (spans \ {m}) \cup OfSynthetic \cup {d}
  BY <1>1, <1>9 DEF Matches
<1>14. d \notin OfSynthetic
  <2> SUFFICES ASSUME d \in OfSynthetic PROVE FALSE
    OBVIOUS
  <2>1. d.end < d.start
    BY <1>10
  <2> QED BY ONLY <2>1, <1>3, <1>6, <1>7
<1>15. PassTypes'
  <2>1. out' \in Seq(Cell)
    <3>1. m.start - 1 \in Nat /\ Len(out) \in Nat
      BY <1>3, <1>6
    <3>2. SubSeq(out, 1, m.start - 1) \in Seq(Cell) /\ SubSeq(out, m.end + 1, Len(out)) \in Seq(Cell)
      <4>1. m.start - 1 <= Len(out) /\ m.end <= Len(out)
        <5>1. out = Rebuilt(given, OfSynthetic)
          BY <1>1, <1>2 DEF InPlace
        <5>2. Parts(OfSynthetic)
          BY <1>2 DEF Parts, PassTypes, OfSynthetic
        <5>3. \A x \in OfSynthetic : x.start \in Nat /\ m.end < x.start
          BY <1>4, <1>7, <1>10, <1>13
        <5>4. m.end \in 0 .. Len(given)
          BY ONLY <1>3, <1>6
        <5>5. m.end <= Len(out)
          BY <1>3, <5>1, <5>2, <5>3, <5>4, RebuiltReaches
        <5> QED BY ONLY <1>3, <1>6, <3>1, <5>5
      <4>2. m.start - 1 \in 0 .. Len(out) /\ m.end \in 0 .. Len(out)
        BY ONLY <1>3, <1>6, <3>1, <4>1
      <4> QED BY <1>3, <4>2, HeadOf, TailOf
    <3> QED BY <1>1, <1>7, <1>8, <3>2 DEF Splice
  <2>2. IsFiniteSet(done')
    BY <1>1, <1>2, FS_AddElement DEF PassTypes
  <2>3. \A x \in done' : x.text \in Seq(Cell)
    BY <1>1, <1>2, <1>8 DEF PassTypes
  <2> QED BY <1>1, <1>2, <2>1, <2>2, <2>3 DEF PassTypes
<1>16. Phases'
  <2>1. mode # "token"
    BY <1>1, <1>2 DEF Phases
  <2> QED BY <1>1, <1>2, <1>9, <2>1 DEF Phases
<1>17. MatchesApart'
  <2>1. \A x \in Matches' : IsMatch(x)
    BY <1>4, <1>12, <1>13
  <2>2. \A x \in Matches' : IsMatch(x)'
    BY <1>1, <2>1 DEF IsMatch
  <2>3. \A x, y \in spans' : x # y => ~Overlaps(x, y)
    BY <1>1, <1>2 DEF MatchesApart
  <2>4. \A x \in OfSynthetic : ~Overlaps(d, x) /\ ~Overlaps(x, d)
    <3> TAKE x \in OfSynthetic
    <3>1. d.end < x.start
      BY <1>10
    <3>2. x.start \in 1 .. Len(given)
      BY <1>4, <1>13
    <3>3. ~(x.start <= d.end)
      BY ONLY <1>3, <1>6, <1>7, <3>1, <3>2
    <3> QED BY <3>3 DEF Overlaps
  <2>5. \A x, y \in OfSynthetic : x # y => ~Overlaps(x, y)
    BY <1>2 DEF MatchesApart
  <2>6. \A x, y \in OfSynthetic' : x # y => ~Overlaps(x, y)
    BY <1>9, <2>4, <2>5
  <2>7. \A x \in spans', y \in OfSynthetic' : x.end < y.start
    <3>1. \A x \in spans, y \in OfSynthetic : x.end < y.start
      BY <1>2 DEF MatchesApart
    <3> QED BY <1>9, <1>11, <3>1
  <2> QED BY <2>2, <2>3, <2>6, <2>7 DEF MatchesApart
<1>18. Searched'
  <2>1. Len(queue') = 0 /\ Sorted(queue', Len(queue')) /\ queue' = <<>>
    BY <1>1, <1>2 DEF Searched
  <2>2. ASSUME NEW h \in vault, NEW i \in 1 .. Len(given), Covered(h, i) PROVE Covered(h, i)'
    <3>1. ASSUME Occurs(given, h, i), Alone(given, i, i + Length(h) - 1, IsHangul(h))
          PROVE  \E x \in Matches' : x.start <= i + Length(h) - 1 /\ i <= x.end /\ Length(x.hash) >= Length(h)
      <4>1. PICK x \in Matches : x.start <= i + Length(h) - 1 /\ i <= x.end /\ Length(x.hash) >= Length(h)
        BY <2>2, <3>1 DEF Covered
      <4>2. CASE x = m
        BY <1>7, <1>13, <4>1, <4>2
      <4>3. CASE x # m
        <5>1. x \in Matches'
          BY <1>13, <4>3 DEF Matches
        <5> QED BY <4>1, <5>1
      <4> QED BY <4>2, <4>3
    <3> QED BY <1>1, <3>1 DEF Covered
  <2>3. mode' = "synthetic" => \A h \in vault' : (\A k \in 1 .. Len(queue') : queue'[k] # h) =>
                                 \A i \in 1 .. Len(given') : Covered(h, i)'
    <3>1. mode = "synthetic" => \A h \in vault : (\A k \in 1 .. Len(queue) : queue[k] # h) =>
                                 \A i \in 1 .. Len(given) : Covered(h, i)
      BY <1>2 DEF Searched
    <3> QED BY <1>1, <2>2, <3>1
  <2>4. \A x \in spans' : \A k \in 1 .. Len(queue') : Length(x.hash) >= Length(queue'[k])
    BY <2>1
  <2> QED BY <2>1, <2>3, <2>4, Zenon DEF Searched
<1>19. OwnValue'
  BY <1>2, <1>7, <1>9 DEF OwnValue
<1>20. TokensLeft' /\ OwnText'
  <2>1. todo' = {}
    BY <1>1, <1>2 DEF Phases
  <2> QED BY <1>9, <2>1 DEF TokensLeft, OwnText
<1>21. Tallied'
  <2>1. IsFiniteSet(OfSynthetic)
    BY <1>2, FS_Subset DEF PassTypes, OfSynthetic
  <2>2. Cardinality(OfSynthetic') = Cardinality(OfSynthetic) + 1 /\ Cardinality(OfSynthetic) \in Nat
    BY <1>9, <1>14, <2>1, FS_AddElement, FS_CardinalityType
  <2>3. Cardinality(OfTokens') = 0 /\ Cardinality(OfTokens) = 0
    BY <1>9, FS_EmptySet
  <2>4. /\ "restored" \in DOMAIN counts /\ \A f \in Tallies : counts[f] \in Nat
    BY <1>2 DEF Tallied, NoCounts
  <2>5. /\ counts'.restored = counts.restored + 1 /\ DOMAIN counts' = DOMAIN counts
        /\ \A f \in DOMAIN counts : f # "restored" => counts'[f] = counts[f]
    BY <1>1, <2>4
  <2>6. Tallies \subseteq DOMAIN counts
    BY <1>2 DEF Tallied, NoCounts, Tallies
  <2>7. \A f \in Tallies : counts'[f] \in Nat
    BY <2>4, <2>5, <2>6 DEF Tallies
  <2> QED BY <1>2, <2>2, <2>3, <2>4, <2>5, <2>6, <2>7 DEF Tallied, Tallies
<1>22. InPlace'
  <2>1. out = Rebuilt(given, OfSynthetic)
    BY <1>1, <1>2 DEF InPlace
  <2>2. Splice(out, d, d.text) = Rebuilt(given, OfSynthetic \cup {d})
    <3>1. Parts(OfSynthetic)
      BY <1>2 DEF Parts, PassTypes, OfSynthetic
    <3>2. /\ d.start \in Nat /\ d.end \in Nat /\ 1 <= d.start /\ d.start <= d.end /\ d.end <= Len(given)
      BY ONLY <1>3, <1>6, <1>7
    <3>3. \A x \in OfSynthetic : x.start \in Nat /\ d.end < x.start
      BY <1>4, <1>10, <1>13
    <3> QED BY <1>3, <1>8, <2>1, <3>1, <3>2, <3>3, RebuiltSplice
  <2>3. out' = Splice(out, d, d.text)
    BY <1>1, <1>7, Zenon DEF Splice
  <2> QED BY <1>1, <1>9, <2>2, <2>3 DEF InPlace
<1> QED BY <1>15, <1>16, <1>17, <1>18, <1>19, <1>20, <1>21, <1>22 DEF PassIInv

\* The text in which tokens are sought is the one the look-alikes left.
LEMMA ScanTokensOK == ASSUME PassIInv, ScanTokens PROVE PassIInv'
<1>1. /\ queue = <<>> /\ scanned = <<>> /\ spans = {} /\ out # <<>>
      /\ scanned' = out /\ todo' = Wanted(out)
      /\ UNCHANGED <<mode, lenient, repair, handler, vault, given, queue, from, spans, done, out>>
  BY Zenon DEF ScanTokens
<1>2. \E x : counts' = [counts EXCEPT !.partial = x]
  BY Zenon DEF ScanTokens
<1>3. PassTypes /\ Phases /\ MatchesApart /\ Searched /\ OwnValue /\ Tallied /\ InPlace
  BY DEF PassIInv
<1>4. OfTokens = {} /\ OfTokens' = {} /\ OfSynthetic' = OfSynthetic /\ Matches' = Matches
  BY <1>1, <1>3 DEF Phases, OfTokens, OfSynthetic, Matches
<1>5. PassTypes'
  BY <1>1, <1>3 DEF PassTypes
<1>6. Phases'
  BY <1>1, <1>3, <1>4 DEF Phases
<1>7. MatchesApart'
  BY <1>1, <1>3, <1>4 DEF MatchesApart, IsMatch
<1>8. Searched'
  BY <1>1, <1>3, <1>4 DEF Searched, Covered
<1>9. OwnValue'
  BY <1>3, <1>4 DEF OwnValue
<1>10. TokensLeft' /\ OwnText'
  <2>1. Wanted(scanned)' = Wanted(out)
    BY <1>1 DEF Wanted, Tokens, TokenAt
  <2> QED BY <1>1, <1>4, <2>1 DEF TokensLeft, OwnText
<1>11. Tallied'
  <2>1. PICK x : counts' = [counts EXCEPT !.partial = x]
    BY <1>2
  <2>2. DOMAIN counts' = DOMAIN counts /\ \A f \in DOMAIN counts : f # "partial" => counts'[f] = counts[f]
    BY <2>1
  <2>3. Tallies \subseteq DOMAIN counts /\ "partial" \notin Tallies
    BY <1>3 DEF Tallied, NoCounts, Tallies
  <2>4. \A f \in Tallies : counts'[f] = counts[f]
    BY <2>2, <2>3
  <2> QED BY <1>3, <1>4, <2>2, <2>4 DEF Tallied, Tallies
<1>12. InPlace'
  <2>1. out = Rebuilt(given, OfSynthetic)
    BY <1>1, <1>3 DEF InPlace
  <2>2. Rebuilt(out, {}) = out
    BY <1>3, RebuiltOfNone DEF PassTypes
  <2> QED BY <1>1, <1>4, <2>1, <2>2 DEF InPlace
<1> QED BY <1>5, <1>6, <1>7, <1>8, <1>9, <1>10, <1>11, <1>12 DEF PassIInv

\* A step that changes none of the tallies, and nothing else.
LEMMA PassStutter ==
    ASSUME PassIInv, DOMAIN counts' = DOMAIN counts, \A f \in Tallies : counts'[f] = counts[f],
           UNCHANGED <<mode, lenient, repair, handler, vault, given, queue, from, spans, scanned, todo,
                       done, out>>
    PROVE  PassIInv'
<1>3. /\ PassTypes /\ Phases /\ MatchesApart /\ Searched /\ OwnValue /\ Tallied /\ InPlace
      /\ TokensLeft /\ OwnText
  BY DEF PassIInv
<1>4. OfTokens' = OfTokens /\ OfSynthetic' = OfSynthetic /\ Matches' = Matches
  BY DEF OfTokens, OfSynthetic, Matches
<1>5. PassTypes' /\ Phases' /\ OwnValue' /\ InPlace'
  BY <1>3, <1>4 DEF PassTypes, Phases, OwnValue, InPlace
<1>7. MatchesApart'
  BY <1>3, <1>4 DEF MatchesApart, IsMatch
<1>8. Searched'
  BY <1>3, <1>4 DEF Searched, Covered
<1>10. TokensLeft'
  BY <1>3, <1>4 DEF TokensLeft, Wanted, Tokens, TokenAt
<1>11. OwnText'
  BY <1>3, <1>4 DEF OwnText, NearBy
<1>12. Tallied'
  BY <1>3, <1>4 DEF Tallied, Tallies
<1> QED BY <1>5, <1>7, <1>8, <1>10, <1>11, <1>12 DEF PassIInv

\* What was put in the place of a token was its own.
Own(m) ==
    LET n == Run(scanned, m.start + 1)
        hash == SubSeq(scanned, m.start + 1, m.start + n)
    IN /\ m.how \in {"hit", "repaired"} => m.text = OriginalOf[m.hash]
       /\ m.how \in {"hit", "repaired"} /\ n <= HashLength + 1 =>
              NearBy(hash) = {m.hash} \/ hash = m.hash
       /\ m.how = "unresolved" /\ m.text # SubSeq(scanned, m.start, m.end) =>
              n = HashLength /\ scanned[m.start] # Unbraced

\* OwnText, said of one token.
LEMMA OwnTextIsOwn == OwnText <=> \A m \in OfTokens : Own(m)
BY Zenon DEF OwnText, Own

\* The token at hand is the last one left.
LEMMA TokenAtHand ==
    ASSUME PassIInv, todo # {}, NEW m, m = Rightmost(todo)
    PROVE  /\ m \in todo /\ IsToken(scanned, m) /\ m.start \in 1 .. Len(scanned)
           /\ m.end \in m.start .. Len(scanned) /\ Len(scanned) \in Nat
           /\ \A x \in todo \ {m} : x.end < m.start
<1>1. PassTypes /\ TokensLeft
  BY DEF PassIInv
<1>2. scanned \in Seq(Cell) /\ Len(scanned) \in Nat
  BY <1>1 DEF PassTypes
<1>3. \A x \in todo : x \in Tokens(scanned)
  BY <1>1 DEF TokensLeft, Wanted
<1>4. \A x \in todo : IsToken(scanned, x)
  BY <1>2, <1>3, TokensAre
<1>5. \A x \in todo : x.start \in 1 .. Len(scanned)
  BY <1>4 DEF IsToken
<1>6. m \in todo /\ \A x \in todo : x.start <= m.start
  BY <1>2, <1>5, RightmostIs
<1>7. ASSUME NEW x \in todo \ {m} PROVE x.end < m.start
  <2>1. x.start # m.start
    BY <1>2, <1>3, <1>6, TokensAre
  <2>2. x.start \in Nat /\ m.start \in Nat /\ x.start <= m.start
    BY <1>5, <1>6
  <2>3. x.start < m.start
    BY ONLY <2>1, <2>2
  <2> QED BY <1>2, <1>3, <1>6, <2>3, TokensApart
<1> QED BY <1>2, <1>4, <1>6, <1>7 DEF IsToken

\* What one token adds to the tallies keeps them adding up.
LEMMA TallyStep ==
    \A u, n, a, p, l, r, s \in Nat : \A u1, n1, a1, p1, l1, r1, s1 \in {0, 1} : \A t, y \in Nat :
        /\ u = n + a /\ p + l <= r /\ r + u + s = t + y
        /\ u1 = n1 + a1 /\ p1 + l1 <= r1 /\ r1 + u1 + s1 = 1
        => /\ u + u1 = (n + n1) + (a + a1) /\ (p + p1) + (l + l1) <= r + r1
           /\ (r + r1) + (u + u1) + (s + s1) = (t + 1) + y
OBVIOUS

\* A token dealt with leaves all the others as they were.
LEMMA DealOK ==
    ASSUME PassIInv, todo # {}, NEW m, m = Rightmost(todo), NEW fields, NEW t, t \in Seq(Cell),
           NEW how, how # "synthetic", NEW hash, Deal(m, fields, t, how, hash),
           NEW d, d = [start |-> m.start, end |-> m.end, text |-> t, how |-> how, hash |-> hash],
           Own(d),
           /\ (IF "unknown" \in fields THEN 1 ELSE 0)
                  = (IF "missed" \in fields THEN 1 ELSE 0) + (IF "ambiguous" \in fields THEN 1 ELSE 0)
           /\ (IF "repaired" \in fields THEN 1 ELSE 0) + (IF "lenient" \in fields THEN 1 ELSE 0)
                  <= (IF "restored" \in fields THEN 1 ELSE 0)
           /\ (IF "restored" \in fields THEN 1 ELSE 0) + (IF "unknown" \in fields THEN 1 ELSE 0)
                  + (IF "pathSkip" \in fields THEN 1 ELSE 0) = 1
    PROVE  PassIInv'
<1>1. /\ out' = Splice(out, m, t) /\ todo' = todo \ {m} /\ done' = done \cup {d}
      /\ counts' = [f \in DOMAIN counts |-> IF f \in fields THEN counts[f] + 1 ELSE counts[f]]
      /\ UNCHANGED <<mode, lenient, repair, handler, vault, given, queue, from, spans, scanned>>
  BY Zenon DEF Deal
<1>2. /\ PassTypes /\ Phases /\ MatchesApart /\ Searched /\ OwnValue /\ Tallied /\ InPlace
      /\ TokensLeft /\ OwnText
  BY DEF PassIInv
<1>3. /\ m \in todo /\ IsToken(scanned, m) /\ m.start \in 1 .. Len(scanned)
      /\ m.end \in m.start .. Len(scanned) /\ Len(scanned) \in Nat
      /\ \A x \in todo \ {m} : x.end < m.start
  BY TokenAtHand
<1>4. d.start = m.start /\ d.end = m.end /\ d.text = t /\ d.how = how /\ d.hash = hash
  OBVIOUS
<1>5. scanned # <<>> /\ queue = <<>> /\ spans = {}
  BY <1>2 DEF Phases
<1>6. OfTokens' = OfTokens \cup {d} /\ OfSynthetic' = OfSynthetic /\ Matches' = Matches
  <2>1. OfTokens' = OfTokens \cup {d}
    BY <1>1, <1>4 DEF OfTokens
  <2>2. d \notin OfSynthetic /\ (d \in done => d \in OfTokens)
    BY <1>4 DEF OfSynthetic, OfTokens
  <2>3. OfSynthetic' = OfSynthetic
    BY <1>1, <2>1, <2>2 DEF OfSynthetic
  <2> QED BY <1>1, <2>1, <2>3 DEF Matches
<1>7. \A x \in OfTokens : d.end < x.start /\ x.start \in 1 .. Len(scanned)
  BY <1>2, <1>3, <1>4 DEF TokensLeft
<1>8. d \notin OfTokens
  <2> SUFFICES ASSUME d \in OfTokens PROVE FALSE
    OBVIOUS
  <2>1. d.end < d.start
    BY <1>7
  <2> QED BY ONLY <2>1, <1>3, <1>4
<1>9. out = Rebuilt(scanned, OfTokens)
  BY <1>2, <1>5 DEF InPlace
<1>10. Parts(OfTokens) /\ out \in Seq(Cell) /\ scanned \in Seq(Cell)
  BY <1>2 DEF Parts, PassTypes, OfTokens
<1>11. /\ d.start \in Nat /\ d.end \in Nat /\ 1 <= d.start /\ d.start <= d.end /\ d.end <= Len(scanned)
       /\ d.end \in 0 .. Len(scanned)
  BY ONLY <1>3, <1>4
<1>12. \A x \in OfTokens : x.start \in Nat /\ d.end < x.start
  BY <1>7
<1>13. out' = Rebuilt(scanned, OfTokens \cup {d})
  <2>1. Splice(out, d, d.text) = Rebuilt(scanned, OfTokens \cup {d})
    <3>1. d.text \in Seq(Cell)
      BY <1>4
    <3>2. Parts(OfTokens) /\ scanned \in Seq(Cell)
      BY <1>10
    <3>3. /\ d.start \in Nat /\ d.end \in Nat /\ 1 <= d.start /\ d.start <= d.end
          /\ d.end <= Len(scanned)
      BY ONLY <1>11
    <3>4. Splice(Rebuilt(scanned, OfTokens), d, d.text) = Rebuilt(scanned, OfTokens \cup {d})
      BY ONLY <1>12, <3>1, <3>2, <3>3, RebuiltSplice
    <3> QED BY ONLY <1>9, <3>4
  <2>2. out' = Splice(out, d, d.text)
    BY <1>1, <1>4, Zenon DEF Splice
  <2> QED BY <2>1, <2>2
<1>14. InPlace'
  BY <1>1, <1>2, <1>5, <1>6, <1>13 DEF InPlace
<1>15. PassTypes'
  <2>1. out' \in Seq(Cell)
    <3>1. Parts(OfTokens \cup {d})
      BY <1>4, <1>10 DEF Parts
    <3>2. \A x \in OfTokens \cup {d} : x.start \in Nat /\ 0 < x.start
      BY <1>7, <1>11
    <3>3. 0 \in 0 .. Len(scanned)
      BY <1>3
    <3> QED BY <1>10, <1>13, <3>1, <3>2, <3>3, RebuiltReaches
  <2>2. IsFiniteSet(done')
    BY <1>1, <1>2, FS_AddElement DEF PassTypes
  <2>3. \A x \in done' : x.text \in Seq(Cell)
    BY <1>1, <1>2, <1>4 DEF PassTypes
  <2> QED BY <1>1, <1>2, <2>1, <2>2, <2>3 DEF PassTypes
<1>16. Phases'
  BY <1>1, <1>2, <1>5 DEF Phases
<1>17. MatchesApart'
  BY <1>1, <1>2, <1>6 DEF MatchesApart, IsMatch
<1>18. Searched'
  BY <1>1, <1>2, <1>6 DEF Searched, Covered
<1>19. OwnValue'
  BY <1>2, <1>6 DEF OwnValue
<1>20. TokensLeft'
  <2>1. Wanted(scanned)' = Wanted(scanned)
    BY <1>1 DEF Wanted, Tokens, TokenAt
  <2>2. todo' \subseteq Wanted(scanned)
    BY <1>1, <1>2 DEF TokensLeft
  <2>3. \A x \in todo', y \in OfTokens : x.end < y.start
    BY <1>1, <1>2 DEF TokensLeft
  <2>4. \A x \in todo' : x.end < d.start
    BY <1>1, <1>3, <1>4
  <2>5. \A y \in OfTokens' : y.start \in 1 .. Len(scanned)
    BY <1>3, <1>4, <1>6, <1>7
  <2> QED BY <1>1, <1>6, <2>1, <2>2, <2>3, <2>4, <2>5 DEF TokensLeft
<1>21. OwnText'
  <2>1. \A x \in OfTokens : Own(x)
    BY <1>2, OwnTextIsOwn
  <2>2. \A x : Own(x)' <=> Own(x)
    BY <1>1 DEF Own, NearBy
  <2>3. \A x \in OfTokens' : Own(x)'
    BY <1>6, <2>1, <2>2
  <2>4. OwnText' <=> \A x \in OfTokens' : Own(x)'
    BY Zenon DEF OwnText, Own
  <2> QED BY <2>3, <2>4
<1>22. Tallied'
  <2>1. IsFiniteSet(OfTokens)
    BY <1>2, FS_Subset DEF PassTypes, OfTokens
  <2>2. Cardinality(OfTokens') = Cardinality(OfTokens) + 1 /\ Cardinality(OfTokens) \in Nat
    BY <1>6, <1>8, <2>1, FS_AddElement, FS_CardinalityType
  <2>3. Cardinality(OfSynthetic') = Cardinality(OfSynthetic) /\ Cardinality(OfSynthetic) \in Nat
    BY <1>2, <1>6, FS_Subset, FS_CardinalityType DEF PassTypes, OfSynthetic
  <2>4. Tallies \subseteq DOMAIN counts /\ DOMAIN counts' = DOMAIN counts /\ DOMAIN counts = DOMAIN NoCounts
        /\ \A f \in Tallies : counts[f] \in Nat
    BY <1>1, <1>2 DEF Tallied, NoCounts, Tallies
  <2> DEFINE One(f) == IF f \in fields THEN 1 ELSE 0
  <2>5. \A f \in Tallies : counts'[f] = counts[f] + One(f)
    <3> TAKE f \in Tallies
    <3>1. counts'[f] = IF f \in fields THEN counts[f] + 1 ELSE counts[f]
      BY <1>1, <2>4
    <3> QED BY <2>4, <3>1
  <2>6. \A f : One(f) \in {0, 1}
    OBVIOUS
  <2>7. /\ One("unknown") = One("missed") + One("ambiguous")
        /\ One("repaired") + One("lenient") <= One("restored")
        /\ One("restored") + One("unknown") + One("pathSkip") = 1
    OBVIOUS
  <2>8. /\ counts.unknown = counts.missed + counts.ambiguous
        /\ counts.repaired + counts.lenient <= counts.restored
        /\ counts.restored + counts.unknown + counts.pathSkip
               = Cardinality(OfTokens) + Cardinality(OfSynthetic)
    BY <1>2 DEF Tallied
  <2> HIDE DEF One
  <2>9. \A f \in Tallies : counts'[f] \in Nat
    BY <2>4, <2>5, <2>6
  <2>10. /\ counts'.unknown = counts.unknown + One("unknown") /\ counts'.missed = counts.missed + One("missed")
         /\ counts'.ambiguous = counts.ambiguous + One("ambiguous")
         /\ counts'.repaired = counts.repaired + One("repaired") /\ counts'.lenient = counts.lenient + One("lenient")
         /\ counts'.restored = counts.restored + One("restored")
         /\ counts'.pathSkip = counts.pathSkip + One("pathSkip")
    BY <2>5 DEF Tallies
  <2>11. /\ counts.unknown \in Nat /\ counts.missed \in Nat /\ counts.ambiguous \in Nat /\ counts.repaired \in Nat
         /\ counts.lenient \in Nat /\ counts.restored \in Nat /\ counts.pathSkip \in Nat
    BY <2>4 DEF Tallies
  <2>14. /\ One("unknown") \in {0, 1} /\ One("missed") \in {0, 1} /\ One("ambiguous") \in {0, 1}
         /\ One("repaired") \in {0, 1} /\ One("lenient") \in {0, 1} /\ One("restored") \in {0, 1}
         /\ One("pathSkip") \in {0, 1}
    BY <2>6
  <2>12. /\ counts'.unknown = counts'.missed + counts'.ambiguous
         /\ counts'.repaired + counts'.lenient <= counts'.restored
    BY ONLY <2>7, <2>8, <2>10, <2>11, <2>14, TallyStep
  <2>13. counts'.restored + counts'.unknown + counts'.pathSkip
               = Cardinality(OfTokens') + Cardinality(OfSynthetic')
    <3>1. PICK o : o = Cardinality(OfTokens)
      OBVIOUS
    <3>2. PICK y : y = Cardinality(OfSynthetic)
      OBVIOUS
    <3>3. (counts.restored + One("restored")) + (counts.unknown + One("unknown"))
              + (counts.pathSkip + One("pathSkip")) = (o + 1) + y
      <4>1. PICK r, u, s : r = counts.restored /\ u = counts.unknown /\ s = counts.pathSkip
        OBVIOUS
      <4>2. PICK r1, u1, s1 : r1 = One("restored") /\ u1 = One("unknown") /\ s1 = One("pathSkip")
        OBVIOUS
      <4>3. /\ o \in Nat /\ y \in Nat /\ r \in Nat /\ u \in Nat /\ s \in Nat
            /\ r1 \in {0, 1} /\ u1 \in {0, 1} /\ s1 \in {0, 1}
            /\ r + u + s = o + y /\ r1 + u1 + s1 = 1
        BY <2>2, <2>3, <2>7, <2>8, <2>11, <2>14, <3>1, <3>2, <4>1, <4>2
      <4>4. (r + r1) + (u + u1) + (s + s1) = (o + 1) + y
        BY ONLY <4>3
      <4> QED BY <4>1, <4>2, <4>4
    <3> QED BY ONLY <2>2, <2>3, <2>10, <3>1, <3>2, <3>3
  <2> QED BY <2>4, <2>9, <2>12, <2>13 DEF Tallied
<1> QED BY <1>14, <1>15, <1>16, <1>17, <1>18, <1>19, <1>20, <1>21, <1>22 DEF PassIInv

\* What a handler writes is a text.
LEMMA HandledIs == Handled \in Seq(Cell)
<1>1. PICK c : c = "?"
  OBVIOUS
<1>2. c \in Cell
  BY <1>1, Zenon DEF Cell
<1>3. Handled = <<c>>
  BY <1>1, Zenon DEF Handled
<1> QED BY <1>2, <1>3

\* A token of the vault gets the value of its entry.
LEMMA HitOK == ASSUME PassIInv, todo # {}, NEW m, m = Rightmost(todo), Hit(m) PROVE PassIInv'
<1>1. PICK t : t = OriginalOf[m.hash]
  OBVIOUS
<1>2. PICK fields : fields = {"restored"} \cup (IF m.type = "lenient" THEN {"lenient"} ELSE {})
  OBVIOUS
<1>3. PICK d : d = [start |-> m.start, end |-> m.end, text |-> t, how |-> "hit", hash |-> m.hash]
  OBVIOUS
<1>4. m.hash \in vault /\ Deal(m, fields, t, "hit", m.hash)
  BY <1>1, <1>2, Zenon DEF Hit
<1>5. t \in Seq(Cell)
  BY <1>1, <1>4, PassAssumption DEF PassIInv, PassTypes
<1>6. IsToken(scanned, m) /\ m.start \in 1 .. Len(scanned)
  BY TokenAtHand
<1>7. Own(d)
  <2>1. d.start = m.start /\ d.text = t /\ d.how = "hit" /\ d.hash = m.hash
    BY <1>3
  <2>2. Run(scanned, m.start + 1) <= HashLength + 1 =>
            m.hash = SubSeq(scanned, m.start + 1, m.start + Run(scanned, m.start + 1))
    BY <1>6 DEF IsToken
  <2> QED BY <1>1, <2>1, <2>2 DEF Own
<1>8. /\ "restored" \in fields /\ "unknown" \notin fields /\ "missed" \notin fields
      /\ "ambiguous" \notin fields /\ "repaired" \notin fields /\ "pathSkip" \notin fields
  BY <1>2
<1> QED BY <1>3, <1>4, <1>5, <1>7, <1>8, DealOK

\* A damaged token gets the value of the only entry that is near.
LEMMA RepairOK == ASSUME PassIInv, todo # {}, NEW m, m = Rightmost(todo), Repair(m) PROVE PassIInv'
<1>1. PICK h \in NearBy(m.hash) :
          NearBy(m.hash) = {h} /\ Deal(m, {"restored", "repaired"}, OriginalOf[h], "repaired", h)
  BY Zenon DEF Repair
<1>2. PICK t : t = OriginalOf[h]
  OBVIOUS
<1>3. PICK d : d = [start |-> m.start, end |-> m.end, text |-> t, how |-> "repaired", hash |-> h]
  OBVIOUS
<1>4. h \in vault
  BY <1>1 DEF NearBy
<1>5. t \in Seq(Cell)
  BY <1>2, <1>4, PassAssumption DEF PassIInv, PassTypes
<1>6. IsToken(scanned, m) /\ m.start \in 1 .. Len(scanned)
  BY TokenAtHand
<1>7. Own(d)
  <2>1. d.start = m.start /\ d.text = t /\ d.how = "repaired" /\ d.hash = h
    BY <1>3
  <2>2. Run(scanned, m.start + 1) <= HashLength + 1 =>
            m.hash = SubSeq(scanned, m.start + 1, m.start + Run(scanned, m.start + 1))
    BY <1>6 DEF IsToken
  <2> QED BY <1>1, <1>2, <2>1, <2>2 DEF Own
<1>8. PICK fields : fields = {"restored", "repaired"}
  OBVIOUS
<1>9. /\ "restored" \in fields /\ "unknown" \notin fields /\ "missed" \notin fields
      /\ "ambiguous" \notin fields /\ "repaired" \in fields /\ "pathSkip" \notin fields
      /\ "lenient" \notin fields
  BY <1>8
<1>10. Deal(m, fields, t, "repaired", h)
  BY <1>1, <1>2, <1>8
<1> QED BY <1>3, <1>5, <1>7, <1>9, <1>10, DealOK

\* What a token looks like is a text.
LEMMA SurfaceIs ==
    ASSUME PassIInv, todo # {}, NEW m, m = Rightmost(todo)
    PROVE  Surface(m) \in Seq(Cell)
<1>1. /\ m.start \in 1 .. Len(scanned) /\ m.end \in m.start .. Len(scanned) /\ Len(scanned) \in Nat
      /\ scanned \in Seq(Cell)
  BY TokenAtHand DEF PassIInv, PassTypes
<1>2. \A i \in m.start .. m.end : i \in 1 .. Len(scanned)
  BY <1>1
<1> QED BY <1>1, <1>2, SubSeqProperties DEF Surface

\* A miss in a path is left as it is.
LEMMA SkipPathOK == ASSUME PassIInv, todo # {}, NEW m, m = Rightmost(todo), SkipPath(m) PROVE PassIInv'
<1>1. PICK t : t = Surface(m)
  OBVIOUS
<1>2. PICK fields : fields = {"pathSkip"}
  OBVIOUS
<1>3. PICK d : d = [start |-> m.start, end |-> m.end, text |-> t, how |-> "skipped", hash |-> m.hash]
  OBVIOUS
<1>4. Deal(m, fields, t, "skipped", m.hash)
  BY <1>1, <1>2, Zenon DEF SkipPath
<1>5. t \in Seq(Cell)
  BY <1>1, SurfaceIs
<1>6. d.how = "skipped"
  BY <1>3
<1>7. Own(d)
  BY <1>6 DEF Own
<1>8. /\ "restored" \notin fields /\ "unknown" \notin fields /\ "missed" \notin fields
      /\ "ambiguous" \notin fields /\ "repaired" \notin fields /\ "pathSkip" \in fields
      /\ "lenient" \notin fields
  BY <1>2
<1> QED BY <1>3, <1>4, <1>5, <1>7, <1>8, DealOK

\* Any other miss is left as it is, or handed to the handler if it certainly is a token.
LEMMA UnresolvedOK ==
    ASSUME PassIInv, todo # {}, NEW m, m = Rightmost(todo), Unresolved(m)
    PROVE  PassIInv'
<1>1. PICK t : t = IF handler /\ m.type # "repair" THEN Handled ELSE Surface(m)
  OBVIOUS
<1>2. PICK fields : fields = {"unknown", IF repair /\ NearBy(m.hash) # {} THEN "ambiguous" ELSE "missed"}
  OBVIOUS
<1>3. PICK d : d = [start |-> m.start, end |-> m.end, text |-> t, how |-> "unresolved", hash |-> m.hash]
  OBVIOUS
<1>4. Deal(m, fields, t, "unresolved", m.hash)
  BY <1>1, <1>2, Zenon DEF Unresolved
<1>5. t \in Seq(Cell)
  BY <1>1, SurfaceIs, HandledIs
<1>6. IsToken(scanned, m) /\ m.start \in 1 .. Len(scanned)
  BY TokenAtHand
<1>7. Own(d)
  <2>1. d.start = m.start /\ d.end = m.end /\ d.text = t /\ d.how = "unresolved"
    BY <1>3
  <2>2. t # SubSeq(scanned, m.start, m.end) => m.type # "repair"
    BY <1>1 DEF Surface
  <2>3. m.type # "repair" => Run(scanned, m.start + 1) = HashLength /\ scanned[m.start] # Unbraced
    BY <1>6 DEF IsToken
  <2> QED BY <2>1, <2>2, <2>3 DEF Own
<1>8. /\ "restored" \notin fields /\ "unknown" \in fields /\ "repaired" \notin fields
      /\ "pathSkip" \notin fields /\ "lenient" \notin fields
      /\ ("missed" \in fields <=> "ambiguous" \notin fields)
  BY <1>2
<1> QED BY <1>3, <1>4, <1>5, <1>7, <1>8, DealOK

\* A step of the loop.
LEMMA ReplaceOK == ASSUME PassIInv, Replace PROVE PassIInv'
<1>1. PICK m : m = Rightmost(todo)
  OBVIOUS
<1>2. todo # {} /\ (Hit(m) \/ Repair(m) \/ SkipPath(m) \/ Unresolved(m))
  BY <1>1, Zenon DEF Replace
<1> QED BY <1>1, <1>2, HitOK, RepairOK, SkipPathOK, UnresolvedOK

\* Counting what is left changes nothing else.
LEMMA ResidualOK == ASSUME PassIInv, Residual PROVE PassIInv'
<1>1. UNCHANGED <<mode, lenient, repair, handler, vault, given, queue, from, spans, scanned, todo,
                  done, out>>
  BY Zenon DEF Residual
<1>2. PICK x : counts' = [counts EXCEPT !.residual = x]
  BY Zenon DEF Residual
<1>3. DOMAIN counts' = DOMAIN counts /\ \A f \in DOMAIN counts : f # "residual" => counts'[f] = counts[f]
  BY <1>2
<1>4. Tallies \subseteq DOMAIN counts /\ "residual" \notin Tallies
  BY DEF PassIInv, Tallied, NoCounts, Tallies
<1>5. \A f \in Tallies : counts'[f] = counts[f]
  BY <1>3, <1>4
<1> QED BY <1>1, <1>3, <1>5, PassStutter

\* Every step of a pass keeps the invariant.
LEMMA PassNextOK == ASSUME PassIInv, [PassNext]_passVars PROVE PassIInv'
<1>1. CASE PassNext
  BY <1>1, SeekOK, ReplaceSyntheticOK, ScanTokensOK, ReplaceOK, ResidualOK DEF PassNext
<1>2. CASE UNCHANGED passVars
  <2>1. /\ counts' = counts
        /\ UNCHANGED <<mode, lenient, repair, handler, vault, given, queue, from, spans, scanned, todo,
                       done, out>>
    BY <1>2 DEF passVars
  <2> QED BY <2>1, PassStutter
<1> QED BY <1>1, <1>2

\* What a pass over a text promises (synthetic/restore.ts, restorer/scan.ts, restorer/index.ts):
\* every replacement lands in the place of its token and the rest of the text stays as it was
\* (InPlace), a token gets the value of its own hash and nothing is rewritten that was no token for
\* sure (OwnText), a look-alike gets its own value and is left only where a longer one was found
\* (LookAlikes), and the counters are the partitions they are said to be (CountsAddUp); for every
\* vault, pool, length of hash and text.
THEOREM PassesAreRight == PassSpec => []PassInv
<1>1. PassSpec => []PassIInv
  BY PassInitOK, PassNextOK, PTL DEF PassSpec
<1>2. PassIInv => PassInv
  BY PassIInvIsEnough
<1> QED BY <1>1, <1>2, PTL
=============================================================================
