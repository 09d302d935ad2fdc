--------------------------- MODULE RestorerPasses ---------------------------
(***************************************************************************)
(* One call of restore() over a whole text: in synthetic mode the pass     *)
(* over the look-alikes first, then the scan for tokens in three strengths *)
(* and their replacement from right to left                                *)
(* (packages/core/src/synthetic/restore.ts, restorer/scan.ts,              *)
(* restorer/index.ts, restorer/path.ts, token/format.ts).  What becomes of *)
(* one token is in Remover; here it is where the tokens are, and what is   *)
(* left of the text around them.                                           *)
(*                                                                         *)
(* A text is a sequence of cells: "{" the head of a token as minted, "["   *)
(* in small letters, "(" with a brace dropped, "}" the closing braces, "0" *)
(* and "1" the characters of a hash, "_" any other that makes a word, "h"  *)
(* a Hangul syllable and "p" one that is a particle, "/" and " ", and "?"  *)
(* what a handler writes.  There is one category.                          *)
(***************************************************************************)
EXTENDS Naturals, Sequences, FiniteSets

CONSTANTS
    HashLength,   \* TOKEN_HASH_LENGTH
    OriginalOf,   \* [hash -> text of its entry], of all entries a vault may have
    SeedOf,       \* hashToSeed: [hash -> positive number]
    Pool,         \* the look-alikes of the category, a sequence of texts
    Samples       \* [mode -> texts a model may write]

Minted == "{"
Unbraced == "("
Closing == "}"
Blank == " "
Handled == <<"?">>
Heads == {Minted, "[", Unbraced}
HashCells == {"0", "1"}
Word == {"0", "1", "_"}
Hangul == {"h", "p"}
Cell == Heads \cup Word \cup Hangul \cup {Closing, "/", Blank, "?"}

\* A look-alike is never empty, and one in Hangul ends in Hangul: a name of the pool, or an
\* address (synthetic/index.ts:24).
ASSUME PassAssumption ==
    /\ HashLength \in Nat \ {0}
    /\ IsFiniteSet(DOMAIN OriginalOf) /\ OriginalOf \in [DOMAIN OriginalOf -> Seq(Cell)]
    /\ SeedOf \in [DOMAIN OriginalOf -> Nat \ {0}]
    /\ Pool \in Seq(Seq(Cell)) /\ Pool # <<>>
    /\ \A i \in DOMAIN Pool :
           /\ Pool[i] # <<>>
           /\ (\E j \in DOMAIN Pool[i] : Pool[i][j] \in Hangul) => Pool[i][Len(Pool[i])] \in Hangul
    /\ \A s \in {"token", "synthetic"} : Samples[s] \subseteq Seq(Cell)

VARIABLES
    mode,      \* restoration.mode: "token" or "synthetic"
    lenient, repair, handler,   \* options: lenient, repair, unknownTokenHandler given
    vault,     \* hashes of the live entries
    given,     \* history: the text restore() was given
    queue,     \* entries whose look-alikes are still to be sought
    from,      \* where the search for the head of the queue goes on
    spans,     \* look-alikes found
    scanned,   \* history: the text that was scanned for tokens, or << >> before
    todo,      \* the tokens found that are still to be replaced
    done,      \* history: [start, end, text, how] of each token dealt with
    out,       \* the text so far
    counts     \* RestoreResult

passVars == <<mode, lenient, repair, handler, vault, given, queue, from, spans, scanned, todo,
              done, out, counts>>

Splice(text, m, replacement) ==
    SubSeq(text, 1, m.start - 1) \o replacement \o SubSeq(text, m.end + 1, Len(text))

Overlaps(m, n) == m.start <= n.end /\ n.start <= m.end

-----------------------------------------------------------------------------
(* restoreSynthetic                                                        *)

\* selectSyntheticName: the seed picks from the pool, and wraps around.
Slot(seed) == ((seed - 1) % Len(Pool)) + 1

\* The look-alike assign() gave each entry.
Synthetic == [h \in DOMAIN OriginalOf |-> Pool[Slot(SeedOf[h])]]

CellAt(text, i) == IF i \in DOMAIN text THEN text[i] ELSE Blank

\* isMatchValid: a look-alike is not part of a longer word, or name.
Alone(text, start, end, hangul) ==
    IF hangul
    THEN CellAt(text, start - 1) \notin Hangul /\ CellAt(text, end + 1) # "h"
    ELSE CellAt(text, start - 1) \notin Word /\ CellAt(text, end + 1) \notin Word

\* expandKoreanParticle: a particle that ends the word belongs to the match.
WithParticle(text, end) ==
    IF CellAt(text, end + 1) = "p" /\ CellAt(text, end + 2) \notin Hangul THEN end + 1 ELSE end

IsHangul(hash) == \E i \in DOMAIN Synthetic[hash] : Synthetic[hash][i] \in Hangul

\* text.indexOf: where the look-alike of an entry stands next, if it does.
Occurs(text, hash, i) ==
    /\ i + Len(Synthetic[hash]) - 1 <= Len(text)
    /\ SubSeq(text, i, i + Len(Synthetic[hash]) - 1) = Synthetic[hash]

\* Mutant of BySize: the order of the vault.
BySizeNot(S) == CHOOSE q \in [1 .. Cardinality(S) -> S] :
    \A i, j \in 1 .. Cardinality(S) : i < j => q[i] # q[j] /\ Len(Synthetic[q[i]]) <= Len(Synthetic[q[j]])

\* The entries, those with longer look-alikes first.
BySize(S) == CHOOSE q \in [1 .. Cardinality(S) -> S] :
    \A i, j \in 1 .. Cardinality(S) : i < j => q[i] # q[j] /\ Len(Synthetic[q[i]]) >= Len(Synthetic[q[j]])

\* Mutant of Taken: where another one was found is not looked at.
TakenNever(m) == FALSE

\* A place where another look-alike was found.
Taken(m) == \E n \in spans : Overlaps(m, n)

\* The next occurrence of the look-alike at hand, or there is none.
Seek ==
    /\ queue # <<>> /\ scanned = <<>>
    /\ LET hash == Head(queue)
           places == {i \in from .. Len(given) : Occurs(given, hash, i)}
       IN \/ /\ places = {} /\ queue' = Tail(queue) /\ from' = 1
             /\ UNCHANGED spans
          \/ \E i \in places :
                 LET last == i + Len(Synthetic[hash]) - 1
                     end == IF IsHangul(hash) THEN WithParticle(given, last) ELSE last
                     m == [start |-> i, end |-> end, hash |-> hash]
                 IN /\ \A j \in places : i <= j
                    /\ IF Alone(given, i, last, IsHangul(hash)) /\ ~Taken(m)
                       THEN spans' = spans \cup {m} /\ from' = end + 1
                       ELSE spans' = spans /\ from' = i + 1
                    /\ UNCHANGED queue
    /\ UNCHANGED <<mode, lenient, repair, handler, vault, given, scanned, todo, done, out, counts>>

-----------------------------------------------------------------------------
(* scanTokens                                                              *)

\* How many characters of a hash stand from place i on.
Run(text, i) ==
    CHOOSE n \in 0 .. Len(text) :
        /\ \A j \in i .. i + n - 1 : CellAt(text, j) \in HashCells
        /\ CellAt(text, i + n) \notin HashCells

\* TOKEN_STRICT_PATTERN at place i: where it ends, 0 if it does not match.
StrictEnd(text, i) ==
    IF text[i] = Minted /\ Run(text, i + 1) = HashLength /\ CellAt(text, i + HashLength + 1) = Closing
    THEN i + HashLength + 1 ELSE 0

\* Mutant of LenientEnd: without the look-ahead.
LenientEndAnyhow(text, i) ==
    LET last == i + HashLength IN
    IF text[i] = Unbraced \/ Run(text, i + 1) < HashLength THEN 0
    ELSE IF CellAt(text, last + 1) = Closing THEN last + 1 ELSE last

\* TOKEN_LENIENT_PATTERN: no word goes on behind it, or the braces are not taken.
LenientEnd(text, i) ==
    LET last == i + HashLength IN
    IF text[i] = Unbraced \/ Run(text, i + 1) # HashLength \/ CellAt(text, last + 1) \in Word THEN 0
    ELSE IF CellAt(text, last + 1) = Closing /\ CellAt(text, last + 2) \notin Word THEN last + 1
    ELSE last

\* TOKEN_REPAIR_PATTERN: a hash one character short or long, and any damage to the braces.
RepairEnd(text, i) ==
    LET n == IF Run(text, i + 1) > HashLength THEN HashLength + 1 ELSE Run(text, i + 1) IN
    IF n < HashLength - 1 THEN 0
    ELSE IF CellAt(text, i + n + 1) = Closing THEN i + n + 1 ELSE i + n

\* The token that starts at place i: the strictest pattern takes it.
TokenAt(text, i) ==
    LET Found(type, end) ==
            [start |-> i, end |-> end, type |-> type,
             hash |-> SubSeq(text, i + 1, IF text[end] = Closing THEN end - 1 ELSE end)]
    IN IF StrictEnd(text, i) # 0 THEN {Found("strict", StrictEnd(text, i))}
       ELSE IF LenientEnd(text, i) # 0 THEN {Found("lenient", LenientEnd(text, i))}
       ELSE IF repair /\ RepairEnd(text, i) # 0 THEN {Found("repair", RepairEnd(text, i))}
       ELSE {}

Tokens(text) == UNION {TokenAt(text, i) : i \in {j \in DOMAIN text : text[j] \in Heads}}

\* The matches restore() works on.
Wanted(text) == {m \in Tokens(text) : lenient \/ m.type = "strict"}

-----------------------------------------------------------------------------
(* Restorer.restore                                                        *)

\* isWithinOneEdit
WithinOneEdit(g, h) ==
    LET Without(s, i) == SubSeq(s, 1, i - 1) \o SubSeq(s, i + 1, Len(s)) IN
    \/ g = h
    \/ Len(g) = Len(h) /\ \E i \in DOMAIN g : Without(g, i) = Without(h, i)
    \/ Len(g) = Len(h) + 1 /\ \E i \in DOMAIN g : Without(g, i) = h
    \/ Len(h) = Len(g) + 1 /\ \E i \in DOMAIN h : Without(h, i) = g

NearBy(hash) == {h \in vault : WithinOneEdit(hash, h)}

\* isInsidePath: the word around a token begins like a path, or it touches a separator and
\* has two of them.
InsidePath(text, m) ==
    LET inWord(i, j) == \A k \in i .. j : CellAt(text, k) # Blank
        word == {i \in DOMAIN text : inWord(i, m.start) /\ inWord(m.end, i)}
        seps == {i \in word : text[i] = "/"}
    IN \/ \E i \in seps : CellAt(text, i - 1) = Blank
       \/ {m.start - 1, m.end + 1} \cap seps # {} /\ Cardinality(seps) >= 2

NoCounts == [restored |-> 0, repaired |-> 0, partial |-> 0, lenient |-> 0, unknown |-> 0,
             missed |-> 0, ambiguous |-> 0, pathSkip |-> 0, residual |-> 0]

PassInit ==
    /\ mode \in {"token", "synthetic"}
    /\ lenient \in BOOLEAN /\ repair \in BOOLEAN /\ handler \in BOOLEAN
    /\ mode = "synthetic" => lenient /\ repair /\ ~handler
    /\ vault \in SUBSET DOMAIN OriginalOf
    /\ given \in Samples[mode]
    /\ queue = (IF mode = "synthetic" THEN BySize(vault) ELSE <<>>)
    /\ from = 1 /\ spans = {}
    /\ scanned = <<>> /\ todo = {} /\ done = {}
    /\ out = given /\ counts = NoCounts

\* Mutant of Rightmost: in the order of the text.
Leftmost(S) == CHOOSE m \in S : \A n \in S : m.start <= n.start

\* [...matches].sort((a, b) => b.start - a.start)
Rightmost(S) == CHOOSE m \in S : \A n \in S : n.start <= m.start

\* The look-alikes found are replaced, from right to left.
ReplaceSynthetic ==
    /\ queue = <<>> /\ scanned = <<>> /\ spans # {}
    /\ LET m == Rightmost(spans) IN
       /\ out' = Splice(out, m, OriginalOf[m.hash])
       /\ spans' = spans \ {m}
       /\ done' = done \cup {[start |-> m.start, end |-> m.end, text |-> OriginalOf[m.hash],
                              how |-> "synthetic", hash |-> m.hash]}
       /\ counts' = [counts EXCEPT !.restored = @ + 1]
    /\ UNCHANGED <<mode, lenient, repair, handler, vault, given, queue, from, scanned, todo>>

\* The text is scanned for tokens.
ScanTokens ==
    /\ queue = <<>> /\ scanned = <<>> /\ spans = {} /\ out # <<>>
    /\ scanned' = out
    /\ todo' = Wanted(out)
    /\ counts' = [counts EXCEPT !.partial = Cardinality({m \in Wanted(out) : m.type = "lenient"})]
    /\ UNCHANGED <<mode, lenient, repair, handler, vault, given, queue, from, spans, done, out>>

\* A token is dealt with: the counters it adds to, what is put in its place, and how.
Deal(m, fields, replacement, how, hash) ==
    /\ out' = Splice(out, m, replacement)
    /\ todo' = todo \ {m}
    /\ done' = done \cup {[start |-> m.start, end |-> m.end, text |-> replacement,
                           how |-> how, hash |-> hash]}
    /\ counts' = [f \in DOMAIN counts |-> IF f \in fields THEN counts[f] + 1 ELSE counts[f]]
    /\ UNCHANGED <<mode, lenient, repair, handler, vault, given, queue, from, spans, scanned>>

\* An entry of the vault.
Hit(m) ==
    /\ m.hash \in vault
    /\ Deal(m, {"restored"} \cup (IF m.type = "lenient" THEN {"lenient"} ELSE {}),
            OriginalOf[m.hash], "hit", m.hash)

\* Mutant of Repair: the first entry that is near.
RepairFirst(m) ==
    /\ m.hash \notin vault /\ repair
    /\ NearBy(m.hash) # {}
    /\ LET h == CHOOSE g \in NearBy(m.hash) : TRUE IN
       Deal(m, {"restored", "repaired"}, OriginalOf[h], "repaired", h)

\* The only entry within one edit.
Repair(m) ==
    /\ m.hash \notin vault /\ repair
    /\ \E h \in NearBy(m.hash) :
           NearBy(m.hash) = {h} /\ Deal(m, {"restored", "repaired"}, OriginalOf[h], "repaired", h)

Missed(m) == m.hash \notin vault /\ ~(repair /\ Cardinality(NearBy(m.hash)) = 1)

Surface(m) == SubSeq(scanned, m.start, m.end)

\* Mutant of SkipPath: a miss in a path is counted all the same.
SkipPathCounted(m) ==
    /\ Missed(m) /\ InsidePath(out, m)
    /\ Deal(m, {"pathSkip", "unknown"}, Surface(m), "skipped", m.hash)

\* A miss in a path is left alone.
SkipPath(m) ==
    /\ Missed(m) /\ InsidePath(out, m)
    /\ Deal(m, {"pathSkip"}, Surface(m), "skipped", m.hash)

\* Mutant of Unresolved: a handler may rewrite a guess, too.
UnresolvedGuess(m) ==
    /\ Missed(m) /\ ~InsidePath(out, m)
    /\ Deal(m, {"unknown", IF repair /\ NearBy(m.hash) # {} THEN "ambiguous" ELSE "missed"},
            IF handler THEN Handled ELSE Surface(m), "unresolved", m.hash)

\* handleUnresolved: only what certainly is a token is handed to the handler.
Unresolved(m) ==
    /\ Missed(m) /\ ~InsidePath(out, m)
    /\ Deal(m, {"unknown", IF repair /\ NearBy(m.hash) # {} THEN "ambiguous" ELSE "missed"},
            IF handler /\ m.type # "repair" THEN Handled ELSE Surface(m), "unresolved", m.hash)

\* The next token of the loop.
Replace ==
    /\ todo # {}
    /\ LET m == Rightmost(todo) IN Hit(m) \/ Repair(m) \/ SkipPath(m) \/ Unresolved(m)

\* What is still a token is counted; the result is returned.
Residual ==
    /\ scanned # <<>> /\ todo = {} /\ counts.residual = 0
    /\ {m \in done : m.how # "synthetic"} # {} /\ Tokens(out) # {}
    /\ counts' = [counts EXCEPT !.residual = Cardinality(Tokens(out))]
    /\ UNCHANGED <<mode, lenient, repair, handler, vault, given, queue, from, spans, scanned,
                   todo, done, out>>

PassNext == Seek \/ ReplaceSynthetic \/ ScanTokens \/ Replace \/ Residual

PassSpec == PassInit /\ [][PassNext]_passVars

-----------------------------------------------------------------------------
OfTokens == {m \in done : m.how # "synthetic"}
OfSynthetic == done \ OfTokens

\* What the cell at place k becomes: the text of the part that starts there, nothing inside a
\* part, else itself.
Becomes(text, parts, k) ==
    IF \E m \in parts : m.start = k THEN (CHOOSE m \in parts : m.start = k).text
    ELSE IF \E m \in parts : m.start < k /\ k <= m.end THEN <<>> ELSE <<text[k]>>

\* The text with each of its parts replaced in its place, built from left to right.
Rebuilt(text, parts) ==
    LET prefix[k \in 0 .. Len(text)] ==
            IF k = 0 THEN <<>> ELSE prefix[k - 1] \o Becomes(text, parts, k)
    IN prefix[Len(text)]

\* Every replacement lands where its token was, whatever the lengths, and nothing else of
\* the text changes.
InPlace ==
    /\ scanned = <<>> => out = Rebuilt(given, OfSynthetic)
    /\ scanned # <<>> => scanned = Rebuilt(given, OfSynthetic) /\ out = Rebuilt(scanned, OfTokens)

\* A token gets the value of its own hash, as long as the hash is read in full; a damaged
\* one that of the only entry within one edit; and what was no token for sure is restored
\* or left alone (restorer/index.ts:250-252).
OwnText ==
    \A m \in OfTokens :
        LET n == Run(scanned, m.start + 1)
            hash == SubSeq(scanned, m.start + 1, m.start + n)
        IN /\ m.how \in {"hit", "repaired"} => m.text = OriginalOf[m.hash]
           /\ m.how \in {"hit", "repaired"} /\ n <= HashLength + 1 =>
                  NearBy(hash) = {m.hash} \/ hash = m.hash
           /\ m.how = "unresolved" /\ m.text # SubSeq(scanned, m.start, m.end) =>
                  n = HashLength /\ scanned[m.start] # Unbraced

\* A look-alike is replaced by its own value, and one that stands alone is left only where
\* a longer one was found.
LookAlikes ==
    /\ \A m \in OfSynthetic :
           /\ Occurs(given, m.hash, m.start) /\ m.text = OriginalOf[m.hash]
           /\ m.end - m.start + 1 - Len(Synthetic[m.hash]) \in {0, 1}
           /\ \A n \in OfSynthetic : m # n => ~Overlaps(m, n)
    /\ queue = <<>> /\ spans = {} /\ mode = "synthetic" =>
           \A h \in vault : \A i \in DOMAIN given :
               LET end == i + Len(Synthetic[h]) - 1 IN
               Occurs(given, h, i) /\ Alone(given, i, end, IsHangul(h)) =>
                   \E m \in OfSynthetic : m.start <= end /\ i <= m.end
                                          /\ Len(Synthetic[m.hash]) >= Len(Synthetic[h])

\* The counters are the partitions they are said to be (restorer/index.ts:26-34).
CountsAddUp ==
    /\ counts.unknown = counts.missed + counts.ambiguous
    /\ counts.repaired + counts.lenient <= counts.restored
    /\ scanned # <<>> /\ todo = {} =>
           counts.restored - Cardinality(OfSynthetic) + counts.unknown + counts.pathSkip
               = Cardinality(OfTokens)

PassInv == InPlace /\ OwnText /\ LookAlikes /\ CountsAddUp

\* While the vault holds fewer entries than the pool has look-alikes, a look-alike stands for
\* one entry (docs/ADR/0018-synthetic-substitution.md:217): what is replaced is replaced by the only value
\* it can mean.
LookAlikeIsOwn ==
    Cardinality(vault) < Len(Pool) =>
        \A m \in OfSynthetic : \A h \in vault : Synthetic[h] = Synthetic[m.hash] => h = m.hash
=============================================================================
