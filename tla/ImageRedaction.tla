--------------------------- MODULE ImageRedaction --------------------------
(***************************************************************************)
(* One /redact/image request (api/redact_image.py, ocr_pipeline.py,        *)
(* image_masker.py): the words that the OCR has read with confidence are   *)
(* joined into a text, findings in the text are mapped back to words, and  *)
(* rectangles are painted over them.  An image is lines of pixels; the     *)
(* height of a line is left out.  find_pii_spans may find any spans that   *)
(* do not overlap.                                                         *)
(***************************************************************************)
EXTENDS Naturals, Sequences, FiniteSets, Functions

CONSTANTS
    Readings,  \* what the OCR may read: sequences of [length, line, left, width, sure]
    Policies   \* policy_on_low_confidence: "mask", "warn" or "block"

ASSUME ImageAssumption ==
    \A words \in Readings, w \in 1 .. 9 :
        w \in DOMAIN words => words[w].length \in Nat \ {0} /\ words[w].left \in Nat /\ words[w].width \in Nat

VARIABLES
    read,      \* the words, in the order of the OCR
    policy,
    step,      \* "reading", "joining", "finding", "answered" or "refused"
    cursor,    \* length of the text so far
    offsets,   \* sequence of [word, start, end] of the sure words
    findings,  \* from the left
    regions,   \* regions of the detections
    painted,   \* regions that are painted over
    warned     \* words that the answer warns of

imageVars == <<read, policy, step, cursor, offsets, findings, regions, painted, warned>>

-----------------------------------------------------------------------------
Sure == {w \in DOMAIN read : read[w].sure}
Unsure == DOMAIN read \ Sure

ImageInit ==
    /\ read \in Readings /\ policy \in Policies
    /\ step = "reading" /\ cursor = 0 /\ offsets = <<>> /\ findings = <<>>
    /\ regions = {} /\ painted = {} /\ warned = {}

\* A box is a word wide, and at least a pixel.
AtLeastOne(n) == IF n > 1 THEN n ELSE 1
Box(w) == [line |-> read[w].line, left |-> read[w].left, right |-> read[w].left + AtLeastOne(read[w].width)]

\* The payload is no image (400, 413), the OCR has failed (502), it has read a word badly and
\* the policy is "block" (422), or the mask is to be blurred (501).
Refuses ==
    /\ step = "reading"
    /\ step' = "refused"
    /\ UNCHANGED <<read, policy, cursor, offsets, findings, regions, painted, warned>>

Reads ==
    /\ step = "reading" /\ ~(Unsure # {} /\ policy = "block")
    /\ step' = "joining"
    /\ UNCHANGED <<read, policy, cursor, offsets, findings, regions, painted, warned>>

\* Mutant of Begins: a separator is not counted.
BeginsAtOnce == cursor

\* A space goes before every word but the first.
Begins == IF cursor > 0 THEN cursor + 1 ELSE cursor

\* build_text_with_offsets: the next sure word; after the last, the text is searched.
Joins ==
    /\ step = "joining"
    /\ LET left == {w \in Sure : \A i \in DOMAIN offsets : offsets[i].word < w} IN
       IF left = {} THEN step' = "finding" /\ UNCHANGED <<cursor, offsets>>
       ELSE LET w == CHOOSE x \in left : \A y \in left : x <= y IN
            /\ cursor' = Begins + read[w].length
            /\ offsets' = Append(offsets, [word |-> w, start |-> Begins, end |-> Begins + read[w].length])
            /\ UNCHANGED step
    /\ UNCHANGED <<read, policy, findings, regions, painted, warned>>

\* Mutant of Touched: words that begin in the finding.
TouchedInside(span) ==
    {offsets[i].word : i \in {k \in DOMAIN offsets : offsets[k].start >= span.start /\ offsets[k].start < span.end}}

\* map_span_to_word_indices.
Touched(span) ==
    {offsets[i].word : i \in {k \in DOMAIN offsets : offsets[k].end > span.start /\ offsets[k].start < span.end}}

Least(S) == CHOOSE n \in S : \A m \in S : n <= m
Most(S) == CHOOSE n \in S : \A m \in S : n >= m

\* Mutant of UnionPerLine: one box around them all.
UnionOfAll(words) ==
    {[line |-> Least({Box(w).line : w \in words}),
      left |-> Least({Box(w).left : w \in words}), right |-> Most({Box(w).right : w \in words})]}

\* _union_per_line.
UnionPerLine(words) ==
    {LET row == {w \in words : read[w].line = l}
         left == Least({read[w].left : w \in row})
     IN [line |-> l, left |-> left,
         right |-> Most({left + 1} \cup {read[w].left + read[w].width : w \in row})] :
         l \in {read[w].line : w \in words}}

\* A finding to the right of those before it; one that touches no word is dropped.
Finds ==
    /\ step = "finding"
    /\ \E start, end \in 0 .. cursor :
           LET span == [start |-> start, end |-> end] IN
           /\ start < end /\ \A i \in DOMAIN findings : findings[i].end <= start
           /\ IF Touched(span) = {} THEN findings' = findings /\ regions' = regions
              ELSE findings' = Append(findings, span) /\ regions' = regions \cup UnionPerLine(Touched(span))
    /\ UNCHANGED <<read, policy, step, cursor, offsets, painted, warned>>

\* Mutant of LowConfidence: the words of the text are the words.
LowConfidenceNone == {}

LowConfidence == Unsure

\* The words that were read badly are painted over too, or named; and the image goes out.
Paints ==
    /\ step = "finding"
    /\ step' = "answered"
    /\ painted' = regions \cup IF policy = "mask" THEN {Box(w) : w \in LowConfidence} ELSE {}
    /\ warned' = IF policy = "warn" THEN LowConfidence ELSE {}
    /\ UNCHANGED <<read, policy, cursor, offsets, findings, regions>>

ImageNext == Refuses \/ Reads \/ Joins \/ Finds \/ Paints

-----------------------------------------------------------------------------
(* Properties                                                              *)

\* Where a sure word stands in the text, told from the words before it.
PlaceOf(w) ==
    LET before == {x \in Sure : x < w} IN
    Cardinality(before) + FoldFunctionOnSet(+, 0, [x \in DOMAIN read |-> read[x].length], before)

Hides(region, w) ==
    region.line = read[w].line /\ region.left <= read[w].left /\ read[w].left + read[w].width <= region.right

\* api/redact_image.py: every word that has a character of a finding is painted over, on
\* its own line, and so or named is every word that was not read well; with "block" no
\* image with such a word goes out.
FoundIsPainted ==
    step = "answered" =>
        /\ \A i \in DOMAIN findings : \A w \in Sure :
               PlaceOf(w) < findings[i].end /\ findings[i].start < PlaceOf(w) + read[w].length
               => \E region \in painted : Hides(region, w)
        /\ \A w \in Unsure : w \in warned \/ \E region \in painted : Hides(region, w)
        /\ policy = "block" => Unsure = {}

\* Nothing else is: a region begins and ends with words to hide.
PaintedIsFound ==
    step = "answered" => \A region \in painted : \E v, w \in DOMAIN read :
        /\ {region.line} = {read[v].line, read[w].line} /\ region.left = read[v].left /\ region.right = Box(w).right
        /\ {v, w} \cap warned = {}
        /\ \A x \in {v, w} \cap Sure : \E i \in DOMAIN findings :
               PlaceOf(x) < findings[i].end /\ findings[i].start < PlaceOf(x) + read[x].length

ImageInv == FoundIsPainted /\ PaintedIsFound
=============================================================================
