---------------------------- MODULE RedactMerge ----------------------------
(***************************************************************************)
(* How one /redact request turns what three detectors found into one       *)
(* masked text (packages/backend/server: regex_pipeline.py, api/redact.py, *)
(* api/proxy_deps.py).  The regex matches are thinned out first, then the  *)
(* survivors and the models' spans together, and what is kept is replaced  *)
(* from right to left.  A finding is a half-open span of text positions    *)
(* with a category.                                                        *)
(***************************************************************************)
EXTENDS Naturals, Sequences, SequencesExt, FiniteSets, TLC

CONSTANTS
    Length,     \* of the text
    Matches,    \* sets of regex matches
    OpfSpans,   \* sets of spans of the OPF model
    KnerSpans,  \* sets of person names of the Korean model
    Exclusions  \* sets of categories that the proxy sends unmasked; /redact excludes none

\* find_pii_spans appends the matches of one pattern after those of the other.
PatternOrder == <<"private_email", "private_url", "private_phone", "rrn", "biz_num", "card">>

ASSUME MergeAssumption ==
    /\ Length \in Nat
    /\ \A S \in Matches \cup OpfSpans \cup KnerSpans :
         IsFiniteSet(S) /\ \A d \in S : d.start \in Nat /\ d.end \in d.start + 1 .. Length
    /\ \A S \in Matches : \A d \in S : \E n \in DOMAIN PatternOrder : PatternOrder[n] = d.cat

VARIABLES
    matches, opf, kner,  \* what was found
    excluded,            \* PII_PROXY_EXCLUDED_CATEGORIES
    phase,               \* "regex", "merge", "mask" or "done"
    todo,                \* sorted spans still to look at
    kept,
    regexKept,           \* history: the regex spans that went into the merge
    out                  \* the text: original characters and placeholders

mergeVars == <<matches, opf, kner, excluded, phase, todo, kept, regexKept, out>>

-----------------------------------------------------------------------------
Extent(d) == d.start .. d.end - 1
Overlap(a, b) == Extent(a) \cap Extent(b) # {}

\* A list of the spans of a set, from the left, as its detector reports them.
Listed(S) == SetToSortSeq(S, LAMBDA a, b : a.start < b.start \/ (a.start = b.start /\ a.end < b.end))

OfPattern(S, cat) == {d \in S : d.cat = cat}

AllMatches == FlattenSeq([n \in DOMAIN PatternOrder |-> Listed(OfPattern(matches, PatternOrder[n]))])

Numbered(ds) == [n \in DOMAIN ds |-> [at |-> n, span |-> ds[n]]]

Spanned(ns) == [n \in DOMAIN ns |-> ns[n].span]

Before(a, b) == a.start < b.start \/ (a.start = b.start /\ a.end > b.end)

\* Mutant of BySpan: the later of two equal spans comes first.
BySpanUnstable(ds) ==
    Spanned(SortSeq(Numbered(ds), LAMBDA a, b :
        \/ Before(a.span, b.span)
        \/ ~Before(b.span, a.span) /\ a.at > b.at))

\* The stable sort by start, the longer span first.
BySpan(ds) ==
    Spanned(SortSeq(Numbered(ds), LAMBDA a, b :
        \/ Before(a.span, b.span)
        \/ ~Before(b.span, a.span) /\ a.at < b.at))

Wanted(d) == d.cat \notin excluded

\* The regex spans, then OPF's, then the names, each without the excluded categories.
Candidates(regex) == SelectSeq(regex \o Listed(opf) \o Listed(kner), Wanted)

\* A character of the text, and the placeholder of a span.
Char(p) == [from |-> p, cat |-> "text"]
Placeholder(d) == [from |-> d.start, cat |-> d.cat]

MergeInit ==
    /\ matches \in Matches /\ opf \in OpfSpans /\ kner \in KnerSpans /\ excluded \in Exclusions
    /\ phase = "regex"
    /\ todo = BySpan(AllMatches)
    /\ kept = <<>> /\ regexKept = <<>>
    /\ out = [p \in 1 .. Length |-> Char(p - 1)]

\* Mutant of Free: an excluded span still hides what overlaps it, as when the exclusion
\* comes after the merge.
FreeOfExcluded(d) ==
    /\ kept = <<>> \/ d.start >= Last(kept).end
    /\ phase = "merge" => \A x \in opf : ~Wanted(x) /\ x.start < d.start => x.end <= d.start

Free(d) == kept = <<>> \/ d.start >= Last(kept).end

\* One round of the loop that _dedupe_overlapping and _merge_spans_and_mask share.
Thin ==
    /\ phase \in {"regex", "merge"} /\ todo # <<>>
    /\ kept' = IF Free(Head(todo)) THEN Append(kept, Head(todo)) ELSE kept
    /\ todo' = Tail(todo)
    /\ UNCHANGED <<matches, opf, kner, excluded, phase, regexKept, out>>

\* Nothing to merge: OPF's own answer is the answer, which kept its spans the same way.
Merge ==
    /\ phase = "regex" /\ todo = <<>>
    /\ regexKept' = kept
    /\ kept' = <<>>
    /\ todo' = BySpan(Candidates(kept))
    /\ phase' = "merge"
    /\ UNCHANGED <<matches, opf, kner, excluded, out>>

Start ==
    /\ phase = "merge" /\ todo = <<>>
    /\ todo' = kept
    /\ phase' = "mask"
    /\ UNCHANGED <<matches, opf, kner, excluded, kept, regexKept, out>>

\* A slice stops where the text ends.
Prefix(text, n) == SubSeq(text, 1, IF n < Len(text) THEN n ELSE Len(text))

Without(text, d) == Prefix(text, d.start) \o <<Placeholder(d)>> \o SubSeq(text, d.end + 1, Len(text))

\* Mutant of Mask: from left to right.
MaskForward ==
    /\ phase = "mask" /\ todo # <<>>
    /\ out' = Without(out, Head(todo))
    /\ todo' = Tail(todo)
    /\ UNCHANGED <<matches, opf, kner, excluded, phase, kept, regexKept>>

\* The placeholder of the rightmost span that is left goes in.
Mask ==
    /\ phase = "mask" /\ todo # <<>>
    /\ out' = Without(out, Last(todo))
    /\ todo' = Front(todo)
    /\ UNCHANGED <<matches, opf, kner, excluded, phase, kept, regexKept>>

FinishMask ==
    /\ phase = "mask" /\ todo = <<>>
    /\ phase' = "done"
    /\ UNCHANGED <<matches, opf, kner, excluded, todo, kept, regexKept, out>>

MergeNext == Thin \/ Merge \/ Start \/ Mask \/ FinishMask

MergeSpec == MergeInit /\ [][MergeNext]_mergeVars

-----------------------------------------------------------------------------
Merged == phase \in {"mask", "done"}
Covered == UNION {Extent(kept[i]) : i \in DOMAIN kept}

MergeTypeOK ==
    /\ phase \in {"regex", "merge", "mask", "done"}
    /\ ToSet(todo) \cup ToSet(kept) \cup ToSet(regexKept) \subseteq matches \cup opf \cup kner
    /\ Len(kept) <= Cardinality(matches \cup opf \cup kner)
    /\ ToSet(out) \subseteq {Char(p) : p \in 0 .. Length - 1}
                           \cup {Placeholder(d) : d \in matches \cup opf \cup kner}

\* regex_pipeline.py:162: what is kept is disjoint and in the order of the text.
KeptIsDisjoint ==
    \A i, j \in DOMAIN kept : i < j => kept[i].end <= kept[j].start

\* Nothing that was found goes unmasked altogether: a span is dropped only for one that
\* covers its beginning, and never for one that is itself excluded (api/proxy_deps.py:59).
BeginningIsCovered ==
    Merged => \A d \in opf \cup kner \cup ToSet(regexKept) : Wanted(d) => d.start \in Covered

\* api/redact.py:71: for the same span the regex wins over the models, and OPF over the
\* Korean model.
TiesGoToRegex ==
    Merged => \A i \in DOMAIN kept, d \in ToSet(regexKept) :
        Wanted(d) /\ d.start = kept[i].start /\ d.end = kept[i].end
        => kept[i] \in ToSet(regexKept)

\* api/redact.py:101, pii/codec.py:14: the placeholders stand where the spans were, and
\* not a character of the rest is lost or moved.
MaskIsExact ==
    phase = "done" =>
        /\ ToSet(out) = {Char(p) : p \in (0 .. Length - 1) \ Covered}
                          \cup {Placeholder(d) : d \in ToSet(kept)}
        /\ \A i, j \in DOMAIN out : i < j => out[i].from < out[j].from

MergeInv == MergeTypeOK /\ KeptIsDisjoint /\ BeginningIsCovered /\ TiesGoToRegex /\ MaskIsExact

\* packages/backend/README.md:234: when a category is excluded, a narrower match that its
\* span swallowed is still masked.
SwallowedIsMasked ==
    Merged => \A d \in matches : Wanted(d) => Extent(d) \cap Covered # {}
=============================================================================
