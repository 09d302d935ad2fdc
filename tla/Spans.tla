------------------------------- MODULE Spans -------------------------------
(***************************************************************************)
(* The pure part of detection: how the detections of several backends      *)
(* become one list of disjoint spans                                       *)
(* (packages/core/src/backend/strategy.ts, detector/word-boundary.ts).     *)
(*                                                                         *)
(* A detection is a half-open span of text positions with a category and a *)
(* confidence.                                                             *)
(***************************************************************************)
EXTENDS Naturals, Sequences, SequencesExt, FiniteSetsExt

Person == "private_person"

\* What a backend reports holds a character at least: an empty match of a pattern is skipped
\* (custom-pattern.ts:103), and so is an empty item of an answer (remote-http.ts:271).
Detected ==
    {d \in [start : Nat, end : Nat, cat : STRING, conf : Nat] : d.start < d.end}

Width(d) == d.end - d.start

Positions(d) == d.start .. (d.end - 1)

Overlaps(a, b) == a.start < b.end /\ b.start < a.end

Disjoint(ds) ==
    \A i, j \in DOMAIN ds : i < j => ~Overlaps(ds[i], ds[j])

-----------------------------------------------------------------------------
(* Sequences, and mergeDetections                                          *)

\* The members of s at the indices in K, in the given order of these.
Arranged(s, K, order) ==
    LET rank(i) == Cardinality({j \in K : <<j, i>> \in order})
    IN  [n \in 1 .. Cardinality(K) |-> s[CHOOSE i \in K : rank(i) = n - 1]]

\* filter
Chosen(s, K) == Arranged(s, K, {p \in K \X K : p[1] < p[2]})

\* flat
Joined(results) ==
    LET joined[n \in 0 .. Len(results)] == IF n = 0 THEN <<>> ELSE joined[n - 1] \o results[n]
    IN  joined[Len(results)]

\* The order of the sort: start, then the wider, then the surer, then the
\* earlier in the list.
Precedes(ds, i, j) ==
    LET a == ds[i]
        b == ds[j]
    IN  \/ a.start < b.start
        \/ /\ a.start = b.start
           /\ \/ Width(a) > Width(b)
              \/ /\ Width(a) = Width(b)
                 /\ a.conf > b.conf \/ (a.conf = b.conf /\ i < j)

Sorted(ds) ==
    Arranged(ds, DOMAIN ds, {p \in (DOMAIN ds) \X (DOMAIN ds) : Precedes(ds, p[1], p[2])})

\* Mutant of Beats: any overlapping successor wins.
BeatsAlways(d, last) == TRUE

\* d takes the place of the last span kept.
Beats(d, last) ==
    \/ Width(d) > Width(last)
    \/ Width(d) = Width(last) /\ d.conf > last.conf

\* Mutant of Clear: looks at where the last span starts.
ClearOfStart(result, d) == result = <<>> \/ d.start > result[Len(result)].start

Clear(result, d) == result = <<>> \/ d.start >= result[Len(result)].end

\* One round of the loop: d is only ever compared with the last span kept.
MergeStep(result, d) ==
    IF Clear(result, d) THEN Append(result, d)
    ELSE IF Beats(d, result[Len(result)]) THEN [result EXCEPT ![Len(result)] = d]
    ELSE result

MergeDetections(ds) ==
    LET sorted == Sorted(ds)
        merged[n \in 0 .. Len(ds)] ==
            IF n = 0 THEN <<>> ELSE MergeStep(merged[n - 1], sorted[n])
    IN  merged[Len(ds)]

-----------------------------------------------------------------------------
(* mergeBackendDetections                                                  *)

IsPerson(d) == d.cat = Person

Persons(ds) == {i \in DOMAIN ds : IsPerson(ds[i])}

\* A person the model found gives way to the only strictly shorter local person
\* inside it (the name without its honorific).
Tightened(rp, local) ==
    LET inside == {i \in Persons(local) : /\ local[i].start >= rp.start
                                          /\ local[i].end <= rp.end
                                          /\ Width(local[i]) < Width(rp)}
    IN  IF \E i \in inside : inside = {i} THEN local[CHOOSE i \in inside : TRUE] ELSE rp

\* The persons the other backends found replace the local ones, also when they
\* found none; everything else is kept.
Combined(local, others) ==
    LET persons == Chosen(others, Persons(others))
    IN  Chosen(local, DOMAIN local \ Persons(local))
        \o [n \in DOMAIN persons |-> Tightened(persons[n], local)]
        \o Chosen(others, DOMAIN others \ Persons(others))

\* Mutant of MergeBackends: a third backend's result is left out.
MergeBackendsTwo(results) ==
    IF Len(results) = 1 THEN results[1]
    ELSE Combined(results[1], results[2])

\* The first result counts as the local one, whichever backend gave it.
MergeBackends(results) ==
    IF Len(results) = 1 THEN results[1]
    ELSE Combined(results[1], Joined(Tail(results)))

-----------------------------------------------------------------------------
(* expandPersonWordBoundaries, on a text whose positions in Latin hold     *)
(* latin word characters                                                   *)

\* A person span that starts or ends between two latin characters grows to the
\* end of the word.
WidenOne(d, Latin) ==
    IF ~IsPerson(d) THEN d
    ELSE LET starts == {s \in 0 .. d.start : s .. d.start \subseteq Latin} \cup {d.start}
             ends == {e \in d.end .. (d.end + Cardinality(Latin)) :
                         (d.end - 1) .. (e - 1) \subseteq Latin} \cup {d.end}
         IN  [d EXCEPT !.start = Min(starts), !.end = Max(ends)]

Widen(ds, Latin) == [n \in DOMAIN ds |-> WidenOne(ds[n], Latin)]

-----------------------------------------------------------------------------
Hidden(ds) == UNION {Positions(ds[n]) : n \in DOMAIN ds}
=============================================================================
