--------------------------- MODULE MCRedactMerge ---------------------------
(***************************************************************************)
(* RedactMerge on a text of four positions: up to two matches of phone and *)
(* business number, up to two disjoint spans of OPF, up to one name; the   *)
(* proxy excludes nothing or the secrets.                                  *)
(***************************************************************************)
EXTENDS RedactMerge, FiniteSetsExt

MCLength == 4

Finding(cats) == {d \in [start: 0 .. 3, end: 1 .. 4, cat: cats] : d.start < d.end}

UpTo(n, S) == UNION {kSubset(k, S) : k \in 0 .. n}

Apart(S) == \A a, b \in S : a = b \/ ~Overlap(a, b)

MCMatches == {S \in UpTo(2, Finding({"private_phone", "biz_num"})) :
                \A cat \in {"private_phone", "biz_num"} : Apart({d \in S : d.cat = cat})}
MCOpfSpans == {S \in UpTo(2, Finding({"secret"})) : Apart(S)}
MCExclusions == {{}, {"secret"}}
MCKnerSpans == UpTo(1, Finding({"private_person"}))

\* An excluded URL, and a mail address somewhere.
MCUrlMatches == {{u, m} : u \in Finding({"private_url"}), m \in Finding({"private_email"})}
MCNoSpans == {{}}
MCUrlExcluded == {{"private_url"}}
=============================================================================
