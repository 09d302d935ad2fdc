----------------------------- MODULE Detection -----------------------------
(***************************************************************************)
(* One call of Detector.detect: the backends are asked, together or the    *)
(* remote one after the local ones, and their answers become one list of   *)
(* spans (packages/core/src/backend/strategy.ts, tiered-strategy.ts,       *)
(* detector/index.ts; the strategies are built in pii-remover.ts).         *)
(*                                                                         *)
(* Backends answer or fail in any order.  A report is a list of spans of   *)
(* the text; what is in the text is only known through the reports.        *)
(***************************************************************************)
EXTENDS Spans

CONSTANTS
    Backends,   \* all backends
    Remote,     \* the one behind HTTP
    Configs,    \* the configurations, see ConfigsAssumption
    Reports,    \* Reports[b]: the lists of spans b may answer with
    Text,       \* the positions of the text
    Latin       \* those that hold a latin word character

ASSUME RemoteAssumption == Remote \in Backends

ASSUME ReportsAssumption == \A b \in Backends : Reports[b] \subseteq Seq(Detected)

ASSUME TextAssumption == Text \subseteq Nat /\ IsFiniteSet(Text) /\ Latin \subseteq Text

\* locals: the local backends, in order; remote: there is an endpoint; tiered:
\* backend.type; critical: a failure of the remote backend fails the call;
\* onLocalFailure: what tiered does without any local answer.
ASSUME ConfigsAssumption ==
    \A c \in Configs :
        /\ c.locals \in Seq(Backends \ {Remote}) /\ c.locals # <<>>
        /\ c.remote \in BOOLEAN /\ c.tiered \in BOOLEAN /\ c.critical \in BOOLEAN
        /\ c.tiered => c.remote
        /\ c.onLocalFailure \in {"skip_remote", "throw"}

VARIABLES
    config,
    state,       \* state[b]: where the call to b stands
    found,       \* found[b]: what it answered
    sent,        \* the positions of the text the remote backend was shown
    outcome,     \* of the detect call
    detections   \* what it answered

vars == <<config, state, found, sent, outcome, detections>>

Settled(b) == state[b] \in {"answered", "failed"}

\* The backends the first phase asks, in order.
Group == IF config.remote /\ ~config.tiered THEN Append(config.locals, Remote)
         ELSE config.locals

GroupSettled == \A n \in DOMAIN Group : Settled(Group[n])

-----------------------------------------------------------------------------
(* The strategies                                                          *)

\* Mutant of GroupFails: a failed backend is tolerated while another answers.
GroupFailsAll == \A n \in DOMAIN Group : state[Group[n]] = "failed"

\* All failed, or a critical one did.
GroupFails ==
    \/ \A n \in DOMAIN Group : state[Group[n]] = "failed"
    \/ \E n \in DOMAIN Group : Group[n] = Remote /\ state[Remote] = "failed" /\ config.critical

\* A lone backend's answer goes through as it is, several are merged.
GroupResult ==
    LET answered == Chosen(Group, {n \in DOMAIN Group : state[Group[n]] = "answered"})
    IN  IF Len(Group) = 1 THEN found[Group[1]]
        ELSE MergeDetections(MergeBackends([n \in DOMAIN answered |-> found[answered[n]]]))

\* Mutant of Visible: only the first span is taken out of the text.
VisibleFirst(ds) == Text \ (IF ds = <<>> THEN {} ELSE Positions(ds[1]))

\* What is left of the text once the spans are overwritten.
Visible(ds) == Text \ Hidden(MergeDetections(ds))

-----------------------------------------------------------------------------
Init ==
    /\ config \in Configs
    /\ state = [b \in Backends |->
                    IF \E n \in DOMAIN Group : Group[n] = b THEN "pending" ELSE "idle"]
    /\ found = [b \in Backends |-> <<>>]
    /\ sent = IF config.remote /\ ~config.tiered THEN Text ELSE {}
    /\ outcome = "pending"
    /\ detections = <<>>

\* The remote backend finds nothing where it sees nothing.
Answer(b) ==
    /\ state[b] = "pending"
    /\ \E ds \in Reports[b] :
        /\ b = Remote => \A n \in DOMAIN ds : Positions(ds[n]) \cap sent # {}
        /\ found' = [found EXCEPT ![b] = ds]
    /\ state' = [state EXCEPT ![b] = "answered"]
    /\ UNCHANGED <<config, sent, outcome, detections>>

Fail(b) ==
    /\ state[b] = "pending"
    /\ state' = [state EXCEPT ![b] = "failed"]
    /\ UNCHANGED <<config, found, sent, outcome, detections>>

\* Mutant of Finish: what widening made overlap is not merged again.
FinishUnmerged(ds) ==
    /\ outcome' = "answered"
    /\ detections' = Widen(ds, Latin)
    /\ UNCHANGED <<config, state, found, sent>>

\* Detector.detect: the strategy's spans, widened and merged once more.
Finish(ds) ==
    /\ outcome' = "answered"
    /\ detections' = MergeDetections(Widen(ds, Latin))
    /\ UNCHANGED <<config, state, found, sent>>

Reject ==
    /\ outcome' = "rejected"
    /\ UNCHANGED <<config, state, found, sent, detections>>

\* SingleStrategy and MergeStrategy.
SettleGroup ==
    /\ outcome = "pending" /\ ~config.tiered /\ GroupSettled
    /\ \/ GroupFails /\ Reject
       \/ ~GroupFails /\ Finish(GroupResult)

\* TieredStrategy without a local answer.
SettleLocalFailure ==
    /\ outcome = "pending" /\ config.tiered /\ GroupSettled /\ GroupFails
    /\ \/ config.onLocalFailure = "throw" /\ Reject
       \/ config.onLocalFailure = "skip_remote" /\ Finish(<<>>)

\* TieredStrategy shows the remote backend the text without the local spans.
AskRemote ==
    /\ config.tiered /\ GroupSettled /\ ~GroupFails /\ state[Remote] = "idle"
    /\ state' = [state EXCEPT ![Remote] = "pending"]
    /\ sent' = Visible(GroupResult)
    /\ UNCHANGED <<config, found, outcome, detections>>

SettleTiered ==
    /\ outcome = "pending" /\ config.tiered /\ Settled(Remote)
    /\ \/ state[Remote] = "failed" /\ config.critical /\ Reject
       \/ state[Remote] = "failed" /\ ~config.critical /\ Finish(MergeDetections(GroupResult))
       \/ /\ state[Remote] = "answered"
          /\ Finish(MergeDetections(Combined(GroupResult, found[Remote])))

Next ==
    \/ \E b \in Backends : Answer(b) \/ Fail(b)
    \/ SettleGroup
    \/ SettleLocalFailure
    \/ AskRemote
    \/ SettleTiered

Spec == Init /\ [][Next]_vars

-----------------------------------------------------------------------------
TypeOK ==
    /\ config \in Configs
    /\ state \in [Backends -> {"idle", "pending", "answered", "failed"}]
    /\ outcome \in {"pending", "answered", "rejected"}

\* To the remover the call is one step: it fails, or it answers disjoint spans.
D == INSTANCE Detector
ImplementsDetector == D!Spec

\* Without an answer of a critical backend the call fails; only a tiered one, which
\* gives up before it asks the remote backend, does not.
FailClosed ==
    outcome = "answered" /\ config.remote /\ config.critical =>
        \/ state[Remote] = "answered"
        \/ config.tiered /\ sent = {} /\ config.onLocalFailure = "skip_remote"

\* The spans reported, with what widening makes of them.
Reported == UNION {{<<b, n>> : n \in DOMAIN found[b]} : b \in Backends}
Span(r) == found[r[1]][r[2]]
Isolated(r, others) ==
    \A o \in others \ {r} :
        ~Overlaps(Span(r), Span(o)) /\ ~Overlaps(Span(r), WidenOne(Span(o), Latin))

\* A span no other one overlaps is in the answer, whoever reported it: a card number
\* only one backend knows is masked.  (Names are the remote backend's to judge.)
IsolatedIsMasked ==
    outcome = "answered" =>
        \A r \in Reported : ~IsPerson(Span(r)) /\ Isolated(r, Reported)
                            => \E k \in DOMAIN detections : detections[k] = Span(r)

\* In tiered mode the remote backend is shown no such span of a local backend, and
\* nothing at all when no local backend has answered.
RemoteIsBlind ==
    config.tiered =>
        LET ofLocals == {r \in Reported : r[1] # Remote}
        IN  /\ \A r \in ofLocals : ~IsPerson(Span(r)) /\ Isolated(r, ofLocals)
                                   => Positions(Span(r)) \cap sent = {}
            /\ (\A n \in DOMAIN Group : state[Group[n]] # "answered") => sent = {}

\* What no other span interferes with is hidden from the one who gets the answer, and in
\* tiered mode from the remote backend too.
LoneSpansAreHidden == IsolatedIsMasked /\ RemoteIsBlind

-----------------------------------------------------------------------------
(* What the documentation promises and the code does not keep.             *)

\* "Korean PII (and any other category caught by the local detector) is NEVER
\* forwarded to the remote endpoint" (tiered-strategy.ts:36).
RemoteSeesNoLocalPII ==
    config.tiered => \A r \in Reported : r[1] # Remote => Positions(Span(r)) \cap sent = {}
=============================================================================
