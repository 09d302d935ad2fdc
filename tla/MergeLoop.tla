----------------------------- MODULE MergeLoop -----------------------------
(***************************************************************************)
(* The loop of mergeDetections, one detection at a time                    *)
(* (packages/core/src/backend/strategy.ts).  Its input is any list of      *)
(* detections in the order of the sort.                                    *)
(***************************************************************************)
EXTENDS Spans

CONSTANTS
    Detections,  \* spans a backend may report
    Inputs       \* lists of them, sorted

\* A confidence is its rank among those the backends give.
ASSUME DetectionsAssumption ==
    \A d \in Detections :
        d.start \in Nat /\ d.end \in Nat /\ d.start < d.end /\ d.conf \in Nat

ASSUME InputsAssumption ==
    /\ Inputs \subseteq Seq(Detections)
    /\ \A ds \in Inputs : \A i, j \in DOMAIN ds : i < j => ds[i].start <= ds[j].start

VARIABLES
    input,   \* indexed, after the sort
    next,    \* the position the loop has come to
    result

loopVars == <<input, next, result>>

LoopInit ==
    /\ input \in Inputs
    /\ next = 1
    /\ result = <<>>

Step ==
    /\ next \in DOMAIN input
    /\ result' = MergeStep(result, input[next])
    /\ next' = next + 1
    /\ UNCHANGED input

LoopSpec == LoopInit /\ [][Step]_loopVars

-----------------------------------------------------------------------------
LoopTypeOK ==
    /\ input \in Seq(Detections)
    /\ next \in 1 .. (Len(input) + 1)
    /\ result \in Seq(Detections)

\* What VaultManager.assign demands of the list it is given, or it throws: no
\* two spans overlap.
ResultIsDisjoint == Disjoint(result)

\* The spans kept stand in the order of the text, and none of them starts after
\* the next detection.
ResultIsOrdered ==
    /\ \A k, l \in DOMAIN result : k < l => result[k].end <= result[l].start
    /\ result # <<>> /\ next \in DOMAIN input
       => result[Len(result)].start <= input[next].start

InputIsSorted ==
    \A i, j \in DOMAIN input : i < j => input[i].start <= input[j].start

LoopInv == LoopTypeOK /\ InputIsSorted /\ ResultIsOrdered

\* Only detections of the input are kept.
NothingInvented == \A k \in DOMAIN result : \E n \in 1 .. (next - 1) : result[k] = input[n]

\* A detection that overlaps no other one is kept: merging gives up a span only
\* for another one.
AloneIsKept ==
    \A n \in 1 .. (next - 1) :
        (\A m \in DOMAIN input : m # n => ~Overlaps(input[n], input[m]))
        => \E k \in DOMAIN result : result[k] = input[n]

\* "longer span wins", where only two spans meet: when two detections overlap each
\* other and nothing else, the longer is kept, of two equally long the surer.
PairIsDecided ==
    next = Len(input) + 1 =>
        \A n, m \in DOMAIN input :
            /\ n # m /\ Overlaps(input[n], input[m])
            /\ \A o \in DOMAIN input \ {n, m} :
                   ~Overlaps(input[o], input[n]) /\ ~Overlaps(input[o], input[m])
            /\ Beats(input[n], input[m])
            => \E k \in DOMAIN result : result[k] = input[n]
=============================================================================
