---------------------------- MODULE StreamBuffer ---------------------------
(***************************************************************************)
(* The buffer that keeps a token of a streamed answer in one piece         *)
(* (packages/proxy/src/stream/buffer.ts).  The stream arrives in any       *)
(* chunks; what the buffer releases is restored slice by slice, so a token *)
(* that is cut by a slice boundary reaches the user as it is.              *)
(*                                                                         *)
(* The text is known by its runs only: the places where it reads like a    *)
(* token being written.                                                    *)
(***************************************************************************)
EXTENDS Naturals

CONSTANTS
    N,        \* length of the longest text
    Window,   \* how far back the buffer looks for the start of a token
    Texts     \* sets of runs [start, length, whole], see TextsAssumption

\* A whole run is a token: it is complete at its last position.  Any other run looks
\* like one for so many positions and then goes on differently.  Tokens do not
\* overlap, what looks like one inside a token (its second brace) ends there, and none
\* is longer than the window (buffer.ts:22).
ASSUME TextsAssumption ==
    /\ N \in Nat /\ Window \in Nat
    /\ \A runs \in Texts : \A r \in runs :
        /\ r.start \in Nat /\ r.length \in Nat /\ r.whole \in BOOLEAN
        /\ r.whole => 0 < r.length /\ r.length <= Window
        /\ \A q \in runs \ {r} : r.whole =>
               /\ r.start + r.length <= q.start \/ q.start + q.length <= r.start + r.length
               /\ q.whole => r.start + r.length <= q.start \/ q.start + q.length <= r.start

VARIABLES
    runs,
    received,   \* how much of the text has come
    released,   \* how much has been handed on; what lies between is held
    cuts,       \* where the slices handed on so far end
    closed

bufferVars == <<runs, received, released, cuts, closed>>

End(r) == r.start + r.length

\* Mutant of InSight: the whole buffer is searched.
InSightAnywhere(r, end) == released <= r.start

\* The runs the end of the buffer may be part of, seen by the regular expression: in
\* the buffer, in the window.
InSight(r, end) == released <= r.start /\ end <= r.start + Window

\* Mutant of Unfinished: the last character of the prefix is not held.
UnfinishedAfterPrefix(end) == {r \in runs : InSight(r, end) /\ r.start + 1 < end /\ end <= End(r)}

\* UNSAFE_TOKEN_TAIL_REGEX (which matches a complete token as well)
Unfinished(end) == {r \in runs : InSight(r, end) /\ r.start < end /\ end <= End(r)}

\* COMPLETE_TOKEN_AT_END_REGEX
CompleteAt(end) == \E r \in runs : r.whole /\ end = End(r) /\ InSight(r, end)

\* What findUnsafeBoundary finds: the end of the buffer, or where the earliest of the
\* unfinished runs starts.
Boundary(end, b) ==
    \/ (CompleteAt(end) \/ Unfinished(end) = {}) /\ b = end
    \/ /\ ~CompleteAt(end)
       /\ \E r \in Unfinished(end) : b = r.start /\ \A q \in Unfinished(end) : r.start <= q.start

-----------------------------------------------------------------------------
BufferInit ==
    /\ runs \in Texts
    /\ received = 0 /\ released = 0
    /\ cuts = {}
    /\ closed = FALSE

Push ==
    /\ ~closed
    /\ \E end \in (received + 1) .. N, b \in 0 .. N :
        /\ Boundary(end, b)
        /\ received' = end
        /\ released' = b
        /\ cuts' = IF b = released THEN cuts ELSE cuts \cup {b}
    /\ UNCHANGED <<runs, closed>>

\* The upstream ends, maybe in the middle of a token.
Flush ==
    /\ ~closed
    /\ closed' = TRUE
    /\ released' = received
    /\ UNCHANGED <<runs, received, cuts>>

BufferNext == Push \/ Flush

BufferSpec == BufferInit /\ [][BufferNext]_bufferVars

-----------------------------------------------------------------------------
BufferTypeOK ==
    /\ received \in 0 .. N /\ released \in 0 .. received
    /\ cuts \subseteq 0 .. released
    /\ closed \in BOOLEAN

\* No slice boundary falls inside a token, however the stream was split.
NoTokenIsCut ==
    \A r \in runs, c \in cuts : r.whole => c <= r.start \/ End(r) <= c

\* The user waits for at most a window's worth of text, and not at all for a token
\* whose last character is there.
HeldIsBounded ==
    /\ received - released <= Window
    /\ \A r \in runs : r.whole /\ received = End(r) => released = received

\* Nothing is handed on twice or taken back, and at the end nothing is left.
EverythingComesOut ==
    [][released <= released' /\ (closed' => released' = received')]_bufferVars
=============================================================================
