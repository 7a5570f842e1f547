------------------------------ MODULE LogStore ------------------------------
(***************************************************************************)
(* What the log promises its reader: messages are kept in the order in     *)
(* which they were accepted; only the oldest ones are ever forgotten; if   *)
(* the newest ones had to be cut off, a note stands where they were.  The  *)
(* messages not written yet are lost when the process ends.                *)
(***************************************************************************)
EXTENDS Naturals, Sequences

CONSTANTS
    Message,
    Note         \* "Log file could not be rotated, truncated instead."

VARIABLES
    pending,     \* accepted, not written yet
    kept,        \* what the files hold, oldest first
    unsaid       \* messages were cut off and the note is still to come

vars == <<pending, kept, unsaid>>

Init == pending = <<>> /\ kept = <<>> /\ unsaid = FALSE

Accept ==
    /\ \E m \in Message : pending' = Append(pending, m)
    /\ UNCHANGED <<kept, unsaid>>

Write ==
    /\ pending # <<>> /\ ~unsaid
    /\ kept' = Append(kept, Head(pending))
    /\ pending' = Tail(pending)
    /\ UNCHANGED unsaid

Forget ==
    /\ \E k \in 1 .. Len(kept) : kept' = SubSeq(kept, k + 1, Len(kept))
    /\ UNCHANGED <<pending, unsaid>>

Cut ==
    /\ \E k \in 0 .. Len(kept) : kept' = SubSeq(kept, 1, k)
    /\ unsaid' = TRUE
    /\ UNCHANGED pending

SayCut ==
    /\ unsaid
    /\ kept' = Append(kept, Note)
    /\ unsaid' = FALSE
    /\ UNCHANGED pending

\* The file cannot be written.
Drop ==
    /\ pending # <<>>
    /\ pending' = Tail(pending) /\ unsaid' = FALSE
    /\ UNCHANGED kept

ProcessEnds ==
    /\ pending' = <<>> /\ unsaid' = FALSE
    /\ UNCHANGED kept

Next == Accept \/ Write \/ Forget \/ Cut \/ SayCut \/ Drop \/ ProcessEnds

Spec == Init /\ [][Next]_vars

=============================================================================
