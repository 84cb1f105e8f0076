------------------------------ MODULE FirstReason ------------------------------
(***************************************************************************)
(* What a CancellationToken promises: a single place that takes the first  *)
(* CancelReason it is given, atomically, and keeps it for ever.  The       *)
(* token is cancelled exactly when the place is taken.  Components that    *)
(* only depend on this promise use it instead of the two-step              *)
(* implementation in CancellationToken, which is shown to refine it.       *)
(***************************************************************************)

CONSTANTS Reasons,   \* CancelReason values callers may pass
          NoReason   \* None

VARIABLE first       \* the reason that won, or NoReason

Init == first = NoReason

(* A cancel request: the first takes the place, a later one changes nothing. *)
Request(r) == first' = IF first = NoReason THEN r ELSE first

Next == \E r \in Reasons : Request(r)

Spec == Init /\ [][Next]_first
=============================================================================
