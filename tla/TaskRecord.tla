------------------------------- MODULE TaskRecord -------------------------------
(***************************************************************************)
(* src/src/lifecycle.rs: one TaskRecord, the truth about one task.  Its    *)
(* owner calls the operations in any order and with any attempt id, as     *)
(* events of earlier attempts arrive late; clones of its token, given out  *)
(* by request_cancel and cancellation, may be cancelled by others at any   *)
(* time.  A call the record refuses returns an error and changes nothing:  *)
(* such calls are not steps, the guards are the checks they failed.        *)
(*                                                                         *)
(* The token is atomic here, which CancellationToken shows is sound.       *)
(***************************************************************************)
EXTENDS Naturals

CONSTANTS
  Attempts,    \* TaskAttemptId values
  NoAttempt,   \* None
  Reasons,     \* CancelReason values
  NoReason,    \* None
  Keys,        \* task keys of the observer snapshots that may arrive
  OwnKey,      \* the record's own key
  MaxObservers \* bound on the observer counts in those snapshots

ASSUME AttemptsAssumption == Attempts \subseteq Nat /\ NoAttempt \notin Attempts
ASSUME ReasonsAssumption == NoReason \notin Reasons
ASSUME MaxObserversAssumption == MaxObservers \in Nat

VARIABLES
  status,         \* TaskStatus
  attempt,        \* attempt_id
  token,          \* the reason its CancellationToken took, NoReason if not cancelled
  cancel_reason,  \* the record's own note of the reason
  observer_count,
  landed,         \* history: the newest attempt started, or that of an event
                  \* accepted since
  touched         \* history: attempts that left Queued

vars == <<status, attempt, token, cancel_reason, observer_count, landed, touched>>

Token == INSTANCE FirstReason WITH first <- token

Active == {"Queued", "Running", "Waiting", "Blocked", "Cancelling"}

Terminal == {"Completed", "Failed", "Cancelled", "FinishedAfterCancel", "FailedToCancel"}

TypeOK ==
  /\ status \in Active \cup Terminal
  /\ attempt \in Attempts \cup {NoAttempt}
  /\ token \in Reasons \cup {NoReason}
  /\ cancel_reason \in Reasons \cup {NoReason}
  /\ observer_count \in 0..MaxObservers
  /\ landed \in Attempts \cup {NoAttempt}
  /\ touched \subseteq Attempts

(* TaskRecord::queued *)
Init ==
  /\ status = "Queued"
  /\ attempt = NoAttempt
  /\ Token!Init
  /\ cancel_reason = NoReason
  /\ observer_count = 0
  /\ landed = NoAttempt
  /\ touched = {}

-----------------------------------------------------------------------------
(* Mutants: checks and guards a careless edit could lose. *)
IsTerminalForgetsOne == status \in Terminal \ {"FailedToCancel"}

StartSameAgain(a) ==
  /\ status \notin Terminal
  /\ attempt # NoAttempt => a >= attempt
  /\ attempt' = a
  /\ status' = "Queued"
  /\ landed' = IF landed # NoAttempt /\ landed > a THEN landed ELSE a
  /\ UNCHANGED <<token, cancel_reason, observer_count, touched>>

ActiveQueuedToo(a) == status \notin Terminal /\ attempt = a

FinishUnchecked(a) ==
  /\ status \notin Terminal /\ attempt = a
  /\ status' = "FinishedAfterCancel"
  /\ landed' = a
  /\ touched' = touched \cup {a}
  /\ UNCHANGED <<attempt, token, cancel_reason, observer_count>>

SyncAdds(k, n) ==
  /\ k = OwnKey
  /\ observer_count' = observer_count + n
  /\ UNCHANGED <<status, attempt, token, cancel_reason, landed, touched>>

(* TaskStatus::is_terminal *)
IsTerminal == status \in Terminal

(* ensure_active_attempt: else TerminalState, StaleAttempt or NotRunning.  *)
ActiveAttempt(a) == ~IsTerminal /\ attempt = a

(* ensure_terminal_event_attempt: else, in addition, NotRunning.           *)
TerminalEventAttempt(a) == ActiveAttempt(a) /\ status # "Queued"

(* start_attempt: a retry goes back to Queued and keeps the token as it is,*)
(* cancelled or not, and the noted reason.                                 *)
StartAttempt(a) ==
  /\ ~IsTerminal
  /\ attempt # NoAttempt => a > attempt
  /\ attempt' = a
  /\ status' = "Queued"
  /\ landed' = IF landed # NoAttempt /\ landed > a THEN landed ELSE a
  /\ UNCHANGED <<token, cancel_reason, observer_count, touched>>

(* mark_running, mark_waiting, mark_blocked: from any active status.       *)
Mark(a, to) ==
  /\ ActiveAttempt(a)
  /\ status' = to
  /\ landed' = a
  /\ touched' = touched \cup {a}
  /\ UNCHANGED <<attempt, token, cancel_reason, observer_count>>

(* complete, fail, confirm_cancelled, fail_to_cancel.                      *)
Settle(a, to) ==
  /\ TerminalEventAttempt(a)
  /\ status' = to
  /\ landed' = a
  /\ UNCHANGED <<attempt, token, cancel_reason, observer_count, touched>>

(* finish_after_cancel: not Queued since it must be Cancelling.            *)
FinishAfterCancel(a) ==
  /\ ActiveAttempt(a)
  /\ status = "Cancelling"
  /\ status' = "FinishedAfterCancel"
  /\ landed' = a
  /\ UNCHANGED <<attempt, token, cancel_reason, observer_count, touched>>

(* request_cancel: needs no attempt, and notes the latest reason where the *)
(* token keeps the first.  On a terminal record it changes nothing.        *)
RequestCancel(r) ==
  /\ ~IsTerminal
  /\ Token!Request(r)
  /\ cancel_reason' = r
  /\ status' = "Cancelling"
  /\ touched' = touched \cup ({attempt} \ {NoAttempt})
  /\ UNCHANGED <<attempt, observer_count, landed>>

(* A holder of a clone of the token cancels it behind the record's back.   *)
TokenCancel(r) ==
  /\ Token!Request(r)
  /\ UNCHANGED <<status, attempt, cancel_reason, observer_count, landed, touched>>

(* sync_observer_count: a snapshot of another key is ignored.              *)
SyncObserverCount(k, n) ==
  /\ k = OwnKey
  /\ observer_count' = n
  /\ UNCHANGED <<status, attempt, token, cancel_reason, landed, touched>>

Next ==
  \/ \E a \in Attempts :
       \/ StartAttempt(a)
       \/ \E to \in {"Running", "Waiting", "Blocked"} : Mark(a, to)
       \/ \E to \in {"Completed", "Failed", "Cancelled", "FailedToCancel"} : Settle(a, to)
       \/ FinishAfterCancel(a)
  \/ \E r \in Reasons : RequestCancel(r) \/ TokenCancel(r)
  \/ \E k \in Keys, n \in 0..MaxObservers : SyncObserverCount(k, n)

Spec == Init /\ [][Next]_vars
-----------------------------------------------------------------------------
(* "Records reject stale attempts [and] do not accept non-advancing        *)
(* attempt ids" (README): whatever order starts and late events arrive in, *)
(* the record is at the newest attempt ever started, whose events alone it *)
(* accepts, and an attempt that left Queued is never started a second time *)
(* (lifecycle.rs:78-82, 220-224).                                          *)
NewestAttemptRules ==
  /\ landed = attempt
  /\ \A a \in touched : attempt # NoAttempt /\ a <= attempt
  /\ status = "Queued" => attempt \notin touched

(* "[Records] keep terminal states terminal" (README): no start, late      *)
(* event or cancel request moves a settled record or its note of the       *)
(* reason (lifecycle.rs:74, 120, 216).                                     *)
TerminalStaysTerminal ==
  [][(status \in Terminal) => UNCHANGED <<status, attempt, cancel_reason>>]_vars

(* Cancelling and FinishedAfterCancel are backed by the token: the job     *)
(* really can see the request.  It survives retries, which put the record  *)
(* back to Queued without renewing the token (84-86).  Nothing is said of  *)
(* Cancelled and FailedToCancel, which the record takes from its caller    *)
(* (107, 152); for the latter see CancellationsAreTrue of TaskPipeline.    *)
CancelClaimsBacked ==
  /\ status \in {"Cancelling", "FinishedAfterCancel"} => cancel_reason # NoReason
  /\ cancel_reason # NoReason => token # NoReason

(* An attempt is only settled after it left Queued itself, by a mark or by *)
(* a cancel request: that an earlier attempt of the task was running does  *)
(* not count (227-238, test terminal_events_reject_queued_attempts).       *)
SettledWasTouched == status \in Terminal => attempt \in touched
=============================================================================
