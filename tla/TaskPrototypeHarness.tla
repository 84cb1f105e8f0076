-------------------------- MODULE TaskPrototypeHarness --------------------------
(***************************************************************************)
(* src/src/testing.rs: TaskPrototypeHarness, one TaskRecord, one           *)
(* TaskCoordination and one TaskEventQueue together, as an application     *)
(* owns them.  Its operations are calls on the three; a call with several  *)
(* steps is under way in "call", and a failed expect ends it for good,     *)
(* with whatever it had already done.                                      *)
(***************************************************************************)
EXTENDS Naturals, Sequences, FiniteSets

CONSTANTS
  Attempts, NoAttempt, Reasons, NoReason,
  OwnKey,          \* the key the task was made with
  Outputs,         \* outputs, each standing for the key "latest-output:" with it
  Observers,
  CoalescingKeys,
  Capacity,        \* of the queue, 256 in the code
  MaxPushes,       \* bound on pushes, see EventQueue
  MaxEpisodes,     \* bound on periods of observation, see TaskCoordination
  MaxStale         \* bound on the stale completions counted

ASSUME AttemptsAssumption ==
  Attempts \subseteq Nat /\ IsFiniteSet(Attempts) /\ NoAttempt \notin Attempts
ASSUME ReasonsAssumption == NoReason \notin Reasons
ASSUME KeysAssumption == OwnKey \notin Outputs /\ IsFiniteSet(CoalescingKeys)
ASSUME ObserversAssumption == IsFiniteSet(Observers)
ASSUME BoundsAssumption ==
  Capacity \in Nat /\ MaxPushes \in Nat \ {0} /\ MaxEpisodes \in Nat /\ MaxStale \in Nat

VARIABLES
  status, attempt, token, cancel_reason, observer_count, landed, touched,
  fifo, progress, progress_order, dropped_events, coalesced_events, draining,
  remaining, events, delivered, pushed, latest,
  observers, change, opened, ended,
  key,           \* the record's key
  stale_events,
  call,          \* the step a call is at: "idle" between calls
  kinds          \* history: what the n-th push brought, and for which attempt

recordVars == <<status, attempt, token, cancel_reason, observer_count, landed, touched>>
queueVars == <<fifo, progress, progress_order, dropped_events, coalesced_events,
               draining, remaining, events, delivered, pushed, latest>>
coordinationVars == <<observers, change, opened, ended>>
vars == <<recordVars, queueVars, coordinationVars, key, stale_events, call, kinds>>

Keys == {OwnKey} \cup Outputs

NoSlot == <<>>

R == INSTANCE TaskRecord WITH MaxObservers <- Cardinality(Observers)

Q == INSTANCE EventQueue WITH Slots <- Attempts \X CoalescingKeys

C == INSTANCE TaskCoordination

Calls == {"idle", "mark", "output", "completed", "panicked", "overflowed"}

EventKinds == {"Progress", "Output", "Completed"}

(* new: the four public constructors differ in key and policy only, and    *)
(* progress_flood starts attempt 1.                                        *)
Init ==
  /\ R!Init /\ Q!Init /\ C!Init
  /\ key = OwnKey
  /\ stale_events = 0
  /\ call = "idle"
  /\ kinds = <<>>

Callable == call = "idle" /\ ~draining

Goto(step) == call' = step

Pushed(k) == kinds' = Append(kinds, [kind |-> k, attempt |-> attempt])

-----------------------------------------------------------------------------
(* start_attempt: the start, then the mark; the start may panic, the mark  *)
(* of an attempt just started cannot.                                      *)
StartAttempt(a) ==
  /\ Callable
  /\ R!StartAttempt(a)
  /\ Goto("mark")
  /\ UNCHANGED <<queueVars, coordinationVars, key, stale_events, kinds>>

MarkRunning ==
  /\ call = "mark"
  /\ R!Mark(attempt, "Running")
  /\ Goto("idle")
  /\ UNCHANGED <<queueVars, coordinationVars, key, stale_events, kinds>>

(* complete_attempt of an attempt the record does not accept.              *)
CompleteStale(a) ==
  /\ Callable /\ stale_events < MaxStale
  /\ ~R!ActiveAttempt(a)
  /\ stale_events' = stale_events + 1
  /\ UNCHANGED <<recordVars, queueVars, coordinationVars, key, call, kinds>>

(* Mutants: the attempt not asked for, the completion announced alone.     *)
CompleteAny(a, o) ==
  /\ Callable /\ pushed + 2 <= MaxPushes
  /\ ~R!IsTerminal /\ attempt # NoAttempt
  /\ key' = o
  /\ status' = "Completed" /\ attempt' = a /\ landed' = a /\ touched' = {a}
  /\ token' = NoReason /\ cancel_reason' = NoReason /\ observer_count' = 0
  /\ Goto("output")
  /\ UNCHANGED <<queueVars, coordinationVars, stale_events, kinds>>

CompleteSilently(a, o) ==
  /\ Callable /\ pushed + 2 <= MaxPushes
  /\ R!ActiveAttempt(a)
  /\ key' = o
  /\ status' = "Completed" /\ attempt' = a /\ landed' = a /\ touched' = {a}
  /\ token' = NoReason /\ cancel_reason' = NoReason /\ observer_count' = 0
  /\ Goto("completed")
  /\ UNCHANGED <<queueVars, coordinationVars, stale_events, kinds>>

(* complete_attempt: the record is replaced by a new one, queued, started, *)
(* running and completed, with the output in its key, a token of its own   *)
(* and no observers counted.                                               *)
Complete(a, o) ==
  /\ Callable /\ pushed + 2 <= MaxPushes
  /\ R!ActiveAttempt(a)
  /\ key' = o
  /\ status' = "Completed" /\ attempt' = a /\ landed' = a /\ touched' = {a}
  /\ token' = NoReason /\ cancel_reason' = NoReason /\ observer_count' = 0
  /\ Goto("output")
  /\ UNCHANGED <<queueVars, coordinationVars, stale_events, kinds>>

(* ... then the output and the completion are pushed ...                   *)
PushOutput ==
  /\ call = "output"
  /\ Q!PushFifo
  /\ Pushed("Output")
  /\ Goto("completed")
  /\ UNCHANGED <<recordVars, coordinationVars, key, stale_events>>

PushCompleted ==
  /\ call = "completed"
  /\ Q!PushFifo
  /\ Pushed("Completed")
  /\ Goto("idle")
  /\ UNCHANGED <<recordVars, coordinationVars, key, stale_events>>

(* ... and both pushes expect room.                                        *)
QueueFull ==
  /\ call \in {"output", "completed"}
  /\ Q!Overflow(NoSlot)
  /\ Pushed(IF call = "output" THEN "Output" ELSE "Completed")
  /\ Goto("overflowed")
  /\ UNCHANGED <<recordVars, coordinationVars, key, stale_events>>

(* cancel: the record's, without effect on a terminal one.                 *)
Cancel(r) ==
  /\ Callable
  /\ R!RequestCancel(r)
  /\ UNCHANGED <<queueVars, coordinationVars, key, stale_events, call, kinds>>

FinishAfterCancel ==
  /\ Callable
  /\ attempt # NoAttempt /\ R!FinishAfterCancel(attempt)
  /\ UNCHANGED <<queueVars, coordinationVars, key, stale_events, call, kinds>>

(* enqueue_progress: for the attempt of the record, settled or not; the    *)
(* caller gets the error of a full queue.                                  *)
EnqueueProgress(c) ==
  /\ Callable
  /\ attempt # NoAttempt
  /\ LET s == <<attempt, c>> IN Q!Coalesce(s) \/ Q!PushProgress(s) \/ Q!Overflow(s)
  /\ Pushed("Progress")
  /\ UNCHANGED <<recordVars, coordinationVars, key, stale_events, call>>

(* The expects before any change: a start the record refuses, an output    *)
(* that makes no key, a finish it refuses, a finish or progress without an *)
(* attempt.                                                                *)
Panics ==
  /\ Callable
  /\ \/ \E a \in Attempts : R!IsTerminal \/ (attempt # NoAttempt /\ a <= attempt)
     \/ \E a \in Attempts : R!ActiveAttempt(a)
     \/ status # "Cancelling" \/ attempt = NoAttempt
  /\ Goto("panicked")
  /\ UNCHANGED <<recordVars, queueVars, coordinationVars, key, stale_events, kinds>>

(* Mutant: the snapshot's key is not compared with the record's. *)
SyncUnchecked(k) == R!SyncObserverCount(OwnKey, C!observer_count(k)')

(* sync_observer_count with the count the coordination has now.            *)
Sync(k) ==
  IF k = key THEN R!SyncObserverCount(OwnKey, C!observer_count(k)') ELSE UNCHANGED recordVars

Observe(k, o) ==
  /\ Callable
  /\ C!Observe(k, o)
  /\ Sync(k)
  /\ UNCHANGED <<queueVars, key, stale_events, call, kinds>>

Unobserve(k, o, policy) ==
  /\ Callable
  /\ C!UnobserveNotAttached(k, o) \/ C!UnobserveRemaining(k, o) \/ C!UnobserveLast(k, o, policy)
  /\ Sync(k)
  /\ UNCHANGED <<queueVars, key, stale_events, call, kinds>>

(* drain: the queue's, with a budget that spares some or takes all.        *)
Drain ==
  /\ call = "idle"
  /\ \/ \E budget \in {1, MaxPushes} : Q!BeginDrain(budget)
     \/ Q!TakeFifo \/ Q!TakeProgress \/ Q!EndDrain
  /\ UNCHANGED <<recordVars, coordinationVars, key, stale_events, call, kinds>>

Next ==
  \/ \E a \in Attempts :
       StartAttempt(a) \/ CompleteStale(a) \/ \E o \in Outputs : Complete(a, o)
  \/ MarkRunning \/ PushOutput \/ PushCompleted \/ QueueFull \/ Panics
  \/ \E r \in Reasons : Cancel(r)
  \/ FinishAfterCancel
  \/ \E c \in CoalescingKeys : EnqueueProgress(c)
  \/ \E k \in Keys, o \in Observers :
       Observe(k, o) \/ \E policy \in C!UnobservedPolicies : Unobserve(k, o, policy)
  \/ Drain

Spec == Init /\ [][Next]_vars
-----------------------------------------------------------------------------
(* The record's observer count is the coordination's: always under the key *)
(* the task was made with, whatever other keys are observed in between     *)
(* (testing.rs:638-654, lifecycle.rs:194-198).  Under the key of an output *)
(* it may lag, at zero, until that key is observed again.                  *)
CountFollows ==
  /\ key = OwnKey => observer_count = C!observer_count(key)
  /\ observer_count \in {0, C!observer_count(key)}

(* Whether stamp n is still in the fifo or has been drained.               *)
Kept(n) ==
  \/ \E i \in DOMAIN fifo : fifo[i] = n
  \/ \E i \in DOMAIN Q!Out : Q!Out[i].slot = NoSlot /\ Q!Out[i].stamp = n

Announced(n, k) == n \in DOMAIN kinds /\ kinds[n] = [kind |-> k, attempt |-> attempt] /\ Kept(n)

(* A record that says Completed between calls has both announced, the      *)
(* output first, for the attempt it names: nothing in the two is dropped,  *)
(* coalesced or overtaken however full the queue and whatever was drained  *)
(* (613-622), and there is no other completion.                            *)
CompletionAnnounced ==
  call = "idle" /\ status = "Completed" =>
    \E n \in DOMAIN kinds :
      /\ Announced(n, "Output") /\ Announced(n + 1, "Completed")
      /\ \A m \in DOMAIN kinds : kinds[m].kind # "Progress" => m \in {n, n + 1}

(* Test prototype_latest_wins_rejects_stale_completion: whatever order     *)
(* attempts start and complete in, only the newest attempt is completed,   *)
(* and once it is, the output it left never changes (587-611).             *)
LatestWins ==
  [][/\ attempt # NoAttempt /\ status \notin R!Terminal /\ key' # key => attempt' = attempt
     /\ status \in R!Terminal => UNCHANGED <<key, status, attempt>>]_vars
=============================================================================
