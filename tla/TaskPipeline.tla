------------------------------ MODULE TaskPipeline ------------------------------
(***************************************************************************)
(* The way of one task through the crate: attempts of a TaskRecord run by  *)
(* an executor that keeps ExecutorContract, with the record's token in     *)
(* their requests; a sink that pushes what the executor and the jobs emit  *)
(* on a TaskEventQueue; a consumer that drains the queue and gives each    *)
(* terminal event to the record.  The sink, the consumer and the order of  *)
(* start, spawn and mark belong to the application: they are modelled from *)
(* the interfaces of the crate.  The parts are its own modules.            *)
(***************************************************************************)
EXTENDS Naturals, Sequences, FiniteSets

CONSTANTS
  Attempts, NoAttempt, Reasons, NoReason,
  Capacity, MaxPushes  \* see EventQueue

ASSUME AttemptsAssumption ==
  Attempts \subseteq Nat /\ IsFiniteSet(Attempts) /\ NoAttempt \notin Attempts
ASSUME ReasonsAssumption == NoReason \notin Reasons
ASSUME BoundsAssumption == Capacity \in Nat /\ MaxPushes \in Nat \ {0}

VARIABLES
  status, attempt, token, cancel_reason, observer_count, landed, touched,
  fifo, progress, progress_order, dropped_events, coalesced_events, draining,
  remaining, events, delivered, pushed, latest,
  stage, verdict, counted,
  applied,  \* how many of the delivered events the consumer has handled
  kinds,    \* history: what the n-th push brought, and for which attempt
  fate      \* history: attempt -> what became of its terminal event

recordVars == <<status, attempt, token, cancel_reason, observer_count, landed, touched>>
queueVars == <<fifo, progress, progress_order, dropped_events, coalesced_events,
               draining, remaining, events, delivered, pushed, latest>>
executorVars == <<stage, verdict, counted>>
vars == <<recordVars, queueVars, executorVars, applied, kinds, fate>>

NoSlot == NoAttempt

R == INSTANCE TaskRecord WITH Keys <- {}, OwnKey <- NoAttempt, MaxObservers <- 0

Q == INSTANCE EventQueue WITH Slots <- Attempts

(* One piece of work per attempt, all with the token of the record.        *)
X == INSTANCE ExecutorContract WITH
       Work <- Attempts,
       Tokens <- {"own"},
       token <- [a \in Attempts |-> "own"],
       cancelled <- [t \in {"own"} |-> token # NoReason]

Fates == {"None", "Sent", "Dropped", "Applied", "Refused"}

Init ==
  /\ R!Init /\ Q!Init /\ X!Init
  /\ applied = 0
  /\ kinds = <<>>
  /\ fate = [a \in Attempts |-> "None"]

-----------------------------------------------------------------------------
(* The application: start the attempt, then spawn it, then mark it, the    *)
(* mark being late at times.                                               *)
Start(a) ==
  /\ R!StartAttempt(a)
  /\ UNCHANGED <<queueVars, executorVars, applied, kinds, fate>>

Spawn(a) ==
  /\ attempt = a
  /\ UNCHANGED <<recordVars, queueVars, applied, kinds, fate>>
  /\ X!Accept(a) \/ X!Refuse(a)

MarkRunning(a) ==
  /\ stage[a] \in {"Live", "Settled"}
  /\ R!Mark(a, "Running")
  /\ UNCHANGED <<queueVars, executorVars, applied, kinds, fate>>

(* Cancellation asked of the record, or of the executor by handle, which   *)
(* only knows the token.                                                   *)
CancelRecord(r) ==
  /\ R!RequestCancel(r)
  /\ UNCHANGED <<queueVars, executorVars, applied, kinds, fate>>

CancelHandle(a, r) ==
  /\ stage[a] = "Live"
  /\ R!TokenCancel(r)
  /\ UNCHANGED <<queueVars, executorVars, applied, kinds, fate>>

(* The sink: an event goes to the queue, or the queue overflows.  A job    *)
(* may have handed its context on, so progress may come late.              *)
Pushed(k, a) == kinds' = Append(kinds, [kind |-> k, attempt |-> a])

EmitProgress(a) ==
  /\ stage[a] \notin {"New", "Refused"}
  /\ Q!Coalesce(a) \/ Q!PushProgress(a) \/ Q!Overflow(a)
  /\ Pushed("Progress", a)
  /\ UNCHANGED <<recordVars, executorVars, applied, fate>>

(* Mutants: an attempt that settles without an event, or whose event names *)
(* the attempt the record is at.                                           *)
SettleUnsent(a, k) ==
  /\ UNCHANGED <<recordVars, queueVars, applied, kinds>>
  /\ X!Settle(a, k)
  /\ fate' = [fate EXCEPT ![a] = "Sent"]

SettleForCurrent(a, k) ==
  /\ UNCHANGED <<recordVars, applied>>
  /\ X!Settle(a, k)
  /\ \/ Q!PushFifo /\ fate' = [fate EXCEPT ![a] = "Sent"]
     \/ Q!Overflow(NoSlot) /\ fate' = [fate EXCEPT ![a] = "Dropped"]
  /\ Pushed(k, IF attempt # NoAttempt THEN attempt ELSE a)

(* The executor settles an attempt and emits the event; a refusal of the   *)
(* queue is ignored.                                                       *)
Settle(a, k) ==
  /\ UNCHANGED <<recordVars, applied>>
  /\ X!Settle(a, k)
  /\ \/ Q!PushFifo /\ fate' = [fate EXCEPT ![a] = "Sent"]
     \/ Q!Overflow(NoSlot) /\ fate' = [fate EXCEPT ![a] = "Dropped"]
  /\ Pushed(k, a)

Drop(lost) ==
  /\ lost # {}
  /\ UNCHANGED <<recordVars, queueVars, applied, kinds, fate>>
  /\ X!Drop(lost)

(* Mutant: a consumer that waits for a full queue. *)
DrainWhenFull ==
  /\ \/ Q!PendingEvents = Capacity /\ \E budget \in {1, MaxPushes} : Q!BeginDrain(budget)
     \/ Q!TakeFifo \/ Q!TakeProgress \/ Q!EndDrain
  /\ UNCHANGED <<recordVars, executorVars, applied, kinds, fate>>

(* The consumer drains when there is something to drain ...                *)
Drain ==
  /\ \/ Q!PendingEvents > 0 /\ \E budget \in {1, MaxPushes} : Q!BeginDrain(budget)
     \/ Q!TakeFifo \/ Q!TakeProgress \/ Q!EndDrain
  /\ UNCHANGED <<recordVars, executorVars, applied, kinds, fate>>

(* ... and handles what it got in that order: a terminal event by the      *)
(* record's operation of that name, complete for Completed and so on.      *)
Event == kinds[delivered[applied + 1].stamp]

(* Mutant: only a running record takes terminal events. *)
AcceptsWhenRunning(a, k) == R!ActiveAttempt(a) /\ status = "Running"

Accepts(a, k) ==
  IF k = "FinishedAfterCancel" THEN R!ActiveAttempt(a) /\ status = "Cancelling"
                               ELSE R!TerminalEventAttempt(a)

Apply ==
  /\ applied < Len(delivered)
  /\ applied' = applied + 1
  /\ LET k == Event.kind
         a == Event.attempt
     IN \/ k = "Progress" /\ UNCHANGED <<recordVars, fate>>
        \/ /\ k # "Progress" /\ Accepts(a, k)
           /\ IF k = "FinishedAfterCancel" THEN R!FinishAfterCancel(a) ELSE R!Settle(a, k)
           /\ fate' = [fate EXCEPT ![a] = "Applied"]
        \/ /\ k # "Progress" /\ ~Accepts(a, k)
           /\ fate' = [fate EXCEPT ![a] = "Refused"]
           /\ UNCHANGED recordVars
  /\ UNCHANGED <<queueVars, executorVars, kinds>>

Next ==
  \/ \E a \in Attempts :
       \/ Start(a) \/ Spawn(a) \/ MarkRunning(a) \/ EmitProgress(a)
       \/ \E k \in X!Verdicts : Settle(a, k)
       \/ \E r \in Reasons : CancelHandle(a, r)
  \/ \E r \in Reasons : CancelRecord(r)
  \/ \E lost \in SUBSET Attempts : Drop(lost)
  \/ Drain \/ Apply

(* The consumer goes on consuming.                                         *)
Fairness == WF_vars(Drain) /\ WF_vars(Apply)

Spec == Init /\ [][Next]_vars /\ Fairness
-----------------------------------------------------------------------------
(* A settled record says of its attempt what the executor said of it:      *)
(* events of other attempts, late, coalesced around or out of order with   *)
(* progress, never settle it, and none settles it twice or differently     *)
(* (lifecycle.rs:107-156, queue.rs:84-112, runtime_tokio.rs:331-352).      *)
RecordAgrees ==
  status \in R!Terminal =>
    stage[attempt] = "Settled" /\ verdict[attempt] = status /\ fate[attempt] = "Applied"

(* The terminal event of a settled attempt is in one place: dropped at the *)
(* limit (and counted), on its way, applied, or refused; and no attempt    *)
(* that is not settled has one (queue.rs:75-78).                           *)
OnItsWay(a) ==
  {n \in DOMAIN kinds :
     /\ kinds[n] = [kind |-> verdict[a], attempt |-> a]
     /\ \/ \E i \in DOMAIN fifo : fifo[i] = n
        \/ \E i \in DOMAIN Q!Out : i > applied /\ Q!Out[i].stamp = n}

TerminalAccounted ==
  /\ \A a \in Attempts :
       /\ fate[a] # "None" <=> stage[a] = "Settled"
       /\ Cardinality(OnItsWay(a)) = IF fate[a] = "Sent" THEN 1 ELSE 0
  /\ dropped_events >= Cardinality({a \in Attempts : fate[a] = "Dropped"})

(* The record only turns a terminal event down if the attempt is stale or  *)
(* was not marked yet, or if it claims a cancellation the record does not  *)
(* know of: never because of an event handled before (lifecycle.rs:144,    *)
(* 215-238).                                                               *)
RefusedOnlyWhenStale ==
  [][\A a \in Attempts : fate'[a] = "Refused" /\ fate[a] # "Refused" =>
       \/ attempt > a
       \/ status = "Queued"
       \/ verdict[a] = "FinishedAfterCancel" /\ status = "Running"]_vars


(* Whatever was queued about an attempt's end reaches the record, behind   *)
(* any amount of progress.                                                 *)
TerminalArrives == \A a \in Attempts : fate[a] = "Sent" ~> fate[a] \in {"Applied", "Refused"}
=============================================================================
