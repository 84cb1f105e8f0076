----------------------------- MODULE TokioExecutor -----------------------------
(***************************************************************************)
(* src/src/runtime_tokio.rs: TokioTaskExecutor.  One thread owns the       *)
(* executor and calls spawn, cancel and drain_finished (&mut self: the     *)
(* calls exclude each other).  Every accepted request has a job task and a *)
(* monitor task on the runtime: the monitor awaits the job, reads the      *)
(* cancellation flag, and sends a completion on an unbounded channel that  *)
(* only drain_finished empties.  Holders of a token clone cancel it at any *)
(* moment.  A job owns its TaskContext: it may move it on to a thread that *)
(* outlives it and keeps emitting (the work in Leaky).                     *)
(*                                                                         *)
(* A token is its flag, which never goes back (CancellationToken).         *)
(***************************************************************************)
EXTENDS Naturals, Sequences, FiniteSets

CONSTANTS
  Work,          \* the spawn requests of a behaviour, in no order
  Handles,       \* TaskHandle values: (task id, attempt id)
  Tokens,        \* CancellationTokens
  Assignments,   \* the request each piece of work may carry: a set of
                 \* functions from Work to Requests
  Leaky,         \* the work whose job hands its TaskContext on
  NoWork,        \* a handle with no entry in the active map
  MaxJobEvents   \* bound: job events a sink accepts from one job

(* TaskSpawnRequest: what spawn looks at.  The sink is one per work.       *)
Requests ==
  [handle : Handles, token : Tokens, runnable : {"Async", "Blocking"},
   blocking : {"Abortable", "Blocking", "NonAbortableReportCancelling"}]

ASSUME AssignmentsAssumption == Assignments \subseteq [Work -> Requests]
ASSUME NoWorkAssumption == NoWork \notin Work
ASSUME MaxJobEventsAssumption == MaxJobEvents \in Nat
ASSUME WorkAssumption == IsFiniteSet(Work)

VARIABLES
  request,    \* work -> its TaskSpawnRequest, fixed for a behaviour
  phase,      \* work -> where its job, monitor and completion stand
  outcome,    \* work -> RunnableOutcome its job ended with, "None" before
  requested,  \* work -> CompletionRecord.cancellation_requested
  cancelled,  \* token -> its flag
  active,     \* TokioTaskSupervisor.active: handle -> work, NoWork if absent
  completed,  \* the completion channel
  draining,   \* drain_finished is running
  report,     \* the ExecutorDrainReport under construction
  totals,     \* what the reports returned so far add up to, for the caller
  sink,       \* work -> the events its sink accepted, in order
  alive,      \* the executor has not been dropped
  early       \* history: work -> its token was cancelled when the job ended

vars == <<request, phase, outcome, requested, cancelled, active, completed,
          draining, report, totals, sink, alive, early>>

(* New -> Rejected | Running -> Returned (job) -> Observed (flag read) ->  *)
(* Sent (on the channel) -> Emitted (drained); Abandoned by a drop.        *)
Phases == {"New", "Rejected", "Running", "Returned", "Observed", "Sent",
           "Emitted", "Abandoned"}

InFlight == {"Running", "Returned", "Observed", "Sent"}

(* RunnableOutcome: Ok, Err of kind Cancelled, any other Err, a panic.     *)
(* JoinFailed needs an aborted job: nobody aborts one, and the runtime     *)
(* cancels jobs only in its drop, after the last drain_finished.           *)
Outcomes == {"Ok", "Cancelled", "Failed", "Panicked"}

Verdicts == {"Completed", "Failed", "Cancelled", "FailedToCancel", "FinishedAfterCancel"}

Events == {"Job", "Diagnostic"} \cup Verdicts

TypeOK ==
  /\ request \in Assignments
  /\ phase \in [Work -> Phases]
  /\ outcome \in [Work -> Outcomes \cup {"None"}]
  /\ requested \in [Work -> BOOLEAN]
  /\ cancelled \in [Tokens -> BOOLEAN]
  /\ active \in [Handles -> Work \cup {NoWork}]
  /\ completed \in Seq(Work)
  /\ draining \in BOOLEAN
  /\ report \in [Verdicts -> Nat]
  /\ totals \in [Verdicts -> Nat]
  /\ sink \in [Work -> Seq(Events)]
  /\ alive \in BOOLEAN
  /\ early \in [Work -> BOOLEAN]

Zero == [k \in Verdicts |-> 0]

(* The caller owns the executor and is not inside drain_finished.          *)
Callable == alive /\ ~draining

TokenOf(w) == request[w].token

Init ==
  /\ request \in Assignments
  /\ phase = [w \in Work |-> "New"]
  /\ outcome = [w \in Work |-> "None"]
  /\ requested = [w \in Work |-> FALSE]
  /\ cancelled = [t \in Tokens |-> FALSE]
  /\ active = [h \in Handles |-> NoWork]
  /\ completed = <<>>
  /\ draining = FALSE
  /\ report = Zero
  /\ totals = Zero
  /\ sink = [w \in Work |-> <<>>]
  /\ alive = TRUE
  /\ early = [w \in Work |-> FALSE]

-----------------------------------------------------------------------------
(* spawn with a mode the runnable fits: start job and monitor, then insert *)
(* the handle, over whatever entry it had.                                 *)
Spawn(w, mode) ==
  /\ Callable /\ phase[w] = "New"
  /\ mode = request[w].runnable
  /\ phase' = [phase EXCEPT ![w] = "Running"]
  /\ active' = [active EXCEPT ![request[w].handle] = w]
  /\ UNCHANGED <<request, outcome, requested, cancelled, completed, draining,
                 report, totals, sink, alive, early>>

(* Mutants: the handle inserted before the mode is checked; the flag not   *)
(* read from the request's token; completions sent twice, not at all, or   *)
(* by a monitor that also forgets the handle.                              *)
RejectSpawnInserted(w, mode) ==
  /\ Callable /\ phase[w] = "New"
  /\ mode # request[w].runnable
  /\ phase' = [phase EXCEPT ![w] = "Rejected"]
  /\ active' = [active EXCEPT ![request[w].handle] = w]
  /\ UNCHANGED <<request, outcome, requested, cancelled, completed, draining,
                 report, totals, sink, alive, early>>

MonitorReadsOther(w) ==
  /\ alive /\ phase[w] = "Returned"
  /\ phase' = [phase EXCEPT ![w] = "Observed"]
  /\ UNCHANGED <<request, outcome, requested, cancelled, active, completed, draining,
                 report, totals, sink, alive, early>>

MonitorSendsNothing(w) ==
  /\ alive /\ phase[w] = "Observed"
  /\ phase' = [phase EXCEPT ![w] = "Sent"]
  /\ UNCHANGED <<request, outcome, requested, cancelled, active, completed, draining,
                 report, totals, sink, alive, early>>

MonitorForgets(w) ==
  /\ alive /\ phase[w] = "Observed"
  /\ phase' = [phase EXCEPT ![w] = "Sent"]
  /\ completed' = Append(completed, w)
  /\ active' = [active EXCEPT ![request[w].handle] = NoWork]
  /\ UNCHANGED <<request, outcome, requested, cancelled, draining,
                 report, totals, sink, alive, early>>

(* spawn with the other mode: InvalidRequest, and the request is consumed. *)
RejectSpawn(w, mode) ==
  /\ Callable /\ phase[w] = "New"
  /\ mode # request[w].runnable
  /\ phase' = [phase EXCEPT ![w] = "Rejected"]
  /\ UNCHANGED <<request, outcome, requested, cancelled, active, completed,
                 draining, report, totals, sink, alive, early>>

(* cancel: the token kept under the handle; an absent handle is an error   *)
(* and changes nothing.                                                    *)
Cancel(h) ==
  /\ Callable /\ active[h] # NoWork
  /\ cancelled' = [cancelled EXCEPT ![TokenOf(active[h])] = TRUE]
  /\ UNCHANGED <<request, phase, outcome, requested, active, completed,
                 draining, report, totals, sink, alive, early>>

(* Another holder of a token clone cancels it, at any moment.              *)
TokenCancel(t) ==
  /\ cancelled' = [cancelled EXCEPT ![t] = TRUE]
  /\ UNCHANGED <<request, phase, outcome, requested, active, completed,
                 draining, report, totals, sink, alive, early>>

JobEvents(w) == {i \in DOMAIN sink[w] : sink[w][i] = "Job"}

(* A job emits through its context, usually while it runs; the sink        *)
(* accepts or refuses, and a refusal is the job's to handle.               *)
EmitJobEvent(w) ==
  /\ phase[w] = "Running" \/ (w \in Leaky /\ phase[w] \notin {"New", "Rejected"})
  /\ Cardinality(JobEvents(w)) < MaxJobEvents
  /\ sink' = [sink EXCEPT ![w] = Append(@, "Job")]
  /\ UNCHANGED <<request, phase, outcome, requested, cancelled, active,
                 completed, draining, report, totals, alive, early>>

(* The runnable returns or panics.  A job that never does is a behaviour   *)
(* too.                                                                    *)
JobReturns(w, o) ==
  /\ phase[w] = "Running"
  /\ phase' = [phase EXCEPT ![w] = "Returned"]
  /\ outcome' = [outcome EXCEPT ![w] = o]
  /\ early' = [early EXCEPT ![w] = cancelled[TokenOf(w)]]
  /\ UNCHANGED <<request, requested, cancelled, active, completed, draining,
                 report, totals, sink, alive>>

(* The monitor's await is over: it reads the flag into the record ...      *)
MonitorReads(w) ==
  /\ alive /\ phase[w] = "Returned"
  /\ phase' = [phase EXCEPT ![w] = "Observed"]
  /\ requested' = [requested EXCEPT ![w] = cancelled[TokenOf(w)]]
  /\ UNCHANGED <<request, outcome, cancelled, active, completed, draining,
                 report, totals, sink, alive, early>>

(* ... and, later, sends the emitter.                                      *)
MonitorSends(w) ==
  /\ alive /\ phase[w] = "Observed"
  /\ phase' = [phase EXCEPT ![w] = "Sent"]
  /\ completed' = Append(completed, w)
  /\ UNCHANGED <<request, outcome, requested, cancelled, active, draining,
                 report, totals, sink, alive, early>>
-----------------------------------------------------------------------------
(* Mutants: a policy that alone decides, a failure explained after its     *)
(* terminal event, a counter set instead of incremented, a drain that      *)
(* waits for the active work.                                              *)
MapByPolicy(policy, wasRequested, o) ==
  CASE o = "Ok" -> IF policy = "NonAbortableReportCancelling"
                     THEN "FinishedAfterCancel" ELSE "Completed"
    [] o = "Cancelled" -> "Cancelled"
    [] OTHER -> IF wasRequested THEN "FailedToCancel" ELSE "Failed"

AcceptedSwapped(k) ==
  {<<k>>} \cup
  (IF k \in {"Failed", "FailedToCancel"} THEN {<<k, "Diagnostic">>} ELSE {})

IncrementOnce(r, k) == [r EXCEPT ![k] = 1]

EndDrainWaits ==
  /\ draining /\ completed = <<>> /\ \A h \in Handles : active[h] = NoWork
  /\ draining' = FALSE
  /\ report' = Zero
  /\ totals' = [k \in Verdicts |-> totals[k] + report[k]]
  /\ UNCHANGED <<request, phase, outcome, requested, cancelled, active,
                 completed, sink, alive, early>>

(* map_terminal_outcome *)
MapTerminalOutcome(policy, wasRequested, o) ==
  CASE o = "Ok" -> IF wasRequested /\ policy = "NonAbortableReportCancelling"
                     THEN "FinishedAfterCancel" ELSE "Completed"
    [] o = "Cancelled" -> "Cancelled"
    [] OTHER -> IF wasRequested THEN "FailedToCancel" ELSE "Failed"

Verdict(w) == MapTerminalOutcome(request[w].blocking, requested[w], outcome[w])

(* What of emit_terminal's events the sink may accept: a failure is        *)
(* explained by a diagnostic first, and refusals are ignored.              *)
Accepted(k) ==
  {<<>>, <<k>>} \cup
  (IF k \in {"Failed", "FailedToCancel"}
     THEN {<<"Diagnostic">>, <<"Diagnostic", k>>} ELSE {})

(* The report's increment_*_tasks, one counter per verdict.                *)
Increment(r, k) == [r EXCEPT ![k] = @ + 1]

(* drain_finished: a fresh report, then the loop *)
BeginDrain ==
  /\ Callable
  /\ draining' = TRUE
  /\ report' = Zero
  /\ UNCHANGED <<request, phase, outcome, requested, cancelled, active,
                 completed, totals, sink, alive, early>>

(* One turn of drain_finished's loop: receive, forget the handle, emit.    *)
DrainOne ==
  /\ draining /\ completed # <<>>
  /\ LET w == Head(completed) IN
       /\ completed' = Tail(completed)
       /\ active' = [active EXCEPT ![request[w].handle] = NoWork]
       /\ report' = Increment(report, Verdict(w))
       /\ \E events \in Accepted(Verdict(w)) :
            sink' = [sink EXCEPT ![w] = @ \o events]
       /\ phase' = [phase EXCEPT ![w] = "Emitted"]
  /\ UNCHANGED <<request, outcome, requested, cancelled, draining, totals,
                 alive, early>>

(* try_recv finds the channel empty: the report goes to the caller.        *)
EndDrain ==
  /\ draining /\ completed = <<>>
  /\ draining' = FALSE
  /\ report' = Zero
  /\ totals' = [k \in Verdicts |-> totals[k] + report[k]]
  /\ UNCHANGED <<request, phase, outcome, requested, cancelled, active,
                 completed, sink, alive, early>>

(* The executor is dropped, the runtime first: async jobs stop at their    *)
(* next yield and blocking jobs that had no thread yet never start, so any *)
(* of the running jobs may stop; the others run on until they return.      *)
(* Monitors stop and queued completions are never drained.                 *)
Shutdown ==
  /\ Callable
  /\ alive' = FALSE
  /\ active' = [h \in Handles |-> NoWork]
  /\ completed' = <<>>
  /\ \E stopped \in SUBSET {w \in Work : phase[w] = "Running"} :
       phase' = [w \in Work |->
                   IF \/ phase[w] \in {"Returned", "Observed", "Sent"}
                      \/ w \in stopped
                   THEN "Abandoned" ELSE phase[w]]
  /\ UNCHANGED <<request, outcome, requested, cancelled, draining, report,
                 totals, sink, early>>

CallerNext ==
  \/ \E w \in Work, mode \in {"Async", "Blocking"} : Spawn(w, mode) \/ RejectSpawn(w, mode)
  \/ \E h \in Handles : Cancel(h)
  \/ BeginDrain \/ DrainOne \/ EndDrain \/ Shutdown

RuntimeNext ==
  \E w \in Work :
    \/ EmitJobEvent(w)
    \/ \E o \in Outcomes : JobReturns(w, o)
    \/ MonitorReads(w)
    \/ MonitorSends(w)

Next == CallerNext \/ RuntimeNext \/ \E t \in Tokens : TokenCancel(t)

(* The runtime schedules a woken monitor; a call of drain_finished runs    *)
(* to its end; the caller keeps polling drain_finished, the only way to    *)
(* learn of completions.  Nothing obliges a job to return.                 *)
Fairness ==
  /\ \A w \in Work : WF_vars(MonitorReads(w)) /\ WF_vars(MonitorSends(w))
  /\ WF_vars(DrainOne \/ EndDrain)
  /\ WF_vars(BeginDrain)

Spec == Init /\ [][Next]_vars /\ Fairness
-----------------------------------------------------------------------------
(* The channel holds each finished and not yet drained piece of work       *)
(* exactly once: a completion is neither sent twice nor lost between the   *)
(* monitor (runtime_tokio.rs:73, 88) and the drain (188), however sends    *)
(* and receives interleave.                                                *)
ChannelExact ==
  /\ \A i \in DOMAIN completed : phase[completed[i]] = "Sent"
  /\ \A i, j \in DOMAIN completed : completed[i] = completed[j] => i = j
  /\ \A w \in Work : phase[w] = "Sent" => \E i \in DOMAIN completed : completed[i] = w

(* A sink hears at most one terminal event of a piece of work, the very    *)
(* verdict the report counted, whichever of the events it refuses          *)
(* (emit_terminal, 314-355: errors of emit are dropped, counting does not  *)
(* depend on them), and nothing after it unless the job handed its context *)
(* on (60, 77).                                                            *)
OneTerminal(w) ==
  \A i \in DOMAIN sink[w] : sink[w][i] \in Verdicts =>
    /\ phase[w] = "Emitted" /\ sink[w][i] = Verdict(w)
    /\ \A j \in DOMAIN sink[w] : sink[w][j] \in Verdicts => i = j
    /\ w \notin Leaky => i = Len(sink[w])

TerminalOnce == \A w \in Work : OneTerminal(w)

(* Cancellation truth: the flag is read by the monitor after the job has   *)
(* returned (70, 85) and the verdict is mapped later, in the drain, from   *)
(* that copy.  Whenever the request raced the job: a verdict that claims a *)
(* request is only given if there was one, and a request made before the   *)
(* job ended is never hidden behind Failed, or behind Completed for work   *)
(* that reports cancelling.  Which work reports cancelling is a matter of  *)
(* the policy of its request and not of how it was run (293).              *)
TruthfulVerdict ==
  \A w \in Work : phase[w] = "Emitted" =>
    /\ Verdict(w) \in {"FailedToCancel", "FinishedAfterCancel"} => cancelled[TokenOf(w)]
    /\ Verdict(w) = "FinishedAfterCancel" =>
         request[w].blocking = "NonAbortableReportCancelling"
    /\ early[w] => /\ Verdict(w) # "Failed"
                   /\ request[w].blocking = "NonAbortableReportCancelling" =>
                        Verdict(w) # "Completed"

(* Reports conserve work: what all drains returned, with the one under     *)
(* way, counts every settled piece of work once and under its verdict      *)
(* (185-194, 331-352), also when completions arrive during a drain.        *)
CountsAdd ==
  \A k \in Verdicts :
    totals[k] + report[k] = Cardinality({w \in Work : phase[w] = "Emitted" /\ Verdict(w) = k})

(* An entry of the active map is a piece of work still in flight under     *)
(* that handle, so that cancel never answers Ok for settled work (105,     *)
(* 137, 189), even when requests share a handle.                           *)
ActiveCoherent ==
  \A h \in Handles : active[h] # NoWork =>
    request[active[h]].handle = h /\ phase[active[h]] \in InFlight

(* Work stays active, hence cancellable by its handle, until its terminal  *)
(* event is emitted (README: "Blocking work remains active until its       *)
(* runnable returns and the executor emits exactly one terminal lifecycle  *)
(* event").  It needs requests with distinct handles: see ReusedHandle.    *)
RemainsActive ==
  \A w \in Work : alive /\ phase[w] \in InFlight => active[request[w].handle] = w

(* Every job that ends is settled, whenever its completion is sent         *)
(* relative to the polls of the caller, unless the executor goes away.     *)
JobsSettle ==
  \A w \in Work : phase[w] = "Returned" ~> (phase[w] = "Emitted" \/ ~alive)

(* drain_finished returns: it takes what is on the channel and does not    *)
(* wait for unfinished jobs (188, test at 576).                            *)
DrainReturns == draining ~> ~draining

(* The mapping to what every executor promises.                            *)
Stage ==
  [w \in Work |->
     CASE phase[w] = "New" -> "New"
       [] phase[w] = "Rejected" -> "Refused"
       [] phase[w] = "Emitted" -> "Settled"
       [] phase[w] = "Abandoned" -> "Lost"
       [] OTHER -> "Live"]

GivenVerdict == [w \in Work |-> IF phase[w] = "Emitted" THEN Verdict(w) ELSE "None"]

Counted == [k \in Verdicts |-> totals[k] + report[k]]

Contract ==
  INSTANCE ExecutorContract WITH
    token <- [w \in Work |-> TokenOf(w)],
    stage <- Stage,
    verdict <- GivenVerdict,
    counted <- Counted

(* The executor settles what it accepted at most once, counts it with the  *)
(* settling, and claims a cancel request only where one was made.          *)
ImplementsContract == Contract!Spec
=============================================================================
