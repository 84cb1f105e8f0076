------------------------------ MODULE FakeExecutor ------------------------------
(***************************************************************************)
(* src/src/testing.rs: FakeExecutor, which runs a request to its end       *)
(* inside spawn, with the jobs and the sink that come with it.  One thread *)
(* owns the executor (&mut self): spawn, cancel and drain_finished exclude *)
(* each other.  Holders of a token clone cancel it at any moment, in the   *)
(* middle of a spawn too, and a job may hand its context to a thread that  *)
(* outlives it (the work in Leaky).  A sink that refuses an event makes    *)
(* the spawn fail, after the work was done.                                *)
(***************************************************************************)
EXTENDS Naturals, Sequences, FiniteSets

CONSTANTS
  Work,          \* the spawn requests of a behaviour, in no order
  Handles,       \* TaskHandle values
  Tokens,        \* CancellationTokens
  Assignments,   \* the request each piece of work may carry
  Leaky,         \* the work whose job hands its TaskContext on
  NoWork,        \* no entry under a handle
  MaxJobEvents,  \* bound: job events a sink accepts from one job
  MaxCancels     \* bound: calls of cancel that find an entry

(* The jobs of testing.rs, and any other job; RecordingTaskEventSink, and  *)
(* any other sink.                                                         *)
Requests ==
  [handle : Handles, token : Tokens,
   job : {"Recorded", "Cancelled", "Failing", "Other"},
   blocking : {"Abortable", "Blocking", "NonAbortableReportCancelling"},
   sink : {"Recording", "Fallible"}]

ASSUME AssignmentsAssumption == Assignments \subseteq [Work -> Requests]
ASSUME NoWorkAssumption == NoWork \notin Work
ASSUME BoundsAssumption == MaxJobEvents \in Nat /\ MaxCancels \in Nat
ASSUME WorkAssumption == IsFiniteSet(Work)

VARIABLES
  request,    \* work -> its TaskSpawnRequest
  phase,      \* work -> where its spawn stands
  outcome,    \* work -> RunnableOutcome, "None" before
  verdict,    \* work -> TerminalOutcome, "None" before
  answer,     \* work -> what spawn returned, "None" before
  spawned,    \* the log of spawns
  cancels,    \* the log of cancels
  handles,    \* handle -> [owner, terminal]
  finished,   \* the report being filled
  totals,     \* what the reports returned so far add up to, for the caller
  sink,       \* work -> the events its sink accepted, in order
  cancelled   \* token -> its flag

vars == <<request, phase, outcome, verdict, answer, spawned, cancels, handles,
          finished, totals, sink, cancelled>>

(* New -> Running -> Returned -> Mapped -> Explained -> Done, where only   *)
(* failures stop at Explained; a refused diagnostic goes to Unexplained.   *)
Phases == {"New", "Running", "Returned", "Mapped", "Explained", "Done", "Unexplained"}

Outcomes == {"Ok", "Cancelled", "Failed", "Panicked"}

Verdicts == {"Completed", "Failed", "Cancelled", "FailedToCancel", "FinishedAfterCancel"}

Failures == {"Failed", "FailedToCancel"}

Zero == [k \in Verdicts |-> 0]

TypeOK ==
  /\ request \in Assignments
  /\ phase \in [Work -> Phases]
  /\ outcome \in [Work -> Outcomes \cup {"None"}]
  /\ verdict \in [Work -> Verdicts \cup {"None"}]
  /\ answer \in [Work -> {"None", "Ok", "SinkFailed"}]
  /\ spawned \in Seq(Work)
  /\ cancels \in Seq(Handles)
  /\ handles \in [Handles -> [owner : Work \cup {NoWork}, terminal : BOOLEAN]]
  /\ finished \in [Verdicts -> Nat]
  /\ totals \in [Verdicts -> Nat]
  /\ sink \in [Work -> Seq({"Job", "Diagnostic"} \cup Verdicts)]
  /\ cancelled \in [Tokens -> BOOLEAN]

TokenOf(w) == request[w].token

(* A sink may refuse an event; the recording one always answers Ok.        *)
MayRefuse(w) == request[w].sink = "Fallible"

(* No call of the executor is under way.                                   *)
Callable == \A w \in Work : phase[w] \in {"New", "Done", "Unexplained"}

(* Default for FakeExecutor *)
Init ==
  /\ request \in Assignments
  /\ phase = [w \in Work |-> "New"]
  /\ outcome = [w \in Work |-> "None"]
  /\ verdict = [w \in Work |-> "None"]
  /\ answer = [w \in Work |-> "None"]
  /\ spawned = <<>>
  /\ cancels = <<>>
  /\ handles = [h \in Handles |-> [owner |-> NoWork, terminal |-> FALSE]]
  /\ finished = Zero
  /\ totals = Zero
  /\ sink = [w \in Work |-> <<>>]
  /\ cancelled = [t \in Tokens |-> FALSE]

-----------------------------------------------------------------------------
(* spawn_task and spawn_blocking_task alike, whatever the runnable: log,   *)
(* take the handle over whatever entry it had, run.                        *)
Spawn(w) ==
  /\ Callable /\ phase[w] = "New"
  /\ phase' = [phase EXCEPT ![w] = "Running"]
  /\ spawned' = Append(spawned, w)
  /\ handles' = [handles EXCEPT ![request[w].handle] = [owner |-> w, terminal |-> FALSE]]
  /\ UNCHANGED <<request, outcome, verdict, answer, cancels, finished, totals,
                 sink, cancelled>>

(* The runnable is over with outcome o, having had these events accepted.  *)
Returned(w, o, events) ==
  /\ phase[w] = "Running"
  /\ phase' = [phase EXCEPT ![w] = "Returned"]
  /\ outcome' = [outcome EXCEPT ![w] = o]
  /\ sink' = [sink EXCEPT ![w] = @ \o events]
  /\ UNCHANGED <<request, verdict, answer, spawned, cancels, handles, finished,
                 totals, cancelled>>

(* RecordedTaskJob emits one progress event and returns what the sink said.*)
RecordedReturns(w) ==
  /\ request[w].job = "Recorded"
  /\ \/ Returned(w, "Ok", <<"Job">>)
     \/ MayRefuse(w) /\ Returned(w, "Failed", <<>>)

(* CancelledTaskJob reports cancellation without asking for it;            *)
(* FailingTaskJob fails; another job returns, fails or panics as it likes. *)
JobReturns(w, o) ==
  /\ \/ request[w].job = "Cancelled" /\ o = "Cancelled"
     \/ request[w].job = "Failing" /\ o = "Failed"
     \/ request[w].job = "Other"
  /\ Returned(w, o, <<>>)

JobEvents(w) == {i \in DOMAIN sink[w] : sink[w][i] = "Job"}

(* Another job emits through its context, also later if it handed it on.   *)
EmitJobEvent(w) ==
  /\ request[w].job = "Other"
  /\ phase[w] = "Running" \/ (w \in Leaky /\ phase[w] # "New")
  /\ Cardinality(JobEvents(w)) < MaxJobEvents
  /\ sink' = [sink EXCEPT ![w] = Append(@, "Job")]
  /\ UNCHANGED <<request, phase, outcome, verdict, answer, spawned, cancels,
                 handles, finished, totals, cancelled>>

(* Mutant: cancellation claimed by policy alone.                           *)
MapByPolicy(policy, wasRequested, o) ==
  CASE o = "Ok" -> IF policy = "NonAbortableReportCancelling"
                     THEN "FinishedAfterCancel" ELSE "Completed"
    [] o = "Cancelled" -> "Cancelled"
    [] OTHER -> IF wasRequested THEN "FailedToCancel" ELSE "Failed"

(* map_terminal_outcome *)
MapTerminalOutcome(policy, wasRequested, o) ==
  CASE o = "Ok" -> IF wasRequested /\ policy = "NonAbortableReportCancelling"
                     THEN "FinishedAfterCancel" ELSE "Completed"
    [] o = "Cancelled" -> "Cancelled"
    [] OTHER -> IF wasRequested THEN "FailedToCancel" ELSE "Failed"

(* The flag is read here, once, whatever the outcome.                      *)
MapOutcome(w) ==
  /\ phase[w] = "Returned"
  /\ phase' = [phase EXCEPT ![w] = "Mapped"]
  /\ verdict' = [verdict EXCEPT ![w] =
       MapTerminalOutcome(request[w].blocking, cancelled[TokenOf(w)], outcome[w])]
  /\ UNCHANGED <<request, outcome, answer, spawned, cancels, handles, finished,
                 totals, sink, cancelled>>

(* emit_terminal: a failure is explained first ...                         *)
ExplainAccepted(w) ==
  /\ phase[w] = "Mapped" /\ verdict[w] \in Failures
  /\ phase' = [phase EXCEPT ![w] = "Explained"]
  /\ sink' = [sink EXCEPT ![w] = Append(@, "Diagnostic")]
  /\ UNCHANGED <<request, outcome, verdict, answer, spawned, cancels, handles,
                 finished, totals, cancelled>>

(* ... and if that is refused, spawn fails with nothing counted.           *)
ExplainRefused(w) ==
  /\ phase[w] = "Mapped" /\ verdict[w] \in Failures /\ MayRefuse(w)
  /\ phase' = [phase EXCEPT ![w] = "Unexplained"]
  /\ answer' = [answer EXCEPT ![w] = "SinkFailed"]
  /\ UNCHANGED <<request, outcome, verdict, spawned, cancels, handles, finished,
                 totals, sink, cancelled>>

(* Then the report's counter goes up, before the terminal event is tried.  *)
Count(w) ==
  /\ \/ phase[w] = "Explained"
     \/ phase[w] = "Mapped" /\ verdict[w] \notin Failures
  /\ phase' = [phase EXCEPT ![w] = "Done"]
  /\ finished' = [finished EXCEPT ![verdict[w]] = @ + 1]

(* Mutants: the flag set regardless, a refusal hidden from the caller.      *)
RefusedTerminal(w) ==
  /\ Count(w) /\ MayRefuse(w)
  /\ answer' = [answer EXCEPT ![w] = "SinkFailed"]
  /\ handles' = [handles EXCEPT ![request[w].handle].terminal = TRUE]
  /\ UNCHANGED <<request, outcome, verdict, spawned, cancels, totals, sink,
                 cancelled>>

RefusedHidden(w) ==
  /\ Count(w) /\ MayRefuse(w)
  /\ answer' = [answer EXCEPT ![w] = "Ok"]
  /\ handles' = [handles EXCEPT ![request[w].handle].terminal = TRUE]
  /\ UNCHANGED <<request, outcome, verdict, spawned, cancels, totals, sink,
                 cancelled>>

(* The terminal event is accepted: the entry becomes terminal, spawn Ok.   *)
TerminalAccepted(w) ==
  /\ Count(w)
  /\ sink' = [sink EXCEPT ![w] = Append(@, verdict[w])]
  /\ handles' = [handles EXCEPT ![request[w].handle].terminal = TRUE]
  /\ answer' = [answer EXCEPT ![w] = "Ok"]
  /\ UNCHANGED <<request, outcome, verdict, spawned, cancels, totals, cancelled>>

(* It is refused: spawn fails, counted all the same, the entry stays.      *)
TerminalRefused(w) ==
  /\ Count(w) /\ MayRefuse(w)
  /\ answer' = [answer EXCEPT ![w] = "SinkFailed"]
  /\ UNCHANGED <<request, outcome, verdict, spawned, cancels, handles, totals,
                 sink, cancelled>>

(* cancel: logged and passed to the token whether or not the entry is      *)
(* terminal; only the answer (an error if it is) tells the two apart.      *)
Cancel(h) ==
  /\ Callable /\ handles[h].owner # NoWork /\ Len(cancels) < MaxCancels
  /\ cancels' = Append(cancels, h)
  /\ cancelled' = [cancelled EXCEPT ![TokenOf(handles[h].owner)] = TRUE]
  /\ UNCHANGED <<request, phase, outcome, verdict, answer, spawned, handles,
                 finished, totals, sink>>

(* Mutant: the report handed over is also kept, being Copy.                *)
DrainKeepsReport ==
  /\ Callable
  /\ totals' = [k \in Verdicts |-> totals[k] + finished[k]]
  /\ UNCHANGED <<request, phase, outcome, verdict, answer, spawned, cancels,
                 handles, finished, sink, cancelled>>

(* drain_finished hands the report over and starts another.                *)
DrainFinished ==
  /\ Callable
  /\ totals' = [k \in Verdicts |-> totals[k] + finished[k]]
  /\ finished' = Zero
  /\ UNCHANGED <<request, phase, outcome, verdict, answer, spawned, cancels,
                 handles, sink, cancelled>>

TokenCancel(t) ==
  /\ cancelled' = [cancelled EXCEPT ![t] = TRUE]
  /\ UNCHANGED <<request, phase, outcome, verdict, answer, spawned, cancels,
                 handles, finished, totals, sink>>

(* What spawn does by itself once the job is over.                         *)
Settling(w) ==
  \/ MapOutcome(w)
  \/ ExplainAccepted(w) \/ ExplainRefused(w)
  \/ TerminalAccepted(w) \/ TerminalRefused(w)

Next ==
  \/ \E w \in Work :
       \/ Spawn(w)
       \/ RecordedReturns(w)
       \/ \E o \in Outcomes : JobReturns(w, o)
       \/ EmitJobEvent(w)
       \/ Settling(w)
  \/ \E h \in Handles : Cancel(h)
  \/ DrainFinished
  \/ \E t \in Tokens : TokenCancel(t)

Spec == Init /\ [][Next]_vars
-----------------------------------------------------------------------------
Terminals(w) == {i \in DOMAIN sink[w] : sink[w][i] \in Verdicts}

(* What spawn answers is true of the sink: Ok if the one terminal event,   *)
(* the counted one, is in it, an error if none is, whichever of the        *)
(* diagnostic, the terminal event and the job's own events is refused; and *)
(* no spawn on the recording sink fails (testing.rs:299-313, 490-536).     *)
AnswerMatchesSink ==
  \A w \in Work :
    /\ answer[w] = "Ok" => \E i \in Terminals(w) : Terminals(w) = {i} /\ sink[w][i] = verdict[w]
    /\ answer[w] # "Ok" => Terminals(w) = {}
    /\ answer[w] = "SinkFailed" => MayRefuse(w)

(* Between calls no work runs, so cancel answers Ok, for a non-terminal    *)
(* entry, exactly where the spawn that made the entry failed on its sink   *)
(* (282-288, 309-311, 349-369), also when a later spawn reuses the handle. *)
EntryMatchesAnswer ==
  Callable =>
    \A h \in Handles : handles[h].owner # NoWork =>
      /\ request[handles[h].owner].handle = h
      /\ handles[h].terminal <=> answer[handles[h].owner] = "Ok"

(* The mapping to what every executor promises: work is accepted when      *)
(* nothing can keep it from being counted any more, refused when its       *)
(* diagnostic was.                                                         *)
Stage ==
  [w \in Work |->
     CASE phase[w] \in {"New", "Running", "Returned"} -> "New"
       [] phase[w] = "Mapped" -> IF verdict[w] \in Failures THEN "New" ELSE "Live"
       [] phase[w] = "Explained" -> "Live"
       [] phase[w] = "Done" -> "Settled"
       [] OTHER -> "Refused"]

GivenVerdict == [w \in Work |-> IF phase[w] = "Done" THEN verdict[w] ELSE "None"]

Counted == [k \in Verdicts |-> totals[k] + finished[k]]

Contract ==
  INSTANCE ExecutorContract WITH
    token <- [w \in Work |-> TokenOf(w)],
    stage <- Stage,
    verdict <- GivenVerdict,
    counted <- Counted

CountedAs(k) == {w \in Work : GivenVerdict[w] = k}

(* Reports conserve spawns: what all drains returned, with the report      *)
(* being filled, counts each spawn that got as far as its terminal event   *)
(* once, under its verdict, whether the sink took the event or not, and no *)
(* spawn that failed before it (testing.rs:299-313, 371-375, 507-527).     *)
CountsAdd == \A k \in Verdicts : Counted[k] = Cardinality(CountedAs(k))

(* The fake keeps the contract the Tokio executor keeps: tests that pass   *)
(* on it rely on nothing else.                                             *)
ImplementsContract == Contract!Spec
=============================================================================
