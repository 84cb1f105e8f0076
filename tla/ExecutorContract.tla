---------------------------- MODULE ExecutorContract ----------------------------
(***************************************************************************)
(* What any TaskExecutor (executor.rs:8-24) promises about the lifecycle   *)
(* of the work it accepts, whatever runs it: an accepted piece of work is  *)
(* settled at most once, by one terminal verdict that is counted once in   *)
(* the reports of drain_finished, a verdict that speaks of cancellation is *)
(* only given to work whose token was cancelled, and work is only lost     *)
(* when the executor itself goes away.                                     *)
(***************************************************************************)
EXTENDS Naturals

CONSTANTS Work,      \* spawn requests handed to the executor
          Tokens     \* cancellation tokens

VARIABLES
  token,      \* work -> the token of its request, which never changes
  stage,      \* work -> "New", "Refused", "Live", "Settled" or "Lost"
  verdict,    \* work -> the terminal verdict it was given, "None" before
  cancelled,  \* token -> whether cancellation was requested
  counted     \* verdict -> how many pieces of work the reports count under it

vars == <<token, stage, verdict, cancelled, counted>>

(* TaskLifecycleEvent's terminal variants, the counters of a report. *)
Verdicts == {"Completed", "Failed", "Cancelled", "FailedToCancel", "FinishedAfterCancel"}

(* The verdicts that claim somebody asked for cancellation. *)
AfterRequest == {"FailedToCancel", "FinishedAfterCancel"}

Init ==
  /\ token \in [Work -> Tokens]
  /\ stage = [w \in Work |-> "New"]
  /\ verdict = [w \in Work |-> "None"]
  /\ cancelled = [t \in Tokens |-> FALSE]
  /\ counted = [k \in Verdicts |-> 0]

Accept(w) ==
  /\ stage[w] = "New"
  /\ stage' = [stage EXCEPT ![w] = "Live"]
  /\ UNCHANGED <<token, verdict, cancelled, counted>>

Refuse(w) ==
  /\ stage[w] = "New"
  /\ stage' = [stage EXCEPT ![w] = "Refused"]
  /\ UNCHANGED <<token, verdict, cancelled, counted>>

RequestCancel(t) ==
  /\ cancelled' = [cancelled EXCEPT ![t] = TRUE]
  /\ UNCHANGED <<token, stage, verdict, counted>>

Settle(w, k) ==
  /\ stage[w] = "Live"
  /\ k \in AfterRequest => cancelled[token[w]]
  /\ stage' = [stage EXCEPT ![w] = "Settled"]
  /\ verdict' = [verdict EXCEPT ![w] = k]
  /\ counted' = [counted EXCEPT ![k] = @ + 1]
  /\ UNCHANGED <<token, cancelled>>

(* The executor is dropped: any of the work it holds may be lost with it. *)
Drop(lost) ==
  /\ \A w \in lost : stage[w] = "Live"
  /\ stage' = [w \in Work |-> IF w \in lost THEN "Lost" ELSE stage[w]]
  /\ UNCHANGED <<token, verdict, cancelled, counted>>

Next ==
  \/ \E w \in Work : Accept(w) \/ Refuse(w)
  \/ \E t \in Tokens : RequestCancel(t)
  \/ \E w \in Work, k \in Verdicts : Settle(w, k)
  \/ \E lost \in SUBSET Work : Drop(lost)

Spec == Init /\ [][Next]_vars
=============================================================================
