-------------------------- MODULE TokioExecutor_proofs --------------------------
(***************************************************************************)
(* Proofs about TokioExecutor, for any work, handles, tokens and requests. *)
(*                                                                         *)
(* The inductive invariant IInv joins four parts.  ChannelExact and        *)
(* ActiveCoherent are inductive given each other's view of the phases.     *)
(* TruthfulVerdict is not: it speaks of settled work only, and needs       *)
(* FlagsFollow, which follows the flag from the end of the job through the *)
(* monitor's copy to the verdict.  TerminalOnce needs that a verdict does  *)
(* not change once given, which the phases supply.                         *)
(***************************************************************************)
EXTENDS TokioExecutor, FiniteSetTheorems, SequenceTheorems, TLAPS

(* From the end of the job on, the copies of the flag agree in order: what *)
(* was set early is in the monitor's copy, what is in a copy is set.       *)
FlagsFollow ==
  \A w \in Work :
    /\ early[w] \/ requested[w] => cancelled[TokenOf(w)]
    /\ early[w] /\ phase[w] \in {"Observed", "Sent", "Emitted"} => requested[w]

(* Between two drains nothing is left in a report. *)
ReportIdle == ~draining => report = Zero

IInv == TypeOK /\ ChannelExact /\ ActiveCoherent /\ FlagsFollow /\ TerminalOnce /\ ReportIdle

-----------------------------------------------------------------------------
LEMMA RequestType ==
  ASSUME TypeOK, NEW w \in Work
  PROVE  /\ request[w] \in Requests
         /\ request[w].handle \in Handles
         /\ TokenOf(w) \in Tokens
  BY AssignmentsAssumption DEF TypeOK, Requests, TokenOf

LEMMA VerdictType == \A w \in Work : Verdict(w) \in Verdicts
  BY DEF Verdict, MapTerminalOutcome, Verdicts

(* What a sink accepts of a verdict: the verdict last, if at all. *)
LEMMA AcceptedEvents ==
  ASSUME NEW k \in Verdicts, NEW events \in Accepted(k)
  PROVE  /\ events \in Seq(Events)
         /\ \A i \in DOMAIN events : events[i] \in Verdicts => i = Len(events) /\ events[i] = k
<1> USE DEF Events, Verdicts
<1>1. CASE events = <<>>
  BY <1>1
<1>2. CASE events = <<k>>
  BY <1>2
<1>3. CASE events = <<"Diagnostic">>
  BY <1>3
<1>4. CASE events = <<"Diagnostic", k>>
  BY <1>4
<1> QED
  BY <1>1, <1>2, <1>3, <1>4 DEF Accepted

LEMMA InitType == Init => TypeOK
<1> SUFFICES ASSUME Init PROVE TypeOK
  OBVIOUS
<1>1. completed \in Seq(Work) /\ sink \in [Work -> Seq(Events)]
  BY EmptySeq DEF Init
<1>2. report \in [Verdicts -> Nat] /\ totals \in [Verdicts -> Nat]
  BY DEF Init, Zero
<1> QED
  BY <1>1, <1>2 DEF Init, TypeOK, Phases

LEMMA NextType == TypeOK /\ [Next]_vars => TypeOK'
<1> SUFFICES ASSUME TypeOK, [Next]_vars PROVE TypeOK'
  OBVIOUS
<1> USE DEF TypeOK
<1>1. ASSUME NEW w \in Work, NEW mode \in {"Async", "Blocking"}, Spawn(w, mode) PROVE TypeOK'
  BY <1>1, RequestType DEF Spawn, Phases
<1>2. ASSUME NEW w \in Work, NEW mode \in {"Async", "Blocking"}, RejectSpawn(w, mode) PROVE TypeOK'
  BY <1>2 DEF RejectSpawn, Phases
<1>3. ASSUME NEW h \in Handles, Cancel(h) PROVE TypeOK'
  BY <1>3 DEF Cancel
<1>4. CASE BeginDrain
  BY <1>4 DEF BeginDrain, Zero
<1>5. CASE DrainOne
  <2>1. Head(completed) \in Work /\ Tail(completed) \in Seq(Work)
    BY <1>5 DEF DrainOne
  <2> DEFINE w == Head(completed)
  <2>2. Verdict(w) \in Verdicts
    BY <2>1, VerdictType
  <2>3. PICK events \in Accepted(Verdict(w)) : sink' = [sink EXCEPT ![w] = @ \o events]
    BY <1>5 DEF DrainOne
  <2>4. sink' \in [Work -> Seq(Events)]
    <3>1. events \in Seq(Events)
      BY <2>2, <2>3, AcceptedEvents
    <3> QED
      BY <2>1, <2>3, <3>1
  <2>5. report' \in [Verdicts -> Nat]
    BY <1>5, <2>2 DEF DrainOne, Increment
  <2> QED
    BY <1>5, <2>1, <2>4, <2>5 DEF DrainOne, Phases
<1>6. CASE EndDrain
  <2>1. totals' \in [Verdicts -> Nat]
    BY <1>6 DEF EndDrain
  <2>2. report' \in [Verdicts -> Nat]
    BY <1>6 DEF EndDrain, Zero
  <2> QED
    BY <1>6, <2>1, <2>2 DEF EndDrain
<1>7. CASE Shutdown
  <2>1. completed' \in Seq(Work)
    BY <1>7, EmptySeq DEF Shutdown
  <2>2. phase' \in [Work -> Phases]
    BY <1>7 DEF Shutdown, Phases
  <2> QED
    BY <1>7, <2>1, <2>2 DEF Shutdown
<1>8. ASSUME NEW w \in Work, EmitJobEvent(w) PROVE TypeOK'
  BY <1>8 DEF EmitJobEvent, Events
<1>9. ASSUME NEW w \in Work, NEW o \in Outcomes, JobReturns(w, o) PROVE TypeOK'
  BY <1>9, RequestType DEF JobReturns, Phases, Outcomes
<1>10. ASSUME NEW w \in Work, MonitorReads(w) PROVE TypeOK'
  BY <1>10, RequestType DEF MonitorReads, Phases
<1>11. ASSUME NEW w \in Work, MonitorSends(w) PROVE TypeOK'
  BY <1>11 DEF MonitorSends, Phases
<1>12. ASSUME NEW t \in Tokens, TokenCancel(t) PROVE TypeOK'
  BY <1>12 DEF TokenCancel
<1>13. CASE UNCHANGED vars
  BY <1>13 DEF vars
<1> QED
  BY <1>1, <1>2, <1>3, <1>4, <1>5, <1>6, <1>7, <1>8, <1>9, <1>10, <1>11, <1>12, <1>13
     DEF Next, CallerNext, RuntimeNext

(* Every variable of the executor keeps its type.                          *)
THEOREM TypeCorrect == Spec => []TypeOK
  BY InitType, NextType, PTL DEF Spec

-----------------------------------------------------------------------------
(* A step that leaves the channel alone and moves no work into or out of   *)
(* phase Sent.                                                             *)
LEMMA ChannelFrame ==
  ASSUME TypeOK, ChannelExact, completed' = completed,
         \A w \in Work : phase'[w] = "Sent" <=> phase[w] = "Sent"
  PROVE  ChannelExact'
<1>1. \A i \in DOMAIN completed : completed[i] \in Work
  BY ElementOfSeq, LenProperties DEF TypeOK
<1> QED
  BY <1>1 DEF ChannelExact

LEMMA SendKeepsChannel ==
  ASSUME TypeOK, ChannelExact, NEW w \in Work, MonitorSends(w)
  PROVE  ChannelExact'
<1> DEFINE n == Len(completed)
<1>1. /\ n \in Nat /\ DOMAIN completed = 1..n
      /\ \A i \in 1..n : completed[i] \in Work
  BY ElementOfSeq, LenProperties DEF TypeOK
<1>2. /\ DOMAIN completed' = 1..(n + 1)
      /\ \A i \in 1..n : completed'[i] = completed[i]
      /\ completed'[n + 1] = w
  BY <1>1, AppendProperties, LenProperties DEF MonitorSends, TypeOK
<1>3. phase[w] = "Observed" /\ phase' = [phase EXCEPT ![w] = "Sent"]
  BY DEF MonitorSends
<1>4. \A i \in 1..n : completed[i] # w /\ phase[completed[i]] = "Sent"
  BY <1>1, <1>3 DEF ChannelExact
<1>5. \A i \in DOMAIN completed' : phase'[completed'[i]] = "Sent"
  <2> SUFFICES ASSUME NEW i \in DOMAIN completed' PROVE phase'[completed'[i]] = "Sent"
    OBVIOUS
  <2>1. phase'[w] = "Sent" /\ \A v \in Work : v # w => phase'[v] = phase[v]
    BY <1>3 DEF TypeOK
  <2>2. CASE i = n + 1
    BY <1>2, <2>1, <2>2
  <2>3. CASE i \in 1..n
    BY <1>1, <1>2, <1>4, <2>1, <2>3
  <2> QED
    BY <1>1, <1>2, <2>2, <2>3
<1>6. \A i, j \in DOMAIN completed' : completed'[i] = completed'[j] => i = j
  BY <1>1, <1>2, <1>4 DEF ChannelExact
<1>7. ASSUME NEW v \in Work, phase'[v] = "Sent"
      PROVE \E i \in DOMAIN completed' : completed'[i] = v
  <2>1. CASE v = w
    BY <1>1, <1>2, <2>1
  <2>2. CASE v # w
    <3>1. PICK i \in 1..n : completed[i] = v
      BY <1>1, <1>3, <1>7, <2>2 DEF ChannelExact, TypeOK
    <3> QED
      BY <1>1, <1>2, <3>1
  <2> QED
    BY <2>1, <2>2
<1> QED
  BY <1>5, <1>6, <1>7 DEF ChannelExact

(* What drain_finished takes off the channel is work that was sent and is  *)
(* on it nowhere else.                                                     *)
LEMMA DrainTakes ==
  ASSUME TypeOK, ChannelExact, DrainOne
  PROVE  /\ Head(completed) \in Work
         /\ phase[Head(completed)] = "Sent"
         /\ phase' = [phase EXCEPT ![Head(completed)] = "Emitted"]
         /\ active' = [active EXCEPT ![request[Head(completed)].handle] = NoWork]
         /\ Len(completed) \in Nat \ {0} /\ completed[1] = Head(completed)
         /\ DOMAIN completed = 1..Len(completed)
         /\ DOMAIN completed' = 1..(Len(completed) - 1)
         /\ \A i \in DOMAIN completed' : completed'[i] = completed[i + 1]
<1>1. completed \in Seq(Work) /\ completed # <<>> /\ completed' = Tail(completed)
  BY DEF TypeOK, DrainOne
<1>2. Len(completed) \in Nat \ {0} /\ DOMAIN completed = 1..Len(completed)
  BY <1>1, EmptySeq, LenProperties
<1>3. /\ Head(completed) \in Work
      /\ Tail(completed) \in Seq(Work)
      /\ Len(Tail(completed)) = Len(completed) - 1
      /\ \A i \in 1..Len(Tail(completed)) : Tail(completed)[i] = completed[i + 1]
  BY <1>1, HeadTailProperties
<1>4. completed[1] = Head(completed)
  BY <1>1, <1>2
<1>5. phase[Head(completed)] = "Sent"
  BY <1>2, <1>4 DEF ChannelExact
<1>6. DOMAIN completed' = 1..(Len(completed) - 1)
  BY <1>1, <1>3, LenProperties
<1> QED
  BY <1>1, <1>2, <1>3, <1>4, <1>5, <1>6 DEF DrainOne

LEMMA DrainKeepsChannel ==
  ASSUME TypeOK, ChannelExact, DrainOne
  PROVE  ChannelExact'
<1> DEFINE w == Head(completed)
           n == Len(completed)
<1>1. /\ w \in Work /\ phase[w] = "Sent" /\ phase' = [phase EXCEPT ![w] = "Emitted"]
      /\ n \in Nat \ {0} /\ completed[1] = w
      /\ DOMAIN completed = 1..n /\ DOMAIN completed' = 1..(n - 1)
      /\ \A i \in DOMAIN completed' : completed'[i] = completed[i + 1]
  BY DrainTakes
<1>2. \A i \in 1..n : completed[i] \in Work
  BY <1>1, ElementOfSeq DEF TypeOK
<1> HIDE DEF w, n
<1>3. \A i \in DOMAIN completed' : completed'[i] # w
  BY <1>1 DEF ChannelExact
<1>4. ASSUME NEW i \in DOMAIN completed'
      PROVE  phase'[completed'[i]] = "Sent"
  <2>1. i + 1 \in 1..n /\ completed'[i] = completed[i + 1]
    BY <1>1
  <2>2. phase[completed[i + 1]] = "Sent"
    BY <1>1, <2>1 DEF ChannelExact
  <2>3. completed'[i] \in Work /\ completed'[i] # w
    BY <1>2, <1>3, <2>1
  <2> QED
    BY <1>1, <2>1, <2>2, <2>3 DEF TypeOK
<1>5. \A i, j \in DOMAIN completed' : completed'[i] = completed'[j] => i = j
  BY <1>1 DEF ChannelExact
<1>6. ASSUME NEW v \in Work, phase'[v] = "Sent"
      PROVE \E i \in DOMAIN completed' : completed'[i] = v
  <2>1. v # w /\ phase[v] = "Sent"
    BY <1>1, <1>6 DEF TypeOK
  <2>2. PICK i \in 1..n : completed[i] = v
    BY <1>1, <2>1 DEF ChannelExact
  <2>3. i # 1 /\ i - 1 \in DOMAIN completed' /\ completed'[i - 1] = completed[i]
    BY <1>1, <2>1, <2>2
  <2> QED
    BY <2>2, <2>3
<1> QED
  BY <1>4, <1>5, <1>6 DEF ChannelExact

LEMMA NextChannel == TypeOK /\ ChannelExact /\ [Next]_vars => ChannelExact'
<1> SUFFICES ASSUME TypeOK, ChannelExact, [Next]_vars PROVE ChannelExact'
  OBVIOUS
<1>1. ASSUME NEW w \in Work, NEW mode \in {"Async", "Blocking"},
             Spawn(w, mode) \/ RejectSpawn(w, mode)
      PROVE ChannelExact'
  BY <1>1, ChannelFrame DEF Spawn, RejectSpawn, TypeOK
<1>2. ASSUME NEW h \in Handles, Cancel(h) PROVE ChannelExact'
  BY <1>2, ChannelFrame DEF Cancel
<1>3. CASE BeginDrain \/ EndDrain
  BY <1>3, ChannelFrame DEF BeginDrain, EndDrain
<1>4. CASE DrainOne
  BY <1>4, DrainKeepsChannel
<1>5. CASE Shutdown
  <2>1. DOMAIN completed' = {}
    BY <1>5 DEF Shutdown
  <2>2. \A w \in Work : phase'[w] # "Sent"
    BY <1>5 DEF Shutdown
  <2> QED
    BY <2>1, <2>2 DEF ChannelExact
<1>6. ASSUME NEW w \in Work, EmitJobEvent(w) PROVE ChannelExact'
  BY <1>6, ChannelFrame DEF EmitJobEvent
<1>7. ASSUME NEW w \in Work, NEW o \in Outcomes, JobReturns(w, o) PROVE ChannelExact'
  BY <1>7, ChannelFrame DEF JobReturns, TypeOK
<1>8. ASSUME NEW w \in Work, MonitorReads(w) PROVE ChannelExact'
  BY <1>8, ChannelFrame DEF MonitorReads, TypeOK
<1>9. ASSUME NEW w \in Work, MonitorSends(w) PROVE ChannelExact'
  BY <1>9, SendKeepsChannel
<1>10. ASSUME NEW t \in Tokens, TokenCancel(t) PROVE ChannelExact'
  BY <1>10, ChannelFrame DEF TokenCancel
<1>11. CASE UNCHANGED vars
  BY <1>11, ChannelFrame DEF vars
<1> QED
  BY <1>1, <1>2, <1>3, <1>4, <1>5, <1>6, <1>7, <1>8, <1>9, <1>10, <1>11
     DEF Next, CallerNext, RuntimeNext

-----------------------------------------------------------------------------
LEMMA NextActive == TypeOK /\ ChannelExact /\ ActiveCoherent /\ [Next]_vars => ActiveCoherent'
<1> SUFFICES ASSUME TypeOK, ChannelExact, ActiveCoherent, [Next]_vars PROVE ActiveCoherent'
  OBVIOUS
<1> USE NoWorkAssumption DEF TypeOK, ActiveCoherent, InFlight
<1>1. ASSUME NEW w \in Work, NEW mode \in {"Async", "Blocking"}, Spawn(w, mode)
      PROVE ActiveCoherent'
  BY <1>1, RequestType DEF Spawn
<1>2. ASSUME NEW w \in Work, NEW mode \in {"Async", "Blocking"}, RejectSpawn(w, mode)
      PROVE ActiveCoherent'
  BY <1>2 DEF RejectSpawn
<1>3. ASSUME NEW h \in Handles, Cancel(h) PROVE ActiveCoherent'
  BY <1>3 DEF Cancel
<1>4. CASE BeginDrain \/ EndDrain
  BY <1>4 DEF BeginDrain, EndDrain
<1>5. CASE DrainOne
  <2> DEFINE w == Head(completed)
  <2>1. /\ w \in Work /\ phase' = [phase EXCEPT ![w] = "Emitted"]
        /\ active' = [active EXCEPT ![request[w].handle] = NoWork]
        /\ request' = request
    BY <1>5, DrainTakes DEF DrainOne
  <2> HIDE DEF w
  <2>2. ASSUME NEW h \in Handles, active'[h] # NoWork
        PROVE active'[h] = active[h] /\ active[h] # w
    BY <2>1, <2>2
  <2> QED
    BY <2>1, <2>2
<1>6. CASE Shutdown
  BY <1>6 DEF Shutdown
<1>7. ASSUME NEW w \in Work, EmitJobEvent(w) PROVE ActiveCoherent'
  BY <1>7 DEF EmitJobEvent
<1>8. ASSUME NEW w \in Work, NEW o \in Outcomes, JobReturns(w, o) PROVE ActiveCoherent'
  BY <1>8 DEF JobReturns
<1>9. ASSUME NEW w \in Work, MonitorReads(w) PROVE ActiveCoherent'
  BY <1>9 DEF MonitorReads
<1>10. ASSUME NEW w \in Work, MonitorSends(w) PROVE ActiveCoherent'
  BY <1>10 DEF MonitorSends
<1>11. ASSUME NEW t \in Tokens, TokenCancel(t) PROVE ActiveCoherent'
  BY <1>11 DEF TokenCancel
<1>12. CASE UNCHANGED vars
  BY <1>12 DEF vars
<1> QED
  BY <1>1, <1>2, <1>3, <1>4, <1>5, <1>6, <1>7, <1>8, <1>9, <1>10, <1>11, <1>12
     DEF Next, CallerNext, RuntimeNext

LEMMA NextFlags == TypeOK /\ ChannelExact /\ FlagsFollow /\ [Next]_vars => FlagsFollow'
<1> SUFFICES ASSUME TypeOK, ChannelExact, FlagsFollow, [Next]_vars PROVE FlagsFollow'
  OBVIOUS
<1>0. \A w \in Work : TokenOf(w) \in Tokens
  BY RequestType
<1> USE DEF TypeOK, FlagsFollow, TokenOf
<1>1. ASSUME NEW w \in Work, NEW mode \in {"Async", "Blocking"},
             Spawn(w, mode) \/ RejectSpawn(w, mode)
      PROVE FlagsFollow'
  BY <1>1 DEF Spawn, RejectSpawn
<1>2. ASSUME NEW t \in Tokens, cancelled' = [cancelled EXCEPT ![t] = TRUE],
             UNCHANGED <<request, phase, requested, early>>
      PROVE FlagsFollow'
  BY <1>0, <1>2
<1>3. ASSUME NEW h \in Handles, Cancel(h) PROVE FlagsFollow'
  <2>1. TokenOf(active[h]) \in Tokens
    BY <1>0, <1>3 DEF Cancel
  <2> QED
    BY <1>2, <1>3, <2>1 DEF Cancel
<1>4. CASE BeginDrain \/ EndDrain
  BY <1>4 DEF BeginDrain, EndDrain
<1>5. CASE DrainOne
  <2> DEFINE w == Head(completed)
  <2>1. /\ w \in Work /\ phase[w] = "Sent" /\ phase' = [phase EXCEPT ![w] = "Emitted"]
        /\ UNCHANGED <<request, requested, cancelled, early>>
    BY <1>5, DrainTakes DEF DrainOne
  <2> HIDE DEF w
  <2> QED
    BY <2>1
<1>6. CASE Shutdown
  BY <1>6 DEF Shutdown
<1>7. ASSUME NEW w \in Work, EmitJobEvent(w) PROVE FlagsFollow'
  BY <1>7 DEF EmitJobEvent
<1>8. ASSUME NEW w \in Work, NEW o \in Outcomes, JobReturns(w, o) PROVE FlagsFollow'
  BY <1>0, <1>8 DEF JobReturns
<1>9. ASSUME NEW w \in Work, MonitorReads(w) PROVE FlagsFollow'
  BY <1>0, <1>9 DEF MonitorReads
<1>10. ASSUME NEW w \in Work, MonitorSends(w) PROVE FlagsFollow'
  BY <1>10 DEF MonitorSends
<1>11. ASSUME NEW t \in Tokens, TokenCancel(t) PROVE FlagsFollow'
  BY <1>2, <1>11 DEF TokenCancel
<1>12. CASE UNCHANGED vars
  BY <1>12 DEF vars
<1> QED
  BY <1>1, <1>3, <1>4, <1>5, <1>6, <1>7, <1>8, <1>9, <1>10, <1>11, <1>12
     DEF Next, CallerNext, RuntimeNext
-----------------------------------------------------------------------------
(* A verdict once given is not touched any more, and only DrainOne gives   *)
(* one: nothing else reaches a settled piece of work.                      *)
LEMMA VerdictStays ==
  ASSUME TypeOK, ChannelExact, [Next]_vars, NEW w \in Work
  PROVE  /\ phase[w] = "Emitted" => phase'[w] = "Emitted" /\ Verdict(w)' = Verdict(w)
         /\ phase[w] # "Emitted" /\ phase'[w] = "Emitted" => DrainOne /\ w = Head(completed)
         /\ sink'[w] = sink[w] \/ EmitJobEvent(w) \/ (DrainOne /\ w = Head(completed))
<1> USE DEF TypeOK, Verdict
<1>1. ASSUME NEW v \in Work, NEW mode \in {"Async", "Blocking"},
             Spawn(v, mode) \/ RejectSpawn(v, mode)
      PROVE  UNCHANGED sink /\ Verdict(w)' = Verdict(w) /\ (phase'[w] = "Emitted" <=> phase[w] = "Emitted")
  BY <1>1 DEF Spawn, RejectSpawn
<1>2. ASSUME NEW h \in Handles, Cancel(h)
      PROVE  UNCHANGED <<sink, phase>> /\ Verdict(w)' = Verdict(w)
  BY <1>2 DEF Cancel
<1>3. CASE BeginDrain \/ EndDrain
  BY <1>3 DEF BeginDrain, EndDrain
<1>4. CASE DrainOne
  <2> DEFINE v == Head(completed)
  <2>1. /\ v \in Work /\ phase[v] = "Sent" /\ phase' = [phase EXCEPT ![v] = "Emitted"]
        /\ UNCHANGED <<request, requested, outcome>>
        /\ \E events : sink' = [sink EXCEPT ![v] = @ \o events]
    BY <1>4, DrainTakes DEF DrainOne
  <2>2. w # v => sink'[w] = sink[w] /\ phase'[w] = phase[w]
    BY <2>1
  <2>3. Verdict(w)' = Verdict(w)
    BY <2>1
  <2> QED
    BY <1>4, <2>1, <2>2, <2>3
<1>5. CASE Shutdown
  BY <1>5 DEF Shutdown
<1>6. ASSUME NEW v \in Work, EmitJobEvent(v)
      PROVE  /\ Verdict(w)' = Verdict(w) /\ UNCHANGED phase
             /\ v # w => sink'[w] = sink[w]
  BY <1>6 DEF EmitJobEvent
<1>7. ASSUME NEW v \in Work, NEW o \in Outcomes, JobReturns(v, o)
      PROVE  /\ UNCHANGED sink /\ (phase'[w] = "Emitted" <=> phase[w] = "Emitted")
             /\ phase[w] = "Emitted" => Verdict(w)' = Verdict(w)
  BY <1>7 DEF JobReturns
<1>8. ASSUME NEW v \in Work, MonitorReads(v) \/ MonitorSends(v)
      PROVE  /\ UNCHANGED sink /\ (phase'[w] = "Emitted" <=> phase[w] = "Emitted")
             /\ phase[w] = "Emitted" => Verdict(w)' = Verdict(w)
  BY <1>8 DEF MonitorReads, MonitorSends
<1>9. ASSUME NEW t \in Tokens, TokenCancel(t)
      PROVE  UNCHANGED <<sink, phase>> /\ Verdict(w)' = Verdict(w)
  BY <1>9 DEF TokenCancel
<1>10. CASE UNCHANGED vars
  BY <1>10 DEF vars
<1> QED
  BY <1>1, <1>2, <1>3, <1>4, <1>5, <1>6, <1>7, <1>8, <1>9, <1>10
     DEF Next, CallerNext, RuntimeNext

LEMMA DrainKeepsOne ==
  ASSUME TypeOK, ChannelExact, TerminalOnce, DrainOne, NEW w \in Work, w = Head(completed)
  PROVE  OneTerminal(w)'
<1> DEFINE s == sink[w]
<1>1. /\ phase[w] = "Sent" /\ phase'[w] = "Emitted"
  BY DrainTakes DEF TypeOK
<1>2. Verdict(w) \in Verdicts /\ Verdict(w)' = Verdict(w)
  BY VerdictType DEF DrainOne, Verdict
<1>3. PICK events \in Accepted(Verdict(w)) : sink' = [sink EXCEPT ![w] = @ \o events]
  BY DEF DrainOne
<1>4. /\ events \in Seq(Events)
      /\ \A i \in DOMAIN events : events[i] \in Verdicts => i = Len(events) /\ events[i] = Verdict(w)
  BY <1>2, <1>3, AcceptedEvents
<1>5. s \in Seq(Events) /\ sink'[w] = s \o events
  BY <1>1, <1>3 DEF TypeOK
<1>6. \A i \in DOMAIN s : s[i] \notin Verdicts
  BY <1>1 DEF TerminalOnce, OneTerminal
<1>7. /\ DOMAIN s = 1..Len(s) /\ Len(s) \in Nat
      /\ DOMAIN events = 1..Len(events) /\ Len(events) \in Nat
      /\ DOMAIN sink'[w] = 1..(Len(s) + Len(events))
      /\ Len(sink'[w]) = Len(s) + Len(events)
      /\ \A i \in 1..(Len(s) + Len(events)) :
           sink'[w][i] = IF i <= Len(s) THEN s[i] ELSE events[i - Len(s)]
  BY <1>4, <1>5, ConcatProperties, LenProperties
<1> HIDE DEF s
<1>8. ASSUME NEW i \in DOMAIN sink'[w], sink'[w][i] \in Verdicts
      PROVE  i = Len(sink'[w]) /\ sink'[w][i] = Verdict(w)
  <2>1. ~(i <= Len(s))
    BY <1>6, <1>7, <1>8
  <2>2. i - Len(s) \in DOMAIN events /\ sink'[w][i] = events[i - Len(s)]
    BY <1>7, <1>8, <2>1
  <2>3. i - Len(s) = Len(events) /\ events[i - Len(s)] = Verdict(w)
    BY <1>4, <1>8, <2>2
  <2> QED
    BY <1>7, <1>8, <2>2, <2>3
<1> QED
  BY <1>1, <1>2, <1>8 DEF OneTerminal

LEMMA EmitKeepsOne ==
  ASSUME TypeOK, TypeOK', TerminalOnce, NEW w \in Work, EmitJobEvent(w)
  PROVE  OneTerminal(w)'
<1>1. /\ sink'[w] = Append(sink[w], "Job") /\ sink[w] \in Seq(Events)
      /\ phase' = phase /\ Verdict(w)' = Verdict(w)
  BY DEF EmitJobEvent, TypeOK, Verdict
<1>2. "Job" \in Events /\ "Job" \notin Verdicts
  BY DEF Events, Verdicts
<1>3. OneTerminal(w)
  BY DEF TerminalOnce
<1>4. /\ DOMAIN sink[w] = 1..Len(sink[w]) /\ Len(sink[w]) \in Nat
      /\ DOMAIN sink'[w] = 1..(Len(sink[w]) + 1)
      /\ \A i \in 1..Len(sink[w]) : sink'[w][i] = sink[w][i]
      /\ sink'[w][Len(sink[w]) + 1] = "Job"
  BY <1>1, <1>2, AppendProperties, LenProperties
<1>5. \A i \in DOMAIN sink'[w] : sink'[w][i] \in Verdicts =>
        i \in DOMAIN sink[w] /\ sink'[w][i] = sink[w][i]
  BY <1>2, <1>4
<1>6. ASSUME w \notin Leaky
      PROVE  \A i \in DOMAIN sink[w] : sink[w][i] \notin Verdicts
  BY <1>3, <1>6 DEF OneTerminal, EmitJobEvent
<1> QED
  BY <1>1, <1>3, <1>5, <1>6 DEF OneTerminal

LEMMA NextTerminal ==
  TypeOK /\ TypeOK' /\ ChannelExact /\ TerminalOnce /\ [Next]_vars => TerminalOnce'
<1> SUFFICES ASSUME TypeOK, TypeOK', ChannelExact, TerminalOnce, [Next]_vars, NEW w \in Work
             PROVE  OneTerminal(w)'
  BY DEF TerminalOnce, OneTerminal
<1>1. CASE DrainOne /\ w = Head(completed)
  BY <1>1, DrainKeepsOne
<1>2. CASE sink'[w] = sink[w]
  <2>1. OneTerminal(w)
    BY DEF TerminalOnce, OneTerminal
  <2>2. phase[w] = "Emitted" => phase'[w] = "Emitted" /\ Verdict(w)' = Verdict(w)
    BY VerdictStays
  <2> QED
    BY <1>2, <2>1, <2>2 DEF OneTerminal
<1>3. CASE EmitJobEvent(w)
  BY <1>3, EmitKeepsOne
<1> QED
  BY <1>1, <1>2, <1>3, VerdictStays

LEMMA NextReportIdle == ReportIdle /\ [Next]_vars => ReportIdle'
  BY DEF ReportIdle, Next, CallerNext, RuntimeNext, vars, Callable, Spawn, RejectSpawn, Cancel,
         BeginDrain, DrainOne, EndDrain, Shutdown, EmitJobEvent, JobReturns, MonitorReads,
         MonitorSends, TokenCancel, Zero
-----------------------------------------------------------------------------
LEMMA InitIInv == Init => IInv
<1> SUFFICES ASSUME Init PROVE IInv
  OBVIOUS
<1>1. TypeOK
  BY InitType
<1>2. ChannelExact
  BY DEF Init, ChannelExact
<1>3. ActiveCoherent /\ FlagsFollow
  BY DEF Init, ActiveCoherent, FlagsFollow
<1>4. TerminalOnce /\ ReportIdle
  BY DEF Init, TerminalOnce, OneTerminal, ReportIdle
<1> QED
  BY <1>1, <1>2, <1>3, <1>4 DEF IInv

LEMMA NextIInv == IInv /\ [Next]_vars => IInv'
  BY NextType, NextChannel, NextActive, NextFlags, NextTerminal, NextReportIdle DEF IInv

(* The inductive invariant holds in every behaviour of the executor.       *)
THEOREM Invariance == Spec => []IInv
  BY InitIInv, NextIInv, PTL DEF Spec

(* However sends and drains interleave, a finished piece of work is on the *)
(* completion channel exactly once until it is drained.                    *)
THEOREM ChannelIsExact == Spec => []ChannelExact
<1>1. IInv => ChannelExact
  BY DEF IInv
<1> QED
  BY <1>1, Invariance, PTL

(* cancel never reaches settled work, even when handles are reused.        *)
THEOREM ActiveIsCoherent == Spec => []ActiveCoherent
<1>1. IInv => ActiveCoherent
  BY DEF IInv
<1> QED
  BY <1>1, Invariance, PTL

(* A sink hears one terminal event at most, last, the counted verdict.     *)
THEOREM TerminalEventIsOne == Spec => []TerminalOnce
<1>1. IInv => TerminalOnce
  BY DEF IInv
<1> QED
  BY <1>1, Invariance, PTL

(* Cancellation truth, for any race of requests, jobs, monitors, drains.   *)
THEOREM VerdictsAreTruthful == Spec => []TruthfulVerdict
<1>1. IInv => TruthfulVerdict
  <2> SUFFICES ASSUME IInv, NEW w \in Work, phase[w] = "Emitted"
               PROVE  /\ Verdict(w) \in {"FailedToCancel", "FinishedAfterCancel"} => cancelled[TokenOf(w)]
                      /\ Verdict(w) = "FinishedAfterCancel" =>
                           request[w].blocking = "NonAbortableReportCancelling"
                      /\ early[w] => /\ Verdict(w) # "Failed"
                                     /\ request[w].blocking = "NonAbortableReportCancelling" =>
                                          Verdict(w) # "Completed"
    BY DEF TruthfulVerdict
  <2>1. (requested[w] => cancelled[TokenOf(w)]) /\ (early[w] => requested[w])
    BY DEF IInv, FlagsFollow
  <2> QED
    BY <2>1 DEF Verdict, MapTerminalOutcome
<1> QED
  BY <1>1, Invariance, PTL
-----------------------------------------------------------------------------
(* Only another request under its handle hides work from cancel: the entry *)
(* of the handle is the one of the work, or of a request that replaced it, *)
(* or it is gone with such a request when that was settled.                *)
HiddenByReuseOnly ==
  \A w \in Work : alive /\ phase[w] \in InFlight =>
    \/ active[request[w].handle] = w
    \/ \E v \in Work \ {w} :
         /\ request[v].handle = request[w].handle
         /\ active[request[w].handle] = v \/ phase[v] = "Emitted"

LEMMA NextHidden ==
  TypeOK /\ ChannelExact /\ HiddenByReuseOnly /\ [Next]_vars => HiddenByReuseOnly'
<1> SUFFICES ASSUME TypeOK, ChannelExact, HiddenByReuseOnly, [Next]_vars PROVE HiddenByReuseOnly'
  OBVIOUS
<1>0. \A w \in Work : request[w].handle \in Handles
  BY RequestType
<1> USE DEF TypeOK, HiddenByReuseOnly, InFlight
<1>1. ASSUME NEW w \in Work, NEW mode \in {"Async", "Blocking"}, Spawn(w, mode)
      PROVE HiddenByReuseOnly'
  BY <1>0, <1>1 DEF Spawn
<1>2. ASSUME NEW w \in Work, NEW mode \in {"Async", "Blocking"}, RejectSpawn(w, mode)
      PROVE HiddenByReuseOnly'
  BY <1>2 DEF RejectSpawn
<1>3. ASSUME NEW h \in Handles, Cancel(h) PROVE HiddenByReuseOnly'
  BY <1>3 DEF Cancel
<1>4. CASE BeginDrain \/ EndDrain
  BY <1>4 DEF BeginDrain, EndDrain
<1>5. CASE DrainOne
  <2> DEFINE w == Head(completed)
  <2>1. /\ w \in Work /\ phase' = [phase EXCEPT ![w] = "Emitted"]
        /\ active' = [active EXCEPT ![request[w].handle] = NoWork]
        /\ UNCHANGED <<request, alive>>
    BY <1>5, DrainTakes DEF DrainOne
  <2> HIDE DEF w
  <2> QED
    BY <1>0, <2>1
<1>6. CASE Shutdown
  BY <1>6 DEF Shutdown
<1>7. ASSUME NEW w \in Work, EmitJobEvent(w) PROVE HiddenByReuseOnly'
  BY <1>7 DEF EmitJobEvent
<1>8. ASSUME NEW w \in Work, NEW o \in Outcomes, JobReturns(w, o) PROVE HiddenByReuseOnly'
  BY <1>8 DEF JobReturns
<1>9. ASSUME NEW w \in Work, MonitorReads(w) PROVE HiddenByReuseOnly'
  BY <1>9 DEF MonitorReads
<1>10. ASSUME NEW w \in Work, MonitorSends(w) PROVE HiddenByReuseOnly'
  BY <1>10 DEF MonitorSends
<1>11. ASSUME NEW t \in Tokens, TokenCancel(t) PROVE HiddenByReuseOnly'
  BY <1>11 DEF TokenCancel
<1>12. CASE UNCHANGED vars
  BY <1>12 DEF vars
<1> QED
  BY <1>1, <1>2, <1>3, <1>4, <1>5, <1>6, <1>7, <1>8, <1>9, <1>10, <1>11, <1>12
     DEF Next, CallerNext, RuntimeNext

(* Whatever handles the requests carry, work that is not settled can be    *)
(* cancelled by its handle until another request under it is spawned: no   *)
(* rejection, drain or cancel of its own takes it out of the active map    *)
(* (runtime_tokio.rs:105, 137-144, 182-189).                               *)
THEOREM OnlyReuseHidesWork == Spec => []HiddenByReuseOnly
<1>1. Init => HiddenByReuseOnly
  BY DEF Init, HiddenByReuseOnly, InFlight
<1>2. IInv => TypeOK /\ ChannelExact
  BY DEF IInv
<1> QED
  BY <1>1, <1>2, NextHidden, Invariance, PTL DEF Spec

(* No two requests carry the same handle. *)
HandlesDistinct ==
  \A a \in Assignments : \A v, w \in Work : a[v].handle = a[w].handle => v = w

(* README: work "remains active until its runnable returns and the         *)
(* executor emits exactly one terminal lifecycle event", as long as no two *)
(* requests carry the same handle: there is no reuse to hide it.           *)
THEOREM WorkRemainsActive ==
  ASSUME HandlesDistinct
  PROVE  Spec => []RemainsActive
<1>1. TypeOK /\ HiddenByReuseOnly => RemainsActive
  BY DEF TypeOK, HiddenByReuseOnly, RemainsActive, HandlesDistinct
<1>2. IInv => TypeOK
  BY DEF IInv
<1> QED
  BY <1>1, <1>2, OnlyReuseHidesWork, Invariance, PTL
-----------------------------------------------------------------------------
(* The settled work the reports should count under a verdict. *)
SettledAs(k) == {w \in Work : phase[w] = "Emitted" /\ Verdict(w) = k}

LEMMA SettledFinite == \A k : IsFiniteSet(SettledAs(k)) /\ Cardinality(SettledAs(k)) \in Nat
  BY WorkAssumption, FS_Subset, FS_CardinalityType DEF SettledAs

LEMMA DrainCounts ==
  ASSUME TypeOK, ChannelExact, CountsAdd, DrainOne, [Next]_vars
  PROVE  CountsAdd'
<1> SUFFICES ASSUME NEW k \in Verdicts
             PROVE  totals'[k] + report'[k] = Cardinality(SettledAs(k)')
  BY DEF CountsAdd, SettledAs
<1> DEFINE w == Head(completed)
<1>1. w \in Work /\ phase[w] = "Sent" /\ phase' = [phase EXCEPT ![w] = "Emitted"]
  BY DrainTakes
<1>2. \A v \in Work : Verdict(v)' = Verdict(v)
  BY DEF DrainOne, Verdict
<1>3. /\ totals' = totals /\ report' = [report EXCEPT ![Verdict(w)] = @ + 1]
      /\ totals[k] \in Nat /\ report[k] \in Nat
      /\ totals[k] + report[k] = Cardinality(SettledAs(k))
  BY DEF DrainOne, Increment, TypeOK, CountsAdd, SettledAs
<1>4. w \notin SettledAs(k)
  BY <1>1 DEF SettledAs
<1>5. SettledAs(k)' = IF Verdict(w) = k THEN SettledAs(k) \cup {w} ELSE SettledAs(k)
  BY <1>1, <1>2 DEF SettledAs, TypeOK
<1> HIDE DEF w
<1>6. CASE Verdict(w) = k
  <2>1. report'[k] = report[k] + 1
    BY <1>3, <1>6 DEF TypeOK
  <2>2. Cardinality(SettledAs(k)') = Cardinality(SettledAs(k)) + 1
    BY <1>4, <1>5, <1>6, SettledFinite, FS_AddElement
  <2> QED
    BY <1>3, <2>1, <2>2
<1>7. CASE Verdict(w) # k
  <2>1. report'[k] = report[k]
    BY <1>3, <1>7 DEF TypeOK
  <2> QED
    BY <1>3, <1>5, <1>7, <2>1
<1> QED
  BY <1>6, <1>7

LEMMA NextCounts == IInv /\ CountsAdd /\ [Next]_vars => CountsAdd'
<1> SUFFICES ASSUME IInv, CountsAdd, [Next]_vars PROVE CountsAdd'
  OBVIOUS
<1>0. TypeOK /\ ChannelExact /\ ReportIdle
  BY DEF IInv
<1>1. CASE DrainOne
  BY <1>0, <1>1, DrainCounts
<1>2. CASE ~DrainOne
  <2>1. \A w \in Work : /\ phase'[w] = "Emitted" <=> phase[w] = "Emitted"
                        /\ phase[w] = "Emitted" => Verdict(w)' = Verdict(w)
    BY <1>0, <1>2, VerdictStays
  <2>2. \A k : SettledAs(k)' = SettledAs(k)
    BY <2>1 DEF SettledAs
  <2>3. ASSUME NEW k \in Verdicts PROVE totals'[k] + report'[k] = totals[k] + report[k]
    <3>1. CASE BeginDrain
      BY <1>0, <3>1 DEF BeginDrain, Callable, ReportIdle
    <3>2. CASE EndDrain
      BY <1>0, <3>2 DEF EndDrain, TypeOK, Zero
    <3>3. CASE UNCHANGED <<totals, report>>
      BY <3>3
    <3> QED
      BY <1>2, <3>1, <3>2, <3>3
         DEF Next, CallerNext, RuntimeNext, vars, Spawn, RejectSpawn, Cancel, Shutdown,
             EmitJobEvent, JobReturns, MonitorReads, MonitorSends, TokenCancel
  <2> QED
    BY <2>2, <2>3 DEF CountsAdd, SettledAs
<1> QED
  BY <1>1, <1>2

(* Reports conserve work, for any finite amount of it: across all drains   *)
(* every settled piece is counted once, under its verdict.                 *)
THEOREM ReportsConserveWork == Spec => []CountsAdd
<1>1. Init => CountsAdd
  <2> SUFFICES ASSUME Init, NEW k \in Verdicts
               PROVE  totals[k] + report[k] = Cardinality(SettledAs(k))
    BY DEF CountsAdd, SettledAs
  <2>1. SettledAs(k) = {}
    BY DEF Init, SettledAs
  <2>2. totals[k] = 0 /\ report[k] = 0
    BY DEF Init, Zero
  <2> QED
    BY <2>1, <2>2, FS_EmptySet
<1> QED
  BY <1>1, NextCounts, Invariance, PTL DEF Spec
-----------------------------------------------------------------------------
(* Steps that the contract does not see. *)
ContractStutter ==
  /\ UNCHANGED <<request, cancelled, Stage, GivenVerdict, Counted>>

LEMMA StutterRefines == ContractStutter => UNCHANGED Contract!vars
  BY DEF ContractStutter, Contract!vars, TokenOf

LEMMA InitRefines == TypeOK /\ Init => Contract!Init
<1> SUFFICES ASSUME TypeOK, Init PROVE Contract!Init
  OBVIOUS
<1>1. [w \in Work |-> TokenOf(w)] \in [Work -> Tokens]
  BY RequestType
<1>2. Stage = [w \in Work |-> "New"] /\ GivenVerdict = [w \in Work |-> "None"]
  BY DEF Init, Stage, GivenVerdict
<1>3. Counted = [k \in Verdicts |-> 0]
  BY DEF Init, Counted, Zero
<1> QED
  BY <1>1, <1>2, <1>3 DEF Init, Contract!Init, Contract!Verdicts, Verdicts

(* Settled work keeps its verdict and nothing but a drain gives one. *)
LEMMA GivenVerdictStays ==
  ASSUME TypeOK, ChannelExact, [Next]_vars, ~DrainOne
  PROVE  GivenVerdict' = GivenVerdict
  BY VerdictStays DEF GivenVerdict

LEMMA SpawnRefines ==
  ASSUME TypeOK, ChannelExact, NEW w \in Work, NEW mode \in {"Async", "Blocking"}, [Next]_vars,
         Spawn(w, mode) \/ RejectSpawn(w, mode)
  PROVE  Contract!Accept(w) \/ Contract!Refuse(w)
<1>1. UNCHANGED <<request, cancelled, Counted, GivenVerdict>>
  <2>1. ~DrainOne
    BY DEF Spawn, RejectSpawn, Callable, DrainOne
  <2> QED
    BY <2>1, GivenVerdictStays DEF Spawn, RejectSpawn, Counted
<1>2. Stage[w] = "New"
  BY DEF Spawn, RejectSpawn, Stage
<1>3. CASE Spawn(w, mode)
  <2>1. Stage' = [Stage EXCEPT ![w] = "Live"]
    BY <1>3 DEF Spawn, Stage, TypeOK
  <2> QED
    BY <1>1, <1>2, <2>1 DEF Contract!Accept, TokenOf
<1>4. CASE RejectSpawn(w, mode)
  <2>1. Stage' = [Stage EXCEPT ![w] = "Refused"]
    BY <1>4 DEF RejectSpawn, Stage, TypeOK
  <2> QED
    BY <1>1, <1>2, <2>1 DEF Contract!Refuse, TokenOf
<1> QED
  BY <1>3, <1>4

LEMMA CancelRefines ==
  ASSUME NEW t \in Tokens, cancelled' = [cancelled EXCEPT ![t] = TRUE],
         UNCHANGED <<request, phase, outcome, requested, report, totals>>
  PROVE  Contract!RequestCancel(t)
  BY DEF Contract!RequestCancel, Stage, GivenVerdict, Counted, Verdict, TokenOf

LEMMA DrainRefines ==
  ASSUME IInv, DrainOne, NEW w \in Work, w = Head(completed)
  PROVE  Contract!Settle(w, Verdict(w))
<1>0. TypeOK /\ ChannelExact /\ FlagsFollow
  BY DEF IInv
<1>1. /\ phase[w] = "Sent" /\ phase' = [phase EXCEPT ![w] = "Emitted"]
      /\ UNCHANGED <<request, requested, outcome, cancelled, totals>>
      /\ report' = [report EXCEPT ![Verdict(w)] = @ + 1]
  BY <1>0, DrainTakes DEF DrainOne, Increment
<1>2. \A v \in Work : Verdict(v)' = Verdict(v)
  BY <1>1 DEF Verdict
<1>3. Verdict(w) \in {"FailedToCancel", "FinishedAfterCancel"} => cancelled[TokenOf(w)]
  <2>1. requested[w] => cancelled[TokenOf(w)]
    BY <1>0 DEF FlagsFollow
  <2>2. Verdict(w) \in {"FailedToCancel", "FinishedAfterCancel"} => requested[w]
    BY DEF Verdict, MapTerminalOutcome
  <2> QED
    BY <2>1, <2>2
<1>4. Stage[w] = "Live" /\ Stage' = [Stage EXCEPT ![w] = "Settled"]
  BY <1>0, <1>1 DEF Stage, TypeOK
<1>5. GivenVerdict' = [GivenVerdict EXCEPT ![w] = Verdict(w)]
  BY <1>0, <1>1, <1>2 DEF GivenVerdict, TypeOK
<1>6. Counted' = [Counted EXCEPT ![Verdict(w)] = @ + 1]
  <2> DEFINE k == Verdict(w)
  <2>1. /\ k \in Verdicts /\ totals' = totals
        /\ report' = [report EXCEPT ![k] = @ + 1]
        /\ report \in [Verdicts -> Nat] /\ totals \in [Verdicts -> Nat]
    BY <1>0, <1>1, VerdictType DEF TypeOK
  <2> HIDE DEF k
  <2>2. \A j \in Verdicts : totals'[j] + report'[j] =
          IF j = k THEN totals[j] + report[j] + 1 ELSE totals[j] + report[j]
    BY <2>1
  <2>3. Counted' = [Counted EXCEPT ![k] = @ + 1]
    BY <2>1, <2>2 DEF Counted
  <2> QED
    BY <2>3 DEF k
<1> QED
  BY <1>1, <1>3, <1>4, <1>5, <1>6 DEF Contract!Settle, Contract!AfterRequest, TokenOf

LEMMA ShutdownRefines ==
  ASSUME TypeOK, ChannelExact, [Next]_vars, Shutdown
  PROVE  \E lost \in SUBSET Work : Contract!Drop(lost)
<1>1. PICK stopped \in SUBSET {w \in Work : phase[w] = "Running"} :
        phase' = [w \in Work |->
                    IF \/ phase[w] \in {"Returned", "Observed", "Sent"}
                       \/ w \in stopped
                    THEN "Abandoned" ELSE phase[w]]
  BY DEF Shutdown
<1> DEFINE lost == stopped \cup {w \in Work : phase[w] \in {"Returned", "Observed", "Sent"}}
<1>2. lost \in SUBSET Work /\ \A w \in lost : Stage[w] = "Live"
  <2>1. \A w \in lost : w \in Work /\ phase[w] \in InFlight
    BY <1>1 DEF InFlight
  <2> QED
    BY <2>1 DEF Stage, InFlight
<1>3. Stage' = [w \in Work |-> IF w \in lost THEN "Lost" ELSE Stage[w]]
  BY <1>1 DEF Stage
<1>4. UNCHANGED <<request, cancelled, Counted, GivenVerdict>>
  <2>1. ~DrainOne
    BY DEF Shutdown, Callable, DrainOne
  <2> QED
    BY <2>1, GivenVerdictStays DEF Shutdown, Counted
<1> QED
  BY <1>2, <1>3, <1>4 DEF Contract!Drop, TokenOf

LEMMA StepRefines == IInv /\ [Next]_vars => [Contract!Next]_(Contract!vars)
<1> SUFFICES ASSUME IInv, [Next]_vars PROVE Contract!Next \/ UNCHANGED Contract!vars
  OBVIOUS
<1>0. TypeOK /\ ChannelExact /\ ReportIdle /\ \A w \in Work : TokenOf(w) \in Tokens
  BY RequestType DEF IInv
<1>1. ASSUME NEW w \in Work, NEW mode \in {"Async", "Blocking"},
             Spawn(w, mode) \/ RejectSpawn(w, mode)
      PROVE Contract!Next
  BY <1>0, <1>1, SpawnRefines DEF Contract!Next
<1>2. ASSUME NEW h \in Handles, Cancel(h) PROVE Contract!Next
  <2>1. active[h] \in Work
    BY <1>0, <1>2 DEF Cancel, TypeOK
  <2>2. Contract!RequestCancel(TokenOf(active[h]))
    BY <1>0, <1>2, <2>1, CancelRefines DEF Cancel
  <2> QED
    BY <1>0, <2>1, <2>2 DEF Contract!Next
<1>3. ASSUME NEW t \in Tokens, TokenCancel(t) PROVE Contract!Next
  BY <1>3, CancelRefines DEF TokenCancel, Contract!Next
<1>4. CASE DrainOne
  <2>1. Head(completed) \in Work /\ Verdict(Head(completed)) \in Verdicts
    BY <1>0, <1>4, DrainTakes, VerdictType
  <2>2. Contract!Settle(Head(completed), Verdict(Head(completed)))
    BY <1>4, <2>1, DrainRefines
  <2> QED
    BY <2>1, <2>2 DEF Contract!Next, Contract!Verdicts, Verdicts
<1>5. CASE Shutdown
  BY <1>0, <1>5, ShutdownRefines DEF Contract!Next
<1>6. CASE BeginDrain \/ EndDrain
  <2>1. Counted' = Counted
    BY <1>0, <1>6 DEF BeginDrain, EndDrain, Callable, ReportIdle, Counted, TypeOK, Zero
  <2>2. UNCHANGED <<request, cancelled, Stage, GivenVerdict>>
    BY <1>6 DEF BeginDrain, EndDrain, Stage, GivenVerdict, Verdict
  <2> QED
    BY <2>1, <2>2, StutterRefines DEF ContractStutter
<1>7. ASSUME NEW w \in Work,
             \/ EmitJobEvent(w) \/ MonitorReads(w) \/ MonitorSends(w)
             \/ \E o \in Outcomes : JobReturns(w, o)
      PROVE UNCHANGED Contract!vars
  <2>1. UNCHANGED <<request, cancelled, Counted>> /\ ~DrainOne
    <3>1. UNCHANGED <<request, cancelled, totals, report>>
      BY <1>7 DEF EmitJobEvent, MonitorReads, MonitorSends, JobReturns
    <3>2. ~DrainOne
      <4>1. DrainOne => completed' = Tail(completed) /\ Len(completed') = Len(completed) - 1
        BY <1>0, HeadTailProperties DEF DrainOne, TypeOK
      <4>2. completed' = completed \/ completed' = Append(completed, w)
        BY <1>7 DEF EmitJobEvent, MonitorReads, MonitorSends, JobReturns
      <4> QED
        BY <1>0, <4>1, <4>2, AppendProperties, LenProperties DEF TypeOK
    <3> QED
      BY <3>1, <3>2 DEF Counted
  <2>2. UNCHANGED GivenVerdict
    BY <1>0, <2>1, GivenVerdictStays
  <2>3. UNCHANGED Stage
    BY <1>0, <1>7 DEF EmitJobEvent, MonitorReads, MonitorSends, JobReturns, Stage, TypeOK
  <2> QED
    BY <2>1, <2>2, <2>3, StutterRefines DEF ContractStutter
<1>8. CASE UNCHANGED vars
  <2>1. ContractStutter
    BY <1>8 DEF vars, ContractStutter, Stage, GivenVerdict, Counted, Verdict
  <2> QED
    BY <2>1, StutterRefines
<1> QED
  BY <1>1, <1>2, <1>3, <1>4, <1>5, <1>6, <1>7, <1>8 DEF Next, CallerNext, RuntimeNext

(* The Tokio executor implements the contract of every executor: one       *)
(* verdict for accepted work, counted with it, truthful about requests,    *)
(* and none lost but by dropping the executor.                             *)
THEOREM Refinement == Spec => ImplementsContract
<1>1. Init => Contract!Init
  BY InitRefines, InitType
<1> QED
  BY <1>1, StepRefines, Invariance, PTL DEF Spec, ImplementsContract, Contract!Spec
=============================================================================
