--------------------------- MODULE FakeExecutor_proofs ---------------------------
(***************************************************************************)
(* Proofs about FakeExecutor, for any finite work, handles, tokens and     *)
(* requests.  What spawn answers is tied to the sink and to the entry of   *)
(* the handle by the step the spawn is at (Steps), and by the fact that    *)
(* only one spawn is under way, which owns its entry (OneAtATime).         *)
(***************************************************************************)
EXTENDS FakeExecutor, FiniteSetTheorems, SequenceTheorems, TLAPS

Events == {"Job", "Diagnostic"} \cup Verdicts

Rest == {"New", "Done", "Unexplained"}

(* What is known at each step of a spawn.                                  *)
Steps ==
  \A w \in Work :
    /\ answer[w] = "None" <=> phase[w] \notin {"Done", "Unexplained"}
    /\ answer[w] = "SinkFailed" => MayRefuse(w)
    /\ answer[w] = "Ok" => phase[w] = "Done"
    /\ phase[w] \in {"Mapped", "Explained", "Done", "Unexplained"} <=> verdict[w] \in Verdicts
    /\ phase[w] \in {"Explained", "Unexplained"} => verdict[w] \in Failures
    /\ phase[w] = "Returned" => outcome[w] \in Outcomes

(* A spawn under way excludes others and is the owner of its entry.        *)
OneAtATime ==
  \A w \in Work : phase[w] \notin Rest =>
    /\ \A v \in Work : phase[v] \notin Rest => v = w
    /\ handles[request[w].handle].owner = w

Entries ==
  \A h \in Handles : handles[h].owner # NoWork =>
    /\ request[handles[h].owner].handle = h
    /\ handles[h].terminal <=> answer[handles[h].owner] = "Ok"

(* Cancellation is only claimed where somebody asked for it.               *)
Backed ==
  \A w \in Work :
    verdict[w] \in {"FailedToCancel", "FinishedAfterCancel"} => cancelled[TokenOf(w)]

IInv == TypeOK /\ Steps /\ OneAtATime /\ Entries /\ Backed /\ AnswerMatchesSink

-----------------------------------------------------------------------------
LEMMA RequestType ==
  ASSUME TypeOK, NEW w \in Work
  PROVE  request[w] \in Requests /\ request[w].handle \in Handles /\ TokenOf(w) \in Tokens
  BY AssignmentsAssumption DEF TypeOK, Requests, TokenOf

LEMMA MapType ==
  ASSUME NEW p, NEW f, NEW o
  PROVE  /\ MapTerminalOutcome(p, f, o) \in Verdicts
         /\ MapTerminalOutcome(p, f, o) \in {"FailedToCancel", "FinishedAfterCancel"} => f
<1>1. CASE o = "Ok"
  BY <1>1 DEF MapTerminalOutcome, Verdicts
<1>2. CASE o = "Cancelled"
  BY <1>2 DEF MapTerminalOutcome, Verdicts
<1>3. CASE o \notin {"Ok", "Cancelled"}
  BY <1>3 DEF MapTerminalOutcome, Verdicts
<1> QED
  BY <1>1, <1>2, <1>3

(* One more event in the sink of w: the others keep theirs, and w has one  *)
(* more terminal event if that is one.                                     *)
LEMMA SinkGrows ==
  ASSUME TypeOK, NEW w \in Work, NEW e \in Events, sink' = [sink EXCEPT ![w] = Append(@, e)]
  PROVE  /\ sink' \in [Work -> Seq(Events)]
         /\ \A v \in Work \ {w} : sink'[v] = sink[v]
         /\ \A i \in Terminals(w) : sink'[w][i] = sink[w][i]
         /\ sink'[w][Len(sink[w]) + 1] = e
         /\ Terminals(w)' = IF e \in Verdicts THEN Terminals(w) \cup {Len(sink[w]) + 1}
                                              ELSE Terminals(w)
<1>1. sink \in [Work -> Seq(Events)] /\ sink[w] \in Seq(Events)
  BY DEF TypeOK, Events
<1>2. sink'[w] = Append(sink[w], e) /\ \A v \in Work \ {w} : sink'[v] = sink[v]
  BY <1>1
<1>3. /\ Append(sink[w], e) \in Seq(Events)
      /\ Len(Append(sink[w], e)) = Len(sink[w]) + 1
      /\ \A i \in 1..Len(sink[w]) : Append(sink[w], e)[i] = sink[w][i]
      /\ Append(sink[w], e)[Len(sink[w]) + 1] = e
  BY <1>1, AppendProperties
<1>4. /\ Len(sink[w]) \in Nat /\ DOMAIN sink[w] = 1..Len(sink[w])
      /\ DOMAIN sink'[w] = 1..(Len(sink[w]) + 1)
  BY <1>1, <1>2, <1>3, LenProperties
<1>5. sink' \in [Work -> Seq(Events)]
  BY <1>1, <1>2, <1>3
<1>6. Terminals(w)' = IF e \in Verdicts THEN Terminals(w) \cup {Len(sink[w]) + 1} ELSE Terminals(w)
  BY <1>2, <1>3, <1>4 DEF Terminals
<1>7. \A i \in Terminals(w) : sink'[w][i] = sink[w][i]
  BY <1>2, <1>3, <1>4 DEF Terminals
<1> QED
  BY <1>2, <1>3, <1>5, <1>6, <1>7

(* An event that is not terminal leaves the promise of the answers alone.  *)
LEMMA OtherEvent ==
  ASSUME TypeOK, AnswerMatchesSink, UNCHANGED <<answer, verdict, request>>,
         NEW w \in Work, NEW e \in Events \ Verdicts, sink' = [sink EXCEPT ![w] = Append(@, e)]
  PROVE  AnswerMatchesSink'
<1>1. /\ \A v \in Work \ {w} : sink'[v] = sink[v]
      /\ \A i \in Terminals(w) : sink'[w][i] = sink[w][i]
      /\ Terminals(w)' = Terminals(w)
  BY SinkGrows
<1>2. \A v \in Work : Terminals(v)' = Terminals(v)
  BY <1>1 DEF Terminals
<1>3. \A v \in Work : \A i \in Terminals(v) : sink'[v][i] = sink[v][i]
  BY <1>1
<1> SUFFICES ASSUME NEW v \in Work
             PROVE  /\ answer[v] = "Ok" => \E i \in Terminals(v)' : Terminals(v)' = {i} /\ sink'[v][i] = verdict[v]
                    /\ answer[v] # "Ok" => Terminals(v)' = {}
                    /\ answer[v] = "SinkFailed" => MayRefuse(v)'
  BY DEF AnswerMatchesSink
<1>4. /\ answer[v] = "Ok" => \E i \in Terminals(v) : Terminals(v) = {i} /\ sink[v][i] = verdict[v]
      /\ answer[v] # "Ok" => Terminals(v) = {}
      /\ answer[v] = "SinkFailed" => MayRefuse(v)
  BY DEF AnswerMatchesSink
<1>5. MayRefuse(v)' <=> MayRefuse(v)
  BY DEF MayRefuse
<1> QED
  BY <1>2, <1>3, <1>4, <1>5

(* The end of a job: its sink has accepted one event more, or none.        *)
LEMMA ReturnedSink ==
  ASSUME TypeOK, NEW w \in Work, NEW o, NEW events, Returned(w, o, events),
         events = <<>> \/ events = <<"Job">>
  PROVE  sink' = sink \/ sink' = [sink EXCEPT ![w] = Append(@, "Job")]
<1>1. sink \in [Work -> Seq(Events)] /\ "Job" \in Events
  BY DEF TypeOK, Events
<1>2. sink[w] \o <<>> = sink[w] /\ sink[w] \o <<"Job">> = Append(sink[w], "Job")
  BY <1>1, ConcatEmptySeq, AppendIsConcat
<1>3. CASE events = <<>>
  <2>1. sink' = [sink EXCEPT ![w] = sink[w]]
    BY <1>2, <1>3 DEF Returned
  <2> QED
    BY <1>1, <2>1
<1>4. CASE events = <<"Job">>
  <2>1. sink' = [sink EXCEPT ![w] = Append(sink[w], "Job")]
    BY <1>2, <1>4 DEF Returned
  <2> QED
    BY <2>1
<1> QED
  BY <1>3, <1>4

LEMMA InitType == Init => TypeOK
<1> SUFFICES ASSUME Init PROVE TypeOK
  OBVIOUS
<1>1. /\ spawned \in Seq(Work) /\ cancels \in Seq(Handles)
      /\ sink \in [Work -> Seq({"Job", "Diagnostic"} \cup Verdicts)]
  BY EmptySeq DEF Init
<1>2. finished \in [Verdicts -> Nat] /\ totals \in [Verdicts -> Nat]
  BY DEF Init, Zero
<1> QED
  BY <1>1, <1>2 DEF Init, TypeOK, Phases

LEMMA InitIInv == Init => IInv
<1> SUFFICES ASSUME Init PROVE IInv
  OBVIOUS
<1>1. \A w \in Work : Terminals(w) = {}
  BY DEF Init, Terminals
<1>2. AnswerMatchesSink
  BY <1>1 DEF Init, AnswerMatchesSink
<1>3. Steps /\ OneAtATime /\ Entries /\ Backed
  BY DEF Init, Steps, OneAtATime, Entries, Backed, Rest, Verdicts
<1> QED
  BY <1>2, <1>3, InitType DEF IInv
-----------------------------------------------------------------------------
(* A terminal event is a verdict because only mapped work is settled.      *)
LEMMA NextType == TypeOK /\ Steps /\ [Next]_vars => TypeOK'
<1> SUFFICES ASSUME TypeOK, Steps, [Next]_vars PROVE TypeOK'
  OBVIOUS
<1>0. ASSUME NEW w \in Work, NEW e \in Events, sink' = [sink EXCEPT ![w] = Append(@, e)]
      PROVE  sink' \in [Work -> Seq({"Job", "Diagnostic"} \cup Verdicts)]
  BY <1>0, SinkGrows DEF Events
<1> USE DEF TypeOK
<1>1. ASSUME NEW w \in Work, Spawn(w) PROVE TypeOK'
  <2>1. spawned' \in Seq(Work)
    BY <1>1, AppendProperties DEF Spawn
  <2>2. handles' \in [Handles -> [owner : Work \cup {NoWork}, terminal : BOOLEAN]]
    BY <1>1, RequestType DEF Spawn
  <2> QED
    BY <1>1, <2>1, <2>2 DEF Spawn, Phases
<1>2. ASSUME NEW w \in Work, NEW o \in Outcomes, NEW events, Returned(w, o, events),
             events = <<>> \/ events = <<"Job">>
      PROVE  TypeOK'
  <2>1. sink' \in [Work -> Seq({"Job", "Diagnostic"} \cup Verdicts)]
    <3>1. CASE sink' = sink
      BY <3>1
    <3>2. CASE sink' = [sink EXCEPT ![w] = Append(@, "Job")]
      BY <1>0, <3>2 DEF Events
    <3> QED
      BY <1>2, <3>1, <3>2, ReturnedSink
  <2> QED
    BY <1>2, <2>1 DEF Returned, Phases
<1>3. ASSUME NEW w \in Work, EmitJobEvent(w) PROVE TypeOK'
  <2>1. sink' \in [Work -> Seq({"Job", "Diagnostic"} \cup Verdicts)]
    BY <1>0, <1>3 DEF EmitJobEvent, Events
  <2> QED
    BY <1>3, <2>1 DEF EmitJobEvent
<1>4. ASSUME NEW w \in Work, MapOutcome(w) PROVE TypeOK'
  <2>1. verdict' \in [Work -> Verdicts \cup {"None"}]
    BY <1>4, MapType DEF MapOutcome
  <2> QED
    BY <1>4, <2>1 DEF MapOutcome, Phases
<1>5. ASSUME NEW w \in Work, ExplainAccepted(w) PROVE TypeOK'
  <2>1. sink' \in [Work -> Seq({"Job", "Diagnostic"} \cup Verdicts)]
    BY <1>0, <1>5 DEF ExplainAccepted, Events
  <2> QED
    BY <1>5, <2>1 DEF ExplainAccepted, Phases
<1>6. ASSUME NEW w \in Work, ExplainRefused(w) PROVE TypeOK'
  BY <1>6 DEF ExplainRefused, Phases
<1>7. ASSUME NEW w \in Work, Count(w)
      PROVE  finished' \in [Verdicts -> Nat] /\ phase' \in [Work -> Phases]
  <2>1. verdict[w] \in Verdicts
    BY <1>7 DEF Count, Steps
  <2> QED
    BY <1>7, <2>1 DEF Count, Phases
<1>8. ASSUME NEW w \in Work, TerminalAccepted(w) PROVE TypeOK'
  <2>1. verdict[w] \in Events
    BY <1>8 DEF TerminalAccepted, Count, Steps, Events
  <2>2. sink' \in [Work -> Seq({"Job", "Diagnostic"} \cup Verdicts)]
    BY <1>0, <1>8, <2>1 DEF TerminalAccepted
  <2>3. handles' \in [Handles -> [owner : Work \cup {NoWork}, terminal : BOOLEAN]]
    BY <1>8, RequestType DEF TerminalAccepted
  <2> QED
    BY <1>7, <1>8, <2>2, <2>3 DEF TerminalAccepted
<1>9. ASSUME NEW w \in Work, TerminalRefused(w) PROVE TypeOK'
  BY <1>7, <1>9 DEF TerminalRefused
<1>10. ASSUME NEW h \in Handles, Cancel(h) PROVE TypeOK'
  <2>1. cancels' \in Seq(Handles)
    BY <1>10, AppendProperties DEF Cancel
  <2> QED
    BY <1>10, <2>1 DEF Cancel
<1>11. CASE DrainFinished
  BY <1>11 DEF DrainFinished, Zero
<1>12. ASSUME NEW t \in Tokens, TokenCancel(t) PROVE TypeOK'
  BY <1>12 DEF TokenCancel
<1>13. CASE UNCHANGED vars
  BY <1>13 DEF vars
<1> QED
  BY <1>1, <1>2, <1>3, <1>4, <1>5, <1>6, <1>8, <1>9, <1>10, <1>11, <1>12, <1>13
  DEF Next, Settling, RecordedReturns, JobReturns, Outcomes
-----------------------------------------------------------------------------
(* The actions, with what the end of a job may have done to the sink.      *)
LEMMA StepCases ==
  ASSUME [Next]_vars
  PROVE  \/ \E w \in Work :
              \/ Spawn(w) \/ EmitJobEvent(w) \/ MapOutcome(w)
              \/ \E o \in Outcomes : Returned(w, o, <<>>) \/ Returned(w, o, <<"Job">>)
              \/ ExplainAccepted(w) \/ ExplainRefused(w)
              \/ TerminalAccepted(w) \/ TerminalRefused(w)
         \/ \E h \in Handles : Cancel(h)
         \/ DrainFinished
         \/ \E t \in Tokens : TokenCancel(t)
         \/ UNCHANGED vars
  BY DEF Next, Settling, RecordedReturns, JobReturns, Outcomes

LEMMA NextSteps == TypeOK /\ Steps /\ [Next]_vars => Steps'
<1> SUFFICES ASSUME TypeOK, Steps, [Next]_vars PROVE Steps'
  OBVIOUS
<1> USE DEF TypeOK, Steps, MayRefuse
<1>1. ASSUME UNCHANGED <<request, phase, outcome, verdict, answer>> PROVE Steps'
  BY <1>1
<1>2. ASSUME NEW w \in Work, Spawn(w) PROVE Steps'
  BY <1>2 DEF Spawn
<1>3. ASSUME NEW w \in Work, NEW o \in Outcomes, NEW events, Returned(w, o, events) PROVE Steps'
  BY <1>3 DEF Returned
<1>4. ASSUME NEW w \in Work, MapOutcome(w) PROVE Steps'
  BY <1>4, MapType DEF MapOutcome
<1>5. ASSUME NEW w \in Work, ExplainAccepted(w) PROVE Steps'
  BY <1>5 DEF ExplainAccepted
<1>6. ASSUME NEW w \in Work, ExplainRefused(w) PROVE Steps'
  BY <1>6 DEF ExplainRefused
<1>7. ASSUME NEW w \in Work, TerminalAccepted(w) PROVE Steps'
  BY <1>7 DEF TerminalAccepted, Count
<1>8. ASSUME NEW w \in Work, TerminalRefused(w) PROVE Steps'
  BY <1>8 DEF TerminalRefused, Count
<1> QED
  BY <1>1, <1>2, <1>3, <1>4, <1>5, <1>6, <1>7, <1>8, StepCases
  DEF EmitJobEvent, Cancel, DrainFinished, TokenCancel, vars

(* Only Spawn makes an owner, and it waits until no spawn is under way.    *)
LEMMA NextEntries ==
  TypeOK /\ Steps /\ OneAtATime /\ Entries /\ [Next]_vars => (OneAtATime /\ Entries)'
<1> SUFFICES ASSUME TypeOK, Steps, OneAtATime, Entries, [Next]_vars PROVE (OneAtATime /\ Entries)'
  OBVIOUS
<1> USE DEF Rest
<1>1. ASSUME UNCHANGED <<request, phase, answer, handles>> PROVE (OneAtATime /\ Entries)'
  BY <1>1 DEF OneAtATime, Entries
<1>2. ASSUME NEW w \in Work, Spawn(w) PROVE (OneAtATime /\ Entries)'
  <2>1. \A v \in Work : phase'[v] \notin Rest => v = w
    BY <1>2 DEF Spawn, Callable, TypeOK
  <2>2. /\ request[w].handle \in Handles
        /\ handles'[request[w].handle] = [owner |-> w, terminal |-> FALSE]
        /\ \A h \in Handles \ {request[w].handle} : handles'[h] = handles[h]
    BY <1>2, RequestType DEF Spawn, TypeOK
  <2>3. answer[w] = "None" /\ UNCHANGED <<request, answer>>
    BY <1>2 DEF Spawn, Steps
  <2>4. OneAtATime'
    BY <2>1, <2>2, <2>3 DEF OneAtATime
  <2>5. Entries'
    BY <2>2, <2>3 DEF Entries
  <2> QED
    BY <2>4, <2>5
<1>3. ASSUME NEW w \in Work, phase[w] \notin Rest, NEW p, phase' = [phase EXCEPT ![w] = p],
             UNCHANGED <<request, answer, handles>>
      PROVE  (OneAtATime /\ Entries)'
  BY <1>3 DEF OneAtATime, Entries, TypeOK
<1>4. ASSUME NEW w \in Work, phase[w] \notin Rest, NEW p, phase' = [phase EXCEPT ![w] = p],
             answer' = [answer EXCEPT ![w] = "SinkFailed"], UNCHANGED <<request, handles>>
      PROVE  (OneAtATime /\ Entries)'
  <2>1. OneAtATime'
    BY <1>4 DEF OneAtATime, TypeOK
  <2>2. answer[w] = "None" /\ answer'[w] = "SinkFailed" /\ \A v \in Work \ {w} : answer'[v] = answer[v]
    BY <1>4 DEF Steps, TypeOK
  <2>3. Entries'
    BY <1>4, <2>2 DEF Entries, TypeOK
  <2> QED
    BY <2>1, <2>3
<1>5. ASSUME NEW w \in Work, TerminalAccepted(w) PROVE (OneAtATime /\ Entries)'
  <2> DEFINE hw == request[w].handle
  <2>1. /\ phase[w] \notin Rest /\ phase' = [phase EXCEPT ![w] = "Done"]
        /\ answer' = [answer EXCEPT ![w] = "Ok"] /\ request' = request
        /\ handles' = [handles EXCEPT ![hw].terminal = TRUE]
    BY <1>5 DEF TerminalAccepted, Count
  <2>2. /\ hw \in Handles /\ handles[hw].owner = w
        /\ handles'[hw].owner = w /\ handles'[hw].terminal = TRUE
        /\ \A h \in Handles \ {hw} : handles'[h] = handles[h]
        /\ \A h \in Handles : handles'[h].owner = handles[h].owner
    BY <2>1, RequestType DEF OneAtATime, TypeOK
  <2>3. answer'[w] = "Ok" /\ \A v \in Work \ {w} : answer'[v] = answer[v]
    BY <2>1 DEF TypeOK
  <2>4. OneAtATime'
    BY <2>1, <2>2 DEF OneAtATime, TypeOK
  <2>5. \A h \in Handles \ {hw} : handles[h].owner # NoWork => handles[h].owner # w
    BY DEF Entries
  <2>6. Entries'
    BY <2>1, <2>2, <2>3, <2>5 DEF Entries, TypeOK
  <2> QED
    BY <2>4, <2>6
<1>6. ASSUME NEW w \in Work, TerminalRefused(w) \/ ExplainRefused(w) PROVE (OneAtATime /\ Entries)'
  BY <1>4, <1>6 DEF TerminalRefused, ExplainRefused, Count
<1>7. ASSUME NEW w \in Work, NEW o \in Outcomes, NEW events,
             Returned(w, o, events) \/ MapOutcome(w) \/ ExplainAccepted(w)
      PROVE  (OneAtATime /\ Entries)'
  BY <1>3, <1>7 DEF Returned, MapOutcome, ExplainAccepted
<1> QED
  BY <1>1, <1>2, <1>5, <1>6, <1>7, StepCases
  DEF EmitJobEvent, Cancel, DrainFinished, TokenCancel, vars, Outcomes

LEMMA NextBacked == TypeOK /\ Backed /\ [Next]_vars => Backed'
<1> SUFFICES ASSUME TypeOK, Backed, [Next]_vars PROVE Backed'
  OBVIOUS
<1>1. ASSUME UNCHANGED <<request, verdict, cancelled>> PROVE Backed'
  BY <1>1 DEF Backed, TokenOf
<1>2. ASSUME NEW w \in Work, MapOutcome(w) PROVE Backed'
  <2>1. /\ \A v \in Work \ {w} : verdict'[v] = verdict[v]
        /\ verdict'[w] = MapTerminalOutcome(request[w].blocking, cancelled[TokenOf(w)], outcome[w])
        /\ UNCHANGED <<request, cancelled>>
    BY <1>2 DEF MapOutcome, TypeOK
  <2>2. verdict'[w] \in {"FailedToCancel", "FinishedAfterCancel"} => cancelled[TokenOf(w)]
    BY <2>1, MapType
  <2> QED
    BY <2>1, <2>2 DEF Backed, TokenOf
<1>3. ASSUME NEW t, cancelled' = [cancelled EXCEPT ![t] = TRUE], UNCHANGED <<request, verdict>>
      PROVE  Backed'
  BY <1>3, RequestType DEF Backed, TokenOf, TypeOK
<1>4. ASSUME NEW h \in Handles, Cancel(h) PROVE Backed'
  BY <1>3, <1>4 DEF Cancel
<1>5. ASSUME NEW t \in Tokens, TokenCancel(t) PROVE Backed'
  BY <1>3, <1>5 DEF TokenCancel
<1> QED
  BY <1>1, <1>2, <1>4, <1>5, StepCases
  DEF Spawn, EmitJobEvent, Returned, ExplainAccepted, ExplainRefused, TerminalAccepted,
      TerminalRefused, Count, DrainFinished, vars

LEMMA NextAnswers ==
  TypeOK /\ Steps /\ AnswerMatchesSink /\ [Next]_vars => AnswerMatchesSink'
<1> SUFFICES ASSUME TypeOK, Steps, AnswerMatchesSink, [Next]_vars PROVE AnswerMatchesSink'
  OBVIOUS
<1>0. "Job" \in Events \ Verdicts /\ "Diagnostic" \in Events \ Verdicts
  BY DEF Events, Verdicts
<1>1. ASSUME UNCHANGED <<request, sink, answer>>, \A w \in Work : answer[w] = "Ok" => verdict'[w] = verdict[w]
      PROVE  AnswerMatchesSink'
  BY <1>1 DEF AnswerMatchesSink, Terminals, MayRefuse
<1>2. ASSUME NEW w \in Work, NEW o \in Outcomes, NEW events, Returned(w, o, events),
             events = <<>> \/ events = <<"Job">>
      PROVE  AnswerMatchesSink'
  <2>1. CASE sink' = sink
    BY <1>1, <1>2, <2>1 DEF Returned
  <2>2. CASE sink' = [sink EXCEPT ![w] = Append(@, "Job")]
    BY <1>0, <1>2, <2>2, OtherEvent DEF Returned
  <2> QED
    BY <1>2, <2>1, <2>2, ReturnedSink
<1>3. ASSUME NEW w \in Work, EmitJobEvent(w) \/ ExplainAccepted(w) PROVE AnswerMatchesSink'
  BY <1>0, <1>3, OtherEvent DEF EmitJobEvent, ExplainAccepted
<1>4. ASSUME NEW w \in Work, MapOutcome(w) PROVE AnswerMatchesSink'
  BY <1>1, <1>4 DEF MapOutcome, Steps, TypeOK
<1>5. ASSUME NEW w \in Work, TerminalRefused(w) \/ ExplainRefused(w) PROVE AnswerMatchesSink'
  <2>1. /\ answer[w] = "None" /\ MayRefuse(w)
        /\ answer' = [answer EXCEPT ![w] = "SinkFailed"]
        /\ UNCHANGED <<request, sink, verdict>>
    BY <1>5 DEF TerminalRefused, ExplainRefused, Count, Steps
  <2>2. answer'[w] = "SinkFailed" /\ \A v \in Work \ {w} : answer'[v] = answer[v]
    BY <2>1 DEF TypeOK
  <2>3. \A v \in Work : Terminals(v)' = Terminals(v) /\ (MayRefuse(v)' <=> MayRefuse(v))
    BY <2>1 DEF Terminals, MayRefuse
  <2> QED
    BY <2>1, <2>2, <2>3 DEF AnswerMatchesSink
<1>6. ASSUME NEW w \in Work, TerminalAccepted(w) PROVE AnswerMatchesSink'
  <2>1. /\ answer[w] = "None" /\ verdict[w] \in Verdicts
        /\ sink' = [sink EXCEPT ![w] = Append(@, verdict[w])]
        /\ answer'[w] = "Ok" /\ \A v \in Work \ {w} : answer'[v] = answer[v]
        /\ UNCHANGED <<request, verdict>>
    BY <1>6 DEF TerminalAccepted, Count, Steps, TypeOK
  <2>2. Terminals(w) = {}
    BY <2>1 DEF AnswerMatchesSink
  <2>3. /\ sink'[w][Len(sink[w]) + 1] = verdict[w]
        /\ Terminals(w)' = {Len(sink[w]) + 1}
        /\ \A v \in Work \ {w} : sink'[v] = sink[v]
    BY <2>1, <2>2, SinkGrows DEF Events
  <2>4. \A v \in Work \ {w} : Terminals(v)' = Terminals(v)
    BY <2>3 DEF Terminals
  <2> QED
    BY <2>1, <2>3, <2>4 DEF AnswerMatchesSink, MayRefuse
<1>7. ASSUME NEW h \in Handles, Cancel(h) PROVE AnswerMatchesSink'
  BY <1>1, <1>7 DEF Cancel
<1> QED
  BY <1>1, <1>2, <1>3, <1>4, <1>5, <1>6, <1>7, StepCases
  DEF Spawn, DrainFinished, TokenCancel, vars

LEMMA NextIInv == IInv /\ [Next]_vars => IInv'
  BY NextType, NextSteps, NextEntries, NextBacked, NextAnswers DEF IInv

LEMMA Invariance == Spec => []IInv
  BY InitIInv, NextIInv, PTL DEF Spec

(* The executor keeps its types: every accepted terminal event and every   *)
(* counted verdict is one of the five (testing.rs:452-536).                *)
THEOREM TypeCorrect == Spec => []TypeOK
<1>1. IInv => TypeOK
  BY DEF IInv
<1> QED
  BY <1>1, Invariance, PTL

(* What spawn answers is true of the sink, for any mix of refusals.        *)
THEOREM AnswersMatchSinks == Spec => []AnswerMatchesSink
<1>1. IInv => AnswerMatchesSink
  BY DEF IInv
<1> QED
  BY <1>1, Invariance, PTL

(* The entry of a handle says of the last spawn under it what its caller   *)
(* was told, also when handles are reused.                                 *)
THEOREM EntriesMatchAnswers == Spec => []EntryMatchesAnswer
<1>1. IInv => EntryMatchesAnswer
  BY DEF IInv, Entries, EntryMatchesAnswer
<1> QED
  BY <1>1, Invariance, PTL
-----------------------------------------------------------------------------
LEMMA InitRefines == Init => Contract!Init
<1> SUFFICES ASSUME Init PROVE Contract!Init
  OBVIOUS
<1>1. [w \in Work |-> TokenOf(w)] \in [Work -> Tokens]
  BY InitType, RequestType
<1>2. Stage = [w \in Work |-> "New"] /\ GivenVerdict = [w \in Work |-> "None"]
  BY DEF Init, Stage, GivenVerdict
<1>3. Counted = [k \in Verdicts |-> 0]
  BY DEF Init, Counted, Zero
<1> QED
  BY <1>1, <1>2, <1>3 DEF Init, Contract!Init, Contract!Verdicts, Verdicts

(* What a step may leave alone of the mapped state.                        *)
Unmoved == UNCHANGED <<request, cancelled, Stage, GivenVerdict, Counted>>

LEMMA StutterRefines == Unmoved => UNCHANGED Contract!vars
  BY DEF Unmoved, Contract!vars, TokenOf

(* Steps of a spawn that stay below acceptance.                            *)
LEMMA QuietSteps ==
  ASSUME TypeOK, NEW w \in Work, NEW o \in Outcomes, NEW events,
         Spawn(w) \/ Returned(w, o, events) \/ EmitJobEvent(w)
  PROVE  Unmoved
<1>1. CASE Spawn(w)
  BY <1>1 DEF Spawn, Unmoved, Stage, GivenVerdict, Counted, TypeOK
<1>2. CASE Returned(w, o, events)
  BY <1>2 DEF Returned, Unmoved, Stage, GivenVerdict, Counted, TypeOK
<1>3. CASE EmitJobEvent(w)
  BY <1>3 DEF EmitJobEvent, Unmoved, Stage, GivenVerdict, Counted
<1> QED
  BY <1>1, <1>2, <1>3

(* A spawn that will be counted in any case is accepted, one whose         *)
(* diagnostic was refused is refused.                                      *)
LEMMA AcceptRefines ==
  ASSUME IInv, NEW w \in Work, MapOutcome(w) \/ ExplainAccepted(w)
  PROVE  Contract!Accept(w) \/ Unmoved
<1>0. TypeOK
  BY DEF IInv
<1>1. Stage[w] = "New" /\ UNCHANGED <<request, cancelled, Counted, GivenVerdict>>
  BY <1>0 DEF MapOutcome, ExplainAccepted, Stage, Counted, GivenVerdict, TypeOK
<1>2. Stage' = Stage \/ Stage' = [Stage EXCEPT ![w] = "Live"]
  <2>1. CASE MapOutcome(w)
    BY <1>0, <2>1 DEF MapOutcome, Stage, TypeOK
  <2>2. CASE ExplainAccepted(w)
    BY <1>0, <2>2 DEF ExplainAccepted, Stage, TypeOK
  <2> QED
    BY <2>1, <2>2
<1> QED
  BY <1>1, <1>2 DEF Unmoved, Contract!Accept, TokenOf

LEMMA RefuseRefines ==
  ASSUME IInv, NEW w \in Work, ExplainRefused(w)
  PROVE  Contract!Refuse(w)
<1>0. TypeOK
  BY DEF IInv
<1>1. Stage[w] = "New" /\ UNCHANGED <<request, cancelled, Counted, GivenVerdict>>
  BY <1>0 DEF ExplainRefused, Stage, Counted, GivenVerdict, TypeOK
<1>2. Stage' = [Stage EXCEPT ![w] = "Refused"]
  BY <1>0 DEF ExplainRefused, Stage, TypeOK
<1> QED
  BY <1>1, <1>2 DEF Contract!Refuse, TokenOf

LEMMA SettleRefines ==
  ASSUME IInv, NEW w \in Work, TerminalAccepted(w) \/ TerminalRefused(w)
  PROVE  verdict[w] \in Verdicts /\ Contract!Settle(w, verdict[w])
<1>0. TypeOK /\ verdict[w] \in Verdicts
  BY DEF IInv, TerminalAccepted, TerminalRefused, Count, Steps
<1>1. /\ Stage[w] = "Live" /\ UNCHANGED <<request, cancelled, verdict, totals>>
      /\ phase' = [phase EXCEPT ![w] = "Done"]
      /\ finished' = [finished EXCEPT ![verdict[w]] = @ + 1]
  BY DEF TerminalAccepted, TerminalRefused, Count, Stage
<1>2. verdict[w] \in Contract!AfterRequest => cancelled[TokenOf(w)]
  BY DEF IInv, Backed, Contract!AfterRequest
<1>3. Stage' = [Stage EXCEPT ![w] = "Settled"]
  BY <1>0, <1>1 DEF Stage, TypeOK
<1>4. GivenVerdict' = [GivenVerdict EXCEPT ![w] = verdict[w]]
  BY <1>0, <1>1 DEF GivenVerdict, TypeOK
<1>5. Counted' = [Counted EXCEPT ![verdict[w]] = @ + 1]
  <2>1. Counted' = [k \in Verdicts |-> totals[k] + finished'[k]]
    BY <1>1 DEF Counted
  <2>2. ASSUME NEW k \in Verdicts
        PROVE  totals[k] + finished'[k]
                 = IF k = verdict[w] THEN totals[k] + finished[k] + 1 ELSE totals[k] + finished[k]
    <3>1. finished'[k] = IF k = verdict[w] THEN finished[k] + 1 ELSE finished[k]
      BY <1>0, <1>1 DEF TypeOK
    <3>2. totals[k] \in Nat /\ finished[k] \in Nat
      BY <1>0 DEF TypeOK
    <3> QED
      BY <3>1, <3>2
  <2>3. [Counted EXCEPT ![verdict[w]] = @ + 1]
          = [k \in Verdicts |->
               IF k = verdict[w] THEN totals[k] + finished[k] + 1 ELSE totals[k] + finished[k]]
    BY <1>0 DEF Counted
  <2> QED
    BY <2>1, <2>2, <2>3, Zenon
<1> QED
  BY <1>0, <1>1, <1>2, <1>3, <1>4, <1>5 DEF Contract!Settle, TokenOf

LEMMA CancelRefines ==
  ASSUME NEW t, cancelled' = [cancelled EXCEPT ![t] = TRUE],
         UNCHANGED <<request, phase, verdict, finished, totals>>
  PROVE  Contract!RequestCancel(t)
  BY DEF Contract!RequestCancel, Stage, GivenVerdict, Counted, TokenOf

LEMMA StepRefines == IInv /\ [Next]_vars => [Contract!Next]_(Contract!vars)
<1> SUFFICES ASSUME IInv, [Next]_vars PROVE Contract!Next \/ Unmoved
  BY StutterRefines
<1>0. TypeOK /\ \A w \in Work : TokenOf(w) \in Tokens
  BY RequestType DEF IInv
<1>1. ASSUME NEW w \in Work, NEW o \in Outcomes, NEW events,
             Spawn(w) \/ Returned(w, o, events) \/ EmitJobEvent(w)
      PROVE  Unmoved
  BY <1>0, <1>1, QuietSteps
<1>2. ASSUME NEW w \in Work, MapOutcome(w) \/ ExplainAccepted(w) PROVE Contract!Next \/ Unmoved
  BY <1>2, AcceptRefines DEF Contract!Next
<1>3. ASSUME NEW w \in Work, ExplainRefused(w) PROVE Contract!Next
  BY <1>3, RefuseRefines DEF Contract!Next
<1>4. ASSUME NEW w \in Work, TerminalAccepted(w) \/ TerminalRefused(w) PROVE Contract!Next
  <2>1. verdict[w] \in Contract!Verdicts /\ Contract!Settle(w, verdict[w])
    BY <1>4, SettleRefines DEF Contract!Verdicts, Verdicts
  <2> QED
    BY <2>1 DEF Contract!Next
<1>5. ASSUME NEW h \in Handles, Cancel(h) PROVE Contract!Next
  <2>1. handles[h].owner \in Work
    BY <1>0, <1>5 DEF Cancel, TypeOK
  <2>2. Contract!RequestCancel(TokenOf(handles[h].owner))
    BY <1>5, CancelRefines DEF Cancel
  <2> QED
    BY <1>0, <2>1, <2>2 DEF Contract!Next
<1>6. ASSUME NEW t \in Tokens, TokenCancel(t) PROVE Contract!Next
  BY <1>6, CancelRefines DEF TokenCancel, Contract!Next
<1>7. CASE DrainFinished
  <2>1. Counted' = Counted
    BY <1>0, <1>7 DEF DrainFinished, Counted, Zero, TypeOK
  <2> QED
    BY <1>7, <2>1 DEF DrainFinished, Unmoved, Stage, GivenVerdict
<1>8. CASE UNCHANGED vars
  BY <1>8 DEF vars, Unmoved, Stage, GivenVerdict, Counted
<1> QED
  BY <1>1, <1>2, <1>3, <1>4, <1>5, <1>6, <1>7, <1>8, StepCases DEF Outcomes

(* The fake executor implements the contract of every executor.            *)
THEOREM Refinement == Spec => ImplementsContract
  BY InitRefines, StepRefines, Invariance, PTL DEF Spec, ImplementsContract, Contract!Spec
-----------------------------------------------------------------------------
LEMMA SettleConserves ==
  ASSUME IInv, CountsAdd, NEW w \in Work, TerminalAccepted(w) \/ TerminalRefused(w)
  PROVE  CountsAdd'
<1> SUFFICES ASSUME NEW k \in Verdicts PROVE Counted'[k] = Cardinality(CountedAs(k)')
  BY DEF CountsAdd, CountedAs
<1>0. /\ TypeOK /\ verdict[w] \in Verdicts /\ verdict' = verdict /\ totals' = totals
      /\ phase[w] \in {"Mapped", "Explained"} /\ phase' = [phase EXCEPT ![w] = "Done"]
      /\ finished' = [finished EXCEPT ![verdict[w]] = @ + 1]
  BY DEF IInv, TerminalAccepted, TerminalRefused, Count, Steps
<1>1. /\ Counted[k] \in Nat
      /\ Counted'[k] = Counted[k] + (IF verdict[w] = k THEN 1 ELSE 0)
  <2>1. totals[k] \in Nat /\ finished[k] \in Nat
    BY <1>0 DEF TypeOK
  <2>2. finished'[k] = finished[k] + (IF verdict[w] = k THEN 1 ELSE 0)
    BY <1>0, <2>1 DEF TypeOK
  <2> QED
    BY <1>0, <2>1, <2>2 DEF Counted
<1>2. w \notin CountedAs(k) /\ IsFiniteSet(CountedAs(k))
  BY <1>0, WorkAssumption, FS_Subset DEF CountedAs, GivenVerdict, Verdicts
<1>3. Counted[k] = Cardinality(CountedAs(k))
  BY DEF CountsAdd
<1>4. CASE verdict[w] = k
  <2>1. CountedAs(k)' = CountedAs(k) \cup {w}
    BY <1>0, <1>4 DEF CountedAs, GivenVerdict, TypeOK
  <2>2. Cardinality(CountedAs(k)') = Cardinality(CountedAs(k)) + 1
    BY <1>2, <2>1, FS_AddElement
  <2> QED
    BY <1>1, <1>3, <1>4, <2>2
<1>5. CASE verdict[w] # k
  <2>1. CountedAs(k)' = CountedAs(k)
    BY <1>0, <1>5 DEF CountedAs, GivenVerdict, TypeOK, Verdicts
  <2> QED
    BY <1>1, <1>3, <1>5, <2>1
<1> QED
  BY <1>4, <1>5

LEMMA NextConserves == IInv /\ CountsAdd /\ [Next]_vars => CountsAdd'
<1> SUFFICES ASSUME IInv, CountsAdd, [Next]_vars PROVE CountsAdd'
  OBVIOUS
<1>0. TypeOK
  BY DEF IInv
<1>1. ASSUME NEW w \in Work, TerminalAccepted(w) \/ TerminalRefused(w) PROVE CountsAdd'
  BY <1>1, SettleConserves
<1>2. ASSUME UNCHANGED <<GivenVerdict, Counted>> PROVE CountsAdd'
  BY <1>2 DEF CountsAdd, CountedAs
<1>3. ASSUME NEW w \in Work, NEW o \in Outcomes, NEW es,
             Spawn(w) \/ Returned(w, o, es) \/ EmitJobEvent(w)
      PROVE  CountsAdd'
  BY <1>0, <1>2, <1>3, QuietSteps DEF Unmoved
<1>4. ASSUME NEW w \in Work, MapOutcome(w) \/ ExplainAccepted(w) \/ ExplainRefused(w)
      PROVE  CountsAdd'
  <2>1. UNCHANGED <<GivenVerdict, Counted>>
    BY <1>0, <1>4
       DEF MapOutcome, ExplainAccepted, ExplainRefused, GivenVerdict, Counted, TypeOK
  <2> QED
    BY <1>2, <2>1
<1>5. CASE DrainFinished
  <2>1. Counted' = Counted
    BY <1>0, <1>5 DEF DrainFinished, Counted, Zero, TypeOK
  <2> QED
    BY <1>2, <1>5, <2>1 DEF DrainFinished, GivenVerdict
<1>6. ASSUME UNCHANGED <<phase, verdict, finished, totals>> PROVE CountsAdd'
  BY <1>2, <1>6 DEF GivenVerdict, Counted
<1> QED
  BY <1>1, <1>3, <1>4, <1>5, <1>6, StepCases DEF Cancel, TokenCancel, vars, Outcomes

(* Across all reports each spawn that got as far as its terminal event is  *)
(* counted once, under its verdict, whether the sink took the event or     *)
(* not, and no spawn that failed before is (testing.rs:299-313, 371-375).  *)
THEOREM ReportsConserveSpawns == Spec => []CountsAdd
<1>1. Init => CountsAdd
  <2> SUFFICES ASSUME Init, NEW k \in Verdicts PROVE Counted[k] = Cardinality(CountedAs(k))
    BY DEF CountsAdd
  <2>1. CountedAs(k) = {}
    BY DEF Init, CountedAs, GivenVerdict, Verdicts
  <2>2. Counted[k] = 0
    BY DEF Init, Counted, Zero
  <2> QED
    BY <2>1, <2>2, FS_EmptySet
<1> QED
  BY <1>1, NextConserves, Invariance, PTL DEF Spec
=============================================================================
