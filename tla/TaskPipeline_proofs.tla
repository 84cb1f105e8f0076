--------------------------- MODULE TaskPipeline_proofs ---------------------------
(***************************************************************************)
(* Proofs about TaskPipeline, for any attempts, capacity and budgets.      *)
(* That the record ends as the executor said rests on where terminal       *)
(* events are: each settled attempt has brought one (Claims, Once), whose  *)
(* stamp is in one place of the queue (the parts of Placed), and which is  *)
(* still on its way exactly as long as its fate is "Sent".                 *)
(***************************************************************************)
EXTENDS TaskPipeline, FiniteSetTheorems, SequenceTheorems, TLAPS

Entries == [slot : Attempts \cup {NoSlot}, stamp : Nat]

Stages == {"New", "Refused", "Live", "Settled", "Lost"}

(* The types, as far as the argument needs them. *)
QueueTypes ==
  /\ fifo \in Seq(Nat)
  /\ progress \in [Attempts -> Nat]
  /\ progress_order \in Seq(Attempts)
  /\ dropped_events \in Nat
  /\ events \in Seq(Entries)
  /\ delivered \in Seq(Entries)

RecordTypes ==
  /\ status \in {"Queued", "Running", "Cancelling"} \cup R!Terminal
  /\ attempt \in Attempts \cup {NoAttempt}
  /\ status \in R!Terminal => attempt \in Attempts

PushTypes ==
  /\ pushed \in Nat
  /\ kinds \in Seq([kind : X!Verdicts \cup {"Progress"}, attempt : Attempts])
  /\ Len(kinds) = pushed

OwnTypes ==
  /\ stage \in [Attempts -> Stages]
  /\ verdict \in [Attempts -> X!Verdicts \cup {"None"}]
  /\ fate \in [Attempts -> Fates]
  /\ applied \in 0..Len(delivered)

Types == QueueTypes /\ RecordTypes /\ PushTypes /\ OwnTypes

(* The stamps of terminal events. *)
Ends == {n \in 1..pushed : kinds[n].kind # "Progress"}

(* The fifo holds terminal events, the slots progress, both of the past.   *)
Sorted ==
  /\ \A i \in DOMAIN fifo : fifo[i] \in Ends
  /\ \A s \in Attempts : s \in Q!Held => progress[s] \in 1..pushed /\ progress[s] \notin Ends
  /\ \A i \in DOMAIN Q!Out : Q!Out[i].stamp \in 1..pushed

(* A terminal event is at one place at most. *)
OnePlace ==
  /\ \A i, j \in DOMAIN fifo : fifo[i] = fifo[j] => i = j
  /\ \A i, j \in DOMAIN Q!Out :
       Q!Out[i].stamp = Q!Out[j].stamp /\ Q!Out[i].stamp \in Ends => i = j
  /\ \A i \in DOMAIN Q!Out, j \in DOMAIN fifo : Q!Out[i].stamp # fifo[j]

Placed == Sorted /\ OnePlace

(* Terminal events say what the executor said, once for each attempt.      *)
Claims ==
  \A n \in Ends :
    stage[kinds[n].attempt] = "Settled" /\ verdict[kinds[n].attempt] = kinds[n].kind

Once ==
  \A m, n \in Ends : kinds[m].attempt = kinds[n].attempt => m = n

(* The terminal events that are queued, or drained and not yet handled.    *)
Coming ==
  {n \in Ends :
     \/ \E i \in DOMAIN fifo : fifo[i] = n
     \/ \E i \in DOMAIN Q!Out : i > applied /\ Q!Out[i].stamp = n}

SentIsComing ==
  \A a \in Attempts :
    fate[a] = "Sent" <=> \E n \in Coming : kinds[n].attempt = a

SettledHasFate == \A a \in Attempts : fate[a] # "None" <=> stage[a] = "Settled"

(* Only the attempt the record is at is spawned, and attempts only grow.   *)
SpawnedIsKnown == \A a \in Attempts : stage[a] # "New" => attempt # NoAttempt /\ a <= attempt

DroppedAttempts == {a \in Attempts : fate[a] = "Dropped"}

DropsCounted == dropped_events >= Cardinality(DroppedAttempts)

IInv ==
  /\ Types /\ Placed /\ Claims /\ Once /\ SentIsComing /\ SettledHasFate
  /\ SpawnedIsKnown /\ RecordAgrees /\ DropsCounted
-----------------------------------------------------------------------------
LEMMA OutType ==
  ASSUME QueueTypes
  PROVE  /\ Q!Out \in Seq(Entries) /\ Len(Q!Out) \in Nat /\ DOMAIN Q!Out = 1..Len(Q!Out)
         /\ Len(delivered) \in Nat /\ Len(delivered) <= Len(Q!Out)
         /\ \A i \in DOMAIN Q!Out : Q!Out[i].stamp \in Nat
         /\ \A i \in 1..Len(delivered) : Q!Out[i] = delivered[i]
<1>1. /\ Len(delivered) \in Nat /\ Len(events) \in Nat /\ Q!Out \in Seq(Entries)
      /\ Len(Q!Out) = Len(delivered) + Len(events)
      /\ \A i \in 1..Len(delivered) : Q!Out[i] = delivered[i]
  BY ConcatProperties, LenProperties DEF QueueTypes, Q!Out
<1>2. DOMAIN Q!Out = 1..Len(Q!Out) /\ \A i \in 1..Len(Q!Out) : Q!Out[i] \in Entries
  BY <1>1, LenProperties, ElementOfSeq
<1> QED
  BY <1>1, <1>2 DEF Entries

LEMMA FifoType ==
  ASSUME QueueTypes
  PROVE  /\ Len(fifo) \in Nat /\ DOMAIN fifo = 1..Len(fifo)
         /\ \A i \in DOMAIN fifo : fifo[i] \in Nat
  BY LenProperties, ElementOfSeq DEF QueueTypes

LEMMA KindsType ==
  ASSUME PushTypes, NEW n \in 1..pushed
  PROVE  /\ kinds[n] \in [kind : X!Verdicts \cup {"Progress"}, attempt : Attempts]
         /\ kinds[n].attempt \in Attempts
         /\ n \in Ends => kinds[n].kind \in X!Verdicts
<1>1. kinds[n] \in [kind : X!Verdicts \cup {"Progress"}, attempt : Attempts]
  BY ElementOfSeq DEF PushTypes
<1> QED
  BY <1>1 DEF Ends

(* A push adds one event to the history and leaves the earlier ones.       *)
LEMMA PushGrows ==
  ASSUME PushTypes, NEW k \in X!Verdicts \cup {"Progress"}, NEW a \in Attempts,
         Pushed(k, a), pushed' = pushed + 1
  PROVE  /\ PushTypes'
         /\ 1..pushed' = 1..pushed \cup {pushed + 1} /\ pushed + 1 \notin 1..pushed
         /\ \A n \in 1..pushed : kinds'[n] = kinds[n]
         /\ kinds'[pushed + 1] = [kind |-> k, attempt |-> a]
<1> DEFINE e == [kind |-> k, attempt |-> a]
           K == [kind : X!Verdicts \cup {"Progress"}, attempt : Attempts]
<1>1. e \in K /\ kinds \in Seq(K) /\ Len(kinds) = pushed /\ pushed \in Nat
  BY DEF PushTypes
<1>2. kinds' = Append(kinds, e)
  BY DEF Pushed
<1> HIDE DEF e, K
<1>3. /\ kinds' \in Seq(K) /\ Len(kinds') = pushed + 1
      /\ \A n \in 1..pushed : kinds'[n] = kinds[n]
      /\ kinds'[pushed + 1] = e
  BY <1>1, <1>2, AppendProperties
<1>4. 1..pushed' = 1..pushed \cup {pushed + 1} /\ pushed + 1 \notin 1..pushed
  BY <1>1
<1> QED
  BY <1>1, <1>3, <1>4 DEF PushTypes, e, K

(* A turn of a drain appends to what went out, its end changes nothing.    *)
LEMMA OutGrows ==
  ASSUME QueueTypes, NEW e \in Entries, events' = Append(events, e), delivered' = delivered
  PROVE  /\ events' \in Seq(Entries)
         /\ DOMAIN Q!Out' = DOMAIN Q!Out \cup {Len(Q!Out) + 1} /\ Len(Q!Out) + 1 \notin DOMAIN Q!Out
         /\ \A i \in DOMAIN Q!Out : Q!Out'[i] = Q!Out[i]
         /\ Q!Out'[Len(Q!Out) + 1] = e
<1>1. events \in Seq(Entries) /\ delivered \in Seq(Entries) /\ Q!Out \in Seq(Entries)
  BY OutType DEF QueueTypes
<1>2. Append(events, e) = events \o <<e>> /\ Append(Q!Out, e) = Q!Out \o <<e>> /\ <<e>> \in Seq(Entries)
  BY <1>1, AppendIsConcat
<1>3. Q!Out' = delivered \o (events \o <<e>>)
  BY <1>2 DEF Q!Out
<1>4. Q!Out' = Append(Q!Out, e)
  BY <1>1, <1>2, <1>3, ConcatAssociative DEF Q!Out
<1>5. /\ Q!Out' \in Seq(Entries) /\ Len(Q!Out') = Len(Q!Out) + 1
      /\ \A i \in 1..Len(Q!Out) : Q!Out'[i] = Q!Out[i]
      /\ Q!Out'[Len(Q!Out) + 1] = e
  BY <1>1, <1>4, AppendProperties
<1>6. DOMAIN Q!Out = 1..Len(Q!Out) /\ DOMAIN Q!Out' = 1..(Len(Q!Out) + 1) /\ Len(Q!Out) \in Nat
  BY <1>1, <1>5, LenProperties
<1>7. events' \in Seq(Entries)
  BY <1>1, AppendProperties
<1> QED
  BY <1>5, <1>6, <1>7

LEMMA OutStays ==
  ASSUME QueueTypes, events' = <<>>, delivered' = delivered \o events
  PROVE  Q!Out' = Q!Out /\ delivered' \in Seq(Entries) /\ Len(delivered) <= Len(delivered')
<1>1. events \in Seq(Entries) /\ delivered \in Seq(Entries)
  BY DEF QueueTypes
<1>2. Q!Out \in Seq(Entries) /\ Q!Out' = Q!Out \o <<>> /\ delivered' = Q!Out
  BY <1>1, ConcatProperties DEF Q!Out
<1>3. Q!Out' = Q!Out
  BY <1>2, ConcatEmptySeq
<1> QED
  BY <1>2, <1>3, OutType

LEMMA InitIInv == Init => IInv
<1> SUFFICES ASSUME Init PROVE IInv
  OBVIOUS
<1>1. /\ fifo = <<>> /\ events = <<>> /\ delivered = <<>> /\ progress_order = <<>>
      /\ progress = [s \in Attempts |-> 0] /\ dropped_events = 0 /\ pushed = 0
      /\ kinds = <<>> /\ applied = 0 /\ fate = [a \in Attempts |-> "None"]
      /\ status = "Queued" /\ attempt = NoAttempt
      /\ stage = [a \in Attempts |-> "New"] /\ verdict = [a \in Attempts |-> "None"]
  BY DEF Init, Q!Init, Q!Vacant, R!Init, X!Init
<1>2. QueueTypes /\ RecordTypes
  BY <1>1, EmptySeq DEF QueueTypes, RecordTypes, R!Terminal
<1>3. PushTypes /\ OwnTypes
  BY <1>1, EmptySeq DEF PushTypes, OwnTypes, Fates, Stages
<1>4. 1..pushed = {} /\ DOMAIN fifo = {} /\ DOMAIN Q!Out = {} /\ Q!Held = {}
  BY <1>1 DEF Q!Out, Q!Held, Q!Vacant
<1>5. Placed /\ Claims /\ Once
  BY <1>4 DEF Placed, Sorted, OnePlace, Claims, Once, Ends
<1>6. SentIsComing /\ SettledHasFate /\ SpawnedIsKnown /\ RecordAgrees
  BY <1>1, <1>4 DEF SentIsComing, SettledHasFate, SpawnedIsKnown, RecordAgrees, R!Terminal, Coming, Ends
<1>7. DroppedAttempts = {}
  BY <1>1 DEF DroppedAttempts
<1> QED
  BY <1>1, <1>2, <1>3, <1>5, <1>6, <1>7, FS_EmptySet DEF IInv, Types, DropsCounted
-----------------------------------------------------------------------------
(* What a step leaves of the invariant that moves nothing it is about.     *)
LEMMA QueueFrame ==
  ASSUME QueueTypes, PushTypes, Placed,
         UNCHANGED <<fifo, progress, progress_order, events, delivered, pushed, kinds>>,
         dropped_events' = dropped_events
  PROVE  QueueTypes' /\ PushTypes' /\ Placed'
<1>1. QueueTypes' /\ PushTypes'
  BY DEF QueueTypes, PushTypes, Entries
<1>2. Placed'
  BY DEF Placed, Sorted, OnePlace, Ends, Q!Held, Q!Out
<1> QED
  BY <1>1, <1>2

LEMMA FateFrame ==
  ASSUME Once, SentIsComing, DropsCounted,
         UNCHANGED <<fifo, events, delivered, pushed, kinds, applied, fate, dropped_events>>
  PROVE  Once' /\ SentIsComing' /\ DropsCounted'
  BY DEF Once, SentIsComing, DropsCounted, DroppedAttempts, Ends, Coming, Q!Out

LEMMA ClaimsFrame ==
  ASSUME Claims, SettledHasFate, UNCHANGED <<stage, verdict, pushed, kinds, fate>>
  PROVE  Claims' /\ SettledHasFate'
  BY DEF Claims, SettledHasFate, Ends

(* The application's calls on the record: none of them settles it, or      *)
(* moves a settled one.                                                    *)
LEMMA RecordSteps ==
  ASSUME IInv,
         \/ \E a \in Attempts :
              Start(a) \/ MarkRunning(a) \/ \E r \in Reasons : CancelHandle(a, r)
         \/ \E r \in Reasons : CancelRecord(r)
  PROVE  IInv'
<1>1. /\ UNCHANGED <<fifo, progress, progress_order, events, delivered, pushed, kinds, dropped_events>>
      /\ UNCHANGED <<stage, verdict, applied, fate>>
  BY DEF Start, MarkRunning, CancelRecord, CancelHandle, queueVars, executorVars
<1>2. QueueTypes' /\ PushTypes' /\ Placed' /\ Once' /\ SentIsComing' /\ DropsCounted'
  BY <1>1, QueueFrame, FateFrame DEF IInv, Types
<1>3. Claims' /\ SettledHasFate' /\ OwnTypes'
  BY <1>1, ClaimsFrame DEF IInv, Types, OwnTypes
<1>4. \/ UNCHANGED <<status, attempt>>
      \/ /\ status \notin R!Terminal
         /\ status' = "Queued"
         /\ attempt' \in Attempts /\ (attempt # NoAttempt => attempt' > attempt)
      \/ /\ status \notin R!Terminal
         /\ status' \in {"Running", "Cancelling"} /\ attempt' = attempt
  <2>1. ASSUME NEW a \in Attempts, Start(a)
        PROVE  /\ status \notin R!Terminal /\ status' = "Queued"
               /\ attempt' = a /\ (attempt # NoAttempt => a > attempt)
    BY <2>1 DEF Start, R!StartAttempt, R!IsTerminal
  <2>2. ASSUME NEW a \in Attempts, MarkRunning(a)
        PROVE  status \notin R!Terminal /\ status' = "Running" /\ attempt' = attempt
    BY <2>2 DEF MarkRunning, R!Mark, R!ActiveAttempt, R!IsTerminal
  <2>3. ASSUME NEW r \in Reasons, CancelRecord(r)
        PROVE  status \notin R!Terminal /\ status' = "Cancelling" /\ attempt' = attempt
    BY <2>3 DEF CancelRecord, R!RequestCancel, R!IsTerminal
  <2>4. ASSUME NEW a \in Attempts, NEW r \in Reasons, CancelHandle(a, r)
        PROVE  UNCHANGED <<status, attempt>>
    BY <2>4 DEF CancelHandle, R!TokenCancel
  <2> QED
    BY <2>1, <2>2, <2>3, <2>4
<1>5. RecordTypes' /\ RecordAgrees'
  BY <1>1, <1>4 DEF IInv, Types, RecordTypes, RecordAgrees, R!Terminal
<1>6. SpawnedIsKnown'
  <2> SUFFICES ASSUME NEW b \in Attempts, stage[b] # "New"
               PROVE  attempt' # NoAttempt /\ b <= attempt'
    BY <1>1 DEF SpawnedIsKnown
  <2>1. attempt # NoAttempt /\ b <= attempt
    BY DEF IInv, SpawnedIsKnown
  <2>2. /\ attempt \in Nat /\ b \in Nat
        /\ attempt' \in Attempts => attempt' \in Nat /\ attempt' # NoAttempt
    BY <2>1, AttemptsAssumption DEF IInv, Types, RecordTypes
  <2> QED
    BY <1>4, <2>1, <2>2
<1> QED
  BY <1>2, <1>3, <1>5, <1>6 DEF IInv, Types

(* Work is accepted, refused or lost: settled work stays settled.          *)
LEMMA ExecutorSteps ==
  ASSUME IInv, (\E a \in Attempts : Spawn(a)) \/ (\E lost \in SUBSET Attempts : Drop(lost))
  PROVE  IInv'
<1>1. /\ UNCHANGED <<fifo, progress, progress_order, events, delivered, pushed, kinds, dropped_events>>
      /\ UNCHANGED <<status, attempt, applied, fate, verdict>>
  BY DEF Spawn, Drop, recordVars, queueVars, X!Accept, X!Refuse, X!Drop
<1>2. QueueTypes' /\ PushTypes' /\ Placed' /\ Once' /\ SentIsComing' /\ DropsCounted'
  BY <1>1, QueueFrame, FateFrame DEF IInv, Types
<1>3. /\ stage' \in [Attempts -> Stages]
      /\ \A b \in Attempts : stage[b] = "Settled" <=> stage'[b] = "Settled"
      /\ \A b \in Attempts : stage'[b] # "New" => stage[b] # "New" \/ attempt = b
  <2>1. ASSUME NEW a \in Attempts, Spawn(a)
        PROVE  attempt = a /\ stage[a] = "New"
               /\ \E to \in {"Live", "Refused"} : stage' = [stage EXCEPT ![a] = to]
    BY <2>1 DEF Spawn, X!Accept, X!Refuse
  <2>2. ASSUME NEW lost \in SUBSET Attempts, Drop(lost)
        PROVE  /\ \A b \in lost : stage[b] = "Live"
               /\ stage' = [b \in Attempts |-> IF b \in lost THEN "Lost" ELSE stage[b]]
    BY <2>2 DEF Drop, X!Drop
  <2>3. stage \in [Attempts -> Stages]
    BY DEF IInv, Types, OwnTypes
  <2> QED
    BY <2>1, <2>2, <2>3 DEF Stages
<1>4. \A n \in 1..pushed : kinds[n].attempt \in Attempts
  BY KindsType DEF IInv, Types
<1>5. Claims' /\ SettledHasFate' /\ OwnTypes' /\ RecordTypes'
  <2>1. Claims'
    BY <1>1, <1>3, <1>4 DEF IInv, Claims, Ends
  <2>2. SettledHasFate'
    BY <1>1, <1>3 DEF IInv, SettledHasFate
  <2>3. OwnTypes' /\ RecordTypes'
    BY <1>1, <1>3 DEF IInv, Types, OwnTypes, RecordTypes
  <2> QED
    BY <2>1, <2>2, <2>3
<1>6. SpawnedIsKnown'
  <2>1. \A b \in Attempts : b # NoAttempt /\ b <= b
    BY AttemptsAssumption
  <2> QED
    BY <1>1, <1>3, <2>1 DEF IInv, SpawnedIsKnown
<1>7. RecordAgrees'
  <2>1. status \in R!Terminal => attempt \in Attempts
    BY DEF IInv, Types, RecordTypes
  <2> QED
    BY <1>1, <1>3, <2>1 DEF IInv, RecordAgrees
<1> QED
  BY <1>2, <1>5, <1>6, <1>7 DEF IInv, Types

-----------------------------------------------------------------------------
(* A push leaves the terminal events of the past and may add one.          *)
LEMMA PushEnds ==
  ASSUME PushTypes, NEW k \in X!Verdicts \cup {"Progress"}, NEW a \in Attempts,
         Pushed(k, a), pushed' = pushed + 1
  PROVE  /\ Ends' = IF k = "Progress" THEN Ends ELSE Ends \cup {pushed + 1}
         /\ pushed + 1 \notin Ends
<1>1. /\ 1..pushed' = 1..pushed \cup {pushed + 1} /\ pushed + 1 \notin 1..pushed
      /\ \A n \in 1..pushed : kinds'[n] = kinds[n]
      /\ kinds'[pushed + 1] = [kind |-> k, attempt |-> a]
  BY PushGrows
<1>2. kinds'[pushed + 1].kind = k
  BY <1>1
<1> HIDE DEF Pushed
<1> QED
  BY <1>1, <1>2 DEF Ends

(* A push that is not queued, or replaces the progress of a slot, or fills *)
(* one: the places of terminal events are what they were.                  *)
LEMMA ProgressPushPlaced ==
  ASSUME IInv, NEW a \in Attempts, EmitProgress(a)
  PROVE  QueueTypes' /\ PushTypes' /\ Placed'
<1>0. QueueTypes /\ PushTypes /\ Sorted /\ OnePlace
  BY DEF IInv, Types, Placed
<1>1. /\ pushed' = pushed + 1 /\ Pushed("Progress", a)
      /\ UNCHANGED <<fifo, events, delivered>>
      /\ dropped_events' \in Nat
      /\ \/ progress' = progress /\ progress_order' = progress_order
         \/ /\ progress' = [progress EXCEPT ![a] = pushed + 1]
            /\ progress_order' \in Seq(Attempts)
  <2>1. /\ progress_order \in Seq(Attempts) /\ Append(progress_order, a) \in Seq(Attempts)
        /\ dropped_events \in Nat
    BY <1>0, AppendProperties DEF QueueTypes
  <2>2. Q!Coalesce(a) \/ Q!PushProgress(a) \/ Q!Overflow(a)
    BY DEF EmitProgress
  <2>3. dropped_events' \in {dropped_events, dropped_events + 1}
    BY <2>2 DEF Q!Coalesce, Q!PushProgress, Q!Overflow
  <2>4. /\ pushed' = pushed + 1 /\ Pushed("Progress", a)
        /\ UNCHANGED <<fifo, events, delivered>>
    BY <2>2 DEF EmitProgress, Q!Coalesce, Q!PushProgress, Q!Overflow, Q!Stamp
  <2>5. \/ progress' = progress /\ progress_order' = progress_order
        \/ /\ progress' = [progress EXCEPT ![a] = pushed']
           /\ progress_order' \in {progress_order, Append(progress_order, a)}
    BY <2>2 DEF Q!Coalesce, Q!PushProgress, Q!Overflow
  <2> QED
    BY <2>1, <2>3, <2>4, <2>5
<1>2. /\ PushTypes' /\ pushed \in Nat
      /\ 1..pushed' = 1..pushed \cup {pushed + 1} /\ pushed + 1 \notin 1..pushed
      /\ Ends' = Ends /\ pushed + 1 \notin Ends
  <2>1. "Progress" \in X!Verdicts \cup {"Progress"}
    OBVIOUS
  <2> QED
    BY <1>0, <1>1, <2>1, PushGrows, PushEnds DEF PushTypes
<1>3. QueueTypes'
  <2>1. progress' \in [Attempts -> Nat] /\ progress_order' \in Seq(Attempts)
    BY <1>0, <1>1, <1>2 DEF QueueTypes
  <2> QED
    BY <1>0, <1>1, <2>1 DEF QueueTypes, Entries
<1>4. Q!Out' = Q!Out
  BY <1>1 DEF Q!Out
<1>5. Sorted'
  <2>1. \A i \in DOMAIN fifo' : fifo'[i] \in Ends'
    BY <1>0, <1>1, <1>2 DEF Sorted, Ends
  <2>2. \A s \in Attempts : s \in Q!Held' => progress'[s] \in 1..pushed' /\ progress'[s] \notin Ends'
    <3> SUFFICES ASSUME NEW s \in Attempts, progress'[s] # 0
                 PROVE  progress'[s] \in 1..pushed' /\ progress'[s] \notin Ends'
      BY DEF Q!Held, Q!Vacant
    <3>1. CASE progress'[s] = progress[s]
      BY <1>0, <1>2, <3>1 DEF Sorted, Q!Held, Q!Vacant
    <3>2. CASE progress'[s] = pushed + 1
      BY <1>2, <3>2
    <3> QED
      BY <1>0, <1>1, <3>1, <3>2 DEF QueueTypes
  <2>3. \A i \in DOMAIN Q!Out' : Q!Out'[i].stamp \in 1..pushed'
    BY <1>0, <1>2, <1>4 DEF Sorted
  <2> QED
    BY <2>1, <2>2, <2>3 DEF Sorted
<1>6. OnePlace'
  <2>1. \A i \in DOMAIN Q!Out : Q!Out[i].stamp \in Ends' => Q!Out[i].stamp \in Ends
    BY <1>0, <1>2 DEF Sorted
  <2> QED
    BY <1>0, <1>1, <1>4, <2>1 DEF OnePlace
<1> QED
  BY <1>2, <1>3, <1>5, <1>6 DEF Placed

(* Progress comes, whether it is queued or not: nothing is said of an end. *)
LEMMA ProgressSteps ==
  ASSUME IInv, NEW a \in Attempts, EmitProgress(a)
  PROVE  IInv'
<1>0. QueueTypes /\ PushTypes /\ Sorted
  BY DEF IInv, Types, Placed
<1>1. /\ UNCHANGED <<fifo, events, delivered, status, attempt, stage, verdict, applied, fate>>
      /\ pushed' = pushed + 1 /\ Pushed("Progress", a)
      /\ dropped_events' \in {dropped_events, dropped_events + 1}
  BY DEF EmitProgress, Q!Coalesce, Q!PushProgress, Q!Overflow, Q!Stamp, recordVars, executorVars
<1>2. /\ 1..pushed' = 1..pushed \cup {pushed + 1} /\ pushed + 1 \notin 1..pushed
      /\ \A n \in 1..pushed : kinds'[n] = kinds[n]
      /\ Ends' = Ends
  <2>1. "Progress" \in X!Verdicts \cup {"Progress"}
    OBVIOUS
  <2> QED
    BY <1>0, <1>1, <2>1, PushGrows, PushEnds
<1>3. QueueTypes' /\ PushTypes' /\ Placed'
  BY ProgressPushPlaced
<1>4. Claims' /\ Once'
  BY <1>1, <1>2 DEF IInv, Claims, Once, Ends
<1>5. SentIsComing'
  <2>1. Coming' = Coming
    BY <1>1, <1>2 DEF Coming, Q!Out
  <2> QED
    BY <1>1, <1>2, <2>1 DEF IInv, SentIsComing, Coming, Ends
<1>6. DropsCounted'
  <2>1. DroppedAttempts' = DroppedAttempts /\ Cardinality(DroppedAttempts) \in Nat /\ dropped_events \in Nat
    BY <1>0, <1>1, AttemptsAssumption, FS_Subset, FS_CardinalityType DEF DroppedAttempts, QueueTypes
  <2> QED
    BY <1>1, <2>1 DEF IInv, DropsCounted
<1>7. SettledHasFate' /\ SpawnedIsKnown' /\ RecordAgrees' /\ RecordTypes' /\ OwnTypes'
  BY <1>1 DEF IInv, Types, SettledHasFate, SpawnedIsKnown, RecordAgrees, RecordTypes, OwnTypes
<1> QED
  BY <1>3, <1>4, <1>5, <1>6, <1>7 DEF IInv, Types

(* What a queue that takes a terminal event becomes.                       *)
LEMMA FifoGrows ==
  ASSUME QueueTypes, NEW n \in Nat, fifo' = Append(fifo, n)
  PROVE  /\ fifo' \in Seq(Nat)
         /\ DOMAIN fifo' = DOMAIN fifo \cup {Len(fifo) + 1} /\ Len(fifo) + 1 \notin DOMAIN fifo
         /\ \A i \in DOMAIN fifo : fifo'[i] = fifo[i]
         /\ fifo'[Len(fifo) + 1] = n
<1>1. fifo \in Seq(Nat) /\ Len(fifo) \in Nat /\ DOMAIN fifo = 1..Len(fifo)
  BY FifoType DEF QueueTypes
<1>2. /\ fifo' \in Seq(Nat) /\ Len(fifo') = Len(fifo) + 1
      /\ \A i \in 1..Len(fifo) : fifo'[i] = fifo[i]
      /\ fifo'[Len(fifo) + 1] = n
  BY <1>1, AppendProperties
<1>3. DOMAIN fifo' = 1..(Len(fifo) + 1)
  BY <1>2, LenProperties
<1> QED
  BY <1>1, <1>2, <1>3

(* A settled attempt brings its one event, queued or dropped.              *)
LEMMA SettleSteps ==
  ASSUME IInv, NEW a \in Attempts, NEW k \in X!Verdicts, Settle(a, k)
  PROVE  IInv'
<1> DEFINE n == pushed + 1
<1>0. QueueTypes /\ PushTypes /\ OwnTypes /\ Sorted /\ OnePlace
  BY DEF IInv, Types, Placed
<1>1. /\ stage[a] = "Live"
      /\ stage' = [stage EXCEPT ![a] = "Settled"] /\ verdict' = [verdict EXCEPT ![a] = k]
      /\ UNCHANGED <<status, attempt, applied, progress, progress_order, events, delivered>>
      /\ pushed' = n /\ Pushed(k, a)
      /\ \/ /\ fifo' = Append(fifo, n) /\ dropped_events' = dropped_events
            /\ fate' = [fate EXCEPT ![a] = "Sent"]
         \/ /\ fifo' = fifo /\ dropped_events' = dropped_events + 1
            /\ fate' = [fate EXCEPT ![a] = "Dropped"]
  BY DEF Settle, X!Settle, Q!PushFifo, Q!Overflow, Q!Stamp, recordVars
<1>2. /\ k \in X!Verdicts \cup {"Progress"} /\ k # "Progress" /\ k # "None"
      /\ n \in Nat /\ dropped_events \in Nat
  BY <1>0 DEF X!Verdicts, PushTypes, QueueTypes
<1>3. /\ PushTypes' /\ 1..pushed' = 1..pushed \cup {n} /\ n \notin 1..pushed
      /\ \A m \in 1..pushed : kinds'[m] = kinds[m]
      /\ kinds'[n].kind = k /\ kinds'[n].attempt = a
  <2>1. /\ PushTypes' /\ 1..pushed' = 1..pushed \cup {n} /\ n \notin 1..pushed
        /\ \A m \in 1..pushed : kinds'[m] = kinds[m]
        /\ kinds'[n] = [kind |-> k, attempt |-> a]
    BY <1>0, <1>1, <1>2, PushGrows
  <2>2. kinds'[n].kind = k /\ kinds'[n].attempt = a
    BY <2>1
  <2> QED
    BY <2>1, <2>2
<1>4. Ends' = Ends \cup {n} /\ n \notin Ends /\ Ends \subseteq 1..pushed
  BY <1>0, <1>1, <1>2, PushEnds DEF Ends
<1>5. \A m \in Ends : kinds[m].attempt \in Attempts \ {a} /\ kinds'[m] = kinds[m]
  <2>1. \A m \in 1..pushed : kinds[m].attempt \in Attempts
    BY <1>0, KindsType
  <2>2. \A m \in Ends : stage[kinds[m].attempt] = "Settled"
    BY DEF IInv, Claims
  <2> HIDE DEF n
  <2> QED
    BY <1>1, <1>3, <1>4, <2>1, <2>2
<1>6. Q!Out' = Q!Out /\ Q!Held' = Q!Held
  BY <1>1 DEF Q!Out, Q!Held
<1>7. /\ fifo' \in Seq(Nat)
      /\ \A i \in DOMAIN fifo' : fifo'[i] \in {fifo[j] : j \in DOMAIN fifo} \cup {n}
      /\ \A i, j \in DOMAIN fifo' : fifo'[i] = fifo'[j] => i = j
      /\ \A m \in Ends : (\E i \in DOMAIN fifo' : fifo'[i] = m) <=> (\E i \in DOMAIN fifo : fifo[i] = m)
      /\ (\E i \in DOMAIN fifo' : fifo'[i] = n) <=> fate'[a] = "Sent"
  <2>1. \A i \in DOMAIN fifo : fifo[i] \in Ends
    BY <1>0 DEF Sorted
  <2>2. \A f \in Fates : fate' = [fate EXCEPT ![a] = f] => fate'[a] = f
    BY <1>0 DEF OwnTypes
  <2>3. CASE fifo' = fifo /\ fate' = [fate EXCEPT ![a] = "Dropped"]
    <3>1. fate'[a] = "Dropped"
      BY <2>2, <2>3 DEF Fates
    <3> QED
      BY <1>0, <1>4, <2>1, <2>3, <3>1 DEF QueueTypes, OnePlace
  <2>4. CASE fifo' = Append(fifo, n) /\ fate' = [fate EXCEPT ![a] = "Sent"]
    <3>1. /\ fifo' \in Seq(Nat)
          /\ DOMAIN fifo' = DOMAIN fifo \cup {Len(fifo) + 1} /\ Len(fifo) + 1 \notin DOMAIN fifo
          /\ \A i \in DOMAIN fifo : fifo'[i] = fifo[i]
          /\ fifo'[Len(fifo) + 1] = n
      BY <1>0, <1>2, <2>4, FifoGrows
    <3>2. fate'[a] = "Sent"
      BY <2>2, <2>4 DEF Fates
    <3> QED
      BY <1>0, <1>4, <2>1, <2>4, <3>1, <3>2 DEF OnePlace
  <2> QED
    BY <1>1, <2>3, <2>4
<1> HIDE DEF n
<1>8. QueueTypes'
  BY <1>0, <1>1, <1>2, <1>7 DEF QueueTypes, Entries
<1>9. Placed'
  <2>1. Sorted'
    <3>1. \A i \in DOMAIN fifo' : fifo'[i] \in Ends'
      BY <1>0, <1>4, <1>7 DEF Sorted
    <3>2. \A s \in Attempts : s \in Q!Held => progress[s] \in 1..pushed' /\ progress[s] \notin Ends'
      BY <1>0, <1>3, <1>4 DEF Sorted
    <3>3. \A i \in DOMAIN Q!Out : Q!Out[i].stamp \in 1..pushed'
      BY <1>0, <1>3 DEF Sorted
    <3> QED
      BY <1>1, <1>6, <3>1, <3>2, <3>3 DEF Sorted
  <2>2. OnePlace'
    <3>1. \A i \in DOMAIN Q!Out : Q!Out[i].stamp # n
      BY <1>0, <1>3 DEF Sorted
    <3>2. \A i \in DOMAIN Q!Out, j \in DOMAIN fifo' : Q!Out[i].stamp # fifo'[j]
      BY <1>0, <1>7, <3>1 DEF OnePlace
    <3>3. \A i, j \in DOMAIN Q!Out :
            Q!Out[i].stamp = Q!Out[j].stamp /\ Q!Out[i].stamp \in Ends' => i = j
      BY <1>0, <1>4, <3>1 DEF OnePlace
    <3> QED
      BY <1>6, <1>7, <3>2, <3>3 DEF OnePlace
  <2> QED
    BY <2>1, <2>2 DEF Placed
<1>10. /\ stage'[a] = "Settled" /\ verdict'[a] = k
       /\ \A b \in Attempts \ {a} : stage'[b] = stage[b] /\ verdict'[b] = verdict[b] /\ fate'[b] = fate[b]
       /\ fate'[a] \in {"Sent", "Dropped"}
  BY <1>0, <1>1 DEF OwnTypes
<1>11. Claims' /\ Once'
  <2>1. ASSUME NEW m \in Ends'
        PROVE  stage'[kinds'[m].attempt] = "Settled" /\ verdict'[kinds'[m].attempt] = kinds'[m].kind
    <3>1. CASE m = n
      BY <1>3, <1>10, <3>1
    <3>2. CASE m \in Ends
      <4>1. stage[kinds[m].attempt] = "Settled" /\ verdict[kinds[m].attempt] = kinds[m].kind
        BY <3>2 DEF IInv, Claims
      <4> QED
        BY <1>5, <1>10, <3>2, <4>1
    <3> QED
      BY <1>4, <3>1, <3>2
  <2>2. ASSUME NEW m \in Ends', NEW l \in Ends', kinds'[m].attempt = kinds'[l].attempt
        PROVE  m = l
    <3>1. CASE m \in Ends /\ l \in Ends
      BY <1>5, <2>2, <3>1 DEF IInv, Once
    <3>2. CASE m = n \/ l = n
      BY <1>3, <1>4, <1>5, <2>2, <3>2
    <3> QED
      BY <1>4, <3>1, <3>2
  <2> QED
    BY <2>1, <2>2 DEF Claims, Once
<1>12. SentIsComing'
  <2>1. \A m \in Ends : m \in Coming' <=> m \in Coming
    <3>1. applied' = applied /\ \A m \in Ends : m \in Ends'
      BY <1>1, <1>4
    <3> QED
      BY <1>6, <1>7, <3>1 DEF Coming
  <2>2. n \in Coming' <=> fate'[a] = "Sent"
    <3>1. \A i \in DOMAIN Q!Out : Q!Out[i].stamp # n
      BY <1>0, <1>3 DEF Sorted
    <3> QED
      <4>1. n \in Ends' /\ \A i \in DOMAIN Q!Out' : Q!Out'[i].stamp # n
        BY <1>4, <1>6, <3>1
      <4>2. n \in Coming' <=> \E i \in DOMAIN fifo' : fifo'[i] = n
        BY <4>1 DEF Coming
      <4> QED
        BY <1>7, <4>2
  <2>3. Coming' \subseteq Ends \cup {n} /\ Coming \subseteq Ends
    <3>1. Coming' \subseteq Ends' /\ Coming \subseteq Ends
      BY DEF Coming
    <3> QED
      BY <1>4, <3>1
  <2> SUFFICES ASSUME NEW b \in Attempts
               PROVE  fate'[b] = "Sent" <=> \E m \in Coming' : kinds'[m].attempt = b
    BY DEF SentIsComing
  <2>4. CASE b = a
    BY <1>3, <1>5, <2>2, <2>3, <2>4
  <2>5. CASE b # a
    BY <1>3, <1>5, <1>10, <2>1, <2>3, <2>5 DEF IInv, SentIsComing
  <2> QED
    BY <2>4, <2>5
<1>13. SettledHasFate' /\ SpawnedIsKnown' /\ RecordTypes'
  <2>1. SettledHasFate'
    <3> SUFFICES ASSUME NEW b \in Attempts
                 PROVE  fate'[b] # "None" <=> stage'[b] = "Settled"
      BY DEF SettledHasFate
    <3>1. CASE b = a
      BY <1>10, <3>1
    <3>2. CASE b # a
      BY <1>10, <3>2 DEF IInv, SettledHasFate
    <3> QED
      BY <3>1, <3>2
  <2>2. SpawnedIsKnown'
    BY <1>1, <1>10 DEF IInv, SpawnedIsKnown
  <2> QED
    BY <1>1, <2>1, <2>2 DEF IInv, Types, RecordTypes
<1>14. OwnTypes'
  BY <1>0, <1>1, <1>2 DEF OwnTypes, Stages, Fates
<1>15. RecordAgrees'
  <2>1. status \in R!Terminal => attempt \in Attempts \ {a}
    BY <1>1 DEF IInv, Types, RecordTypes, RecordAgrees
  <2> QED
    BY <1>1, <1>10, <2>1 DEF IInv, RecordAgrees
<1>16. DropsCounted'
  <2>1. IsFiniteSet(DroppedAttempts) /\ Cardinality(DroppedAttempts) \in Nat /\ a \notin DroppedAttempts
    BY <1>1, AttemptsAssumption, FS_Subset, FS_CardinalityType DEF DroppedAttempts, IInv, SettledHasFate
  <2>2. DroppedAttempts' = IF fate'[a] = "Dropped" THEN DroppedAttempts \cup {a} ELSE DroppedAttempts
    BY <1>10, <2>1 DEF DroppedAttempts
  <2>3. Cardinality(DroppedAttempts') = IF fate'[a] = "Dropped" THEN Cardinality(DroppedAttempts) + 1
                                                               ELSE Cardinality(DroppedAttempts)
    BY <2>1, <2>2, FS_AddElement
  <2>4. dropped_events' = IF fate'[a] = "Dropped" THEN dropped_events + 1 ELSE dropped_events
    BY <1>0, <1>1 DEF OwnTypes
  <2> QED
    BY <1>2, <2>1, <2>3, <2>4 DEF IInv, DropsCounted
<1> QED
  BY <1>3, <1>8, <1>9, <1>11, <1>12, <1>13, <1>14, <1>15, <1>16 DEF IInv, Types
-----------------------------------------------------------------------------
(* A drain moves terminal events, and none of them gets lost: what is      *)
(* coming is the same set before and after each turn.                      *)
LEMMA DrainFrame ==
  ASSUME IInv, QueueTypes', Placed', Coming' = Coming, Len(delivered) <= Len(delivered'),
         UNCHANGED <<recordVars, executorVars, applied, kinds, fate, pushed, dropped_events>>
  PROVE  IInv'
<1>1. UNCHANGED <<status, attempt, stage, verdict, applied, kinds, fate, pushed, dropped_events>>
  BY DEF recordVars, executorVars
<1>2. PushTypes' /\ RecordTypes' /\ Claims' /\ Once' /\ SettledHasFate' /\ SpawnedIsKnown' /\ RecordAgrees'
  BY <1>1 DEF IInv, Types, PushTypes, RecordTypes, Claims, Once, Ends, SettledHasFate,
              SpawnedIsKnown, RecordAgrees
<1>3. DropsCounted'
  BY <1>1 DEF IInv, DropsCounted, DroppedAttempts
<1>4. SentIsComing'
  BY <1>1 DEF IInv, SentIsComing
<1>5. OwnTypes'
  <2>1. Len(delivered) \in Nat /\ Len(delivered') \in Nat /\ applied \in 0..Len(delivered)
    BY LenProperties DEF IInv, Types, QueueTypes, OwnTypes
  <2>2. applied' \in 0..Len(delivered')
    BY <1>1, <2>1
  <2> QED
    BY <1>1, <2>2 DEF IInv, Types, OwnTypes
<1> QED
  BY <1>2, <1>3, <1>4, <1>5 DEF IInv, Types

(* The head of the fifo leaves it.                                         *)
LEMMA FifoShrinks ==
  ASSUME QueueTypes, fifo # <<>>, fifo' = Tail(fifo)
  PROVE  /\ fifo' \in Seq(Nat) /\ 1 \in DOMAIN fifo /\ Head(fifo) = fifo[1]
         /\ \A i \in DOMAIN fifo' : i + 1 \in DOMAIN fifo /\ fifo'[i] = fifo[i + 1]
         /\ \A i \in DOMAIN fifo : i = 1 \/ (i - 1 \in DOMAIN fifo' /\ fifo'[i - 1] = fifo[i])
         /\ DOMAIN fifo \subseteq Nat /\ DOMAIN fifo' \subseteq Nat
<1>1. fifo \in Seq(Nat) /\ Len(fifo) \in Nat /\ DOMAIN fifo = 1..Len(fifo)
  BY FifoType DEF QueueTypes
<1>2. /\ fifo' \in Seq(Nat) /\ Len(fifo') = Len(fifo) - 1 /\ Len(fifo) # 0
      /\ Head(fifo) = fifo[1]
      /\ \A i \in 1..Len(fifo') : fifo'[i] = fifo[i + 1]
  BY <1>1, HeadTailProperties, EmptySeq
<1>3. DOMAIN fifo' = 1..Len(fifo')
  BY <1>2, LenProperties
<1> QED
  BY <1>1, <1>2, <1>3

LEMMA TakeFifoSteps ==
  ASSUME IInv, Q!TakeFifo,
         UNCHANGED <<recordVars, executorVars, applied, kinds, fate>>
  PROVE  IInv'
<1> DEFINE h == Head(fifo)
           e == [slot |-> NoSlot, stamp |-> h]
           last == Len(Q!Out) + 1
<1>0. QueueTypes /\ OwnTypes /\ Sorted /\ OnePlace
  BY DEF IInv, Types, Placed
<1>1. /\ fifo # <<>> /\ fifo' = Tail(fifo) /\ events' = Append(events, e)
      /\ UNCHANGED <<progress, progress_order, delivered, pushed, dropped_events, kinds, applied>>
  BY DEF Q!TakeFifo
<1>2. /\ fifo' \in Seq(Nat) /\ 1 \in DOMAIN fifo /\ h = fifo[1]
      /\ \A i \in DOMAIN fifo' : i + 1 \in DOMAIN fifo /\ fifo'[i] = fifo[i + 1]
      /\ \A i \in DOMAIN fifo : i = 1 \/ (i - 1 \in DOMAIN fifo' /\ fifo'[i - 1] = fifo[i])
      /\ DOMAIN fifo \subseteq Nat /\ DOMAIN fifo' \subseteq Nat
  BY <1>0, <1>1, FifoShrinks
<1>3. h \in Ends /\ h \in 1..pushed /\ h \in Nat
  BY <1>0, <1>2 DEF Sorted, Ends
<1>4. e \in Entries /\ e.stamp = h
  BY <1>3 DEF Entries
<1> HIDE DEF e, h
<1>5. /\ events' \in Seq(Entries)
      /\ DOMAIN Q!Out' = DOMAIN Q!Out \cup {last} /\ last \notin DOMAIN Q!Out
      /\ \A i \in DOMAIN Q!Out : Q!Out'[i] = Q!Out[i]
      /\ Q!Out'[last] = e
  BY <1>0, <1>1, <1>4, OutGrows
<1>6. last > applied
  BY <1>0, OutType DEF OwnTypes
<1> HIDE DEF last
<1>7. QueueTypes'
  BY <1>0, <1>1, <1>2, <1>5 DEF QueueTypes, Entries
<1>8. Ends' = Ends /\ Q!Held' = Q!Held
  BY <1>1 DEF Ends, Q!Held
<1>9. Sorted'
  <2>1. \A i \in DOMAIN fifo' : fifo'[i] \in Ends'
    BY <1>0, <1>2, <1>8 DEF Sorted
  <2>2. \A i \in DOMAIN Q!Out' : Q!Out'[i].stamp \in 1..pushed'
    BY <1>0, <1>1, <1>3, <1>4, <1>5 DEF Sorted
  <2>3. \A s \in Attempts : s \in Q!Held' => progress'[s] \in 1..pushed' /\ progress'[s] \notin Ends'
    BY <1>0, <1>1, <1>8 DEF Sorted
  <2> QED
    BY <2>1, <2>2, <2>3 DEF Sorted
<1>10. OnePlace'
  <2>1. \A i \in DOMAIN Q!Out : Q!Out[i].stamp # h
    BY <1>0, <1>2 DEF OnePlace
  <2>2. \A i, j \in DOMAIN fifo' : fifo'[i] = fifo'[j] => i = j
    BY <1>0, <1>2 DEF OnePlace
  <2>3. \A i \in DOMAIN fifo' : fifo'[i] # h
    BY <1>0, <1>2 DEF OnePlace
  <2>4. \A i, j \in DOMAIN Q!Out' :
          Q!Out'[i].stamp = Q!Out'[j].stamp /\ Q!Out'[i].stamp \in Ends' => i = j
    BY <1>0, <1>4, <1>5, <1>8, <2>1 DEF OnePlace
  <2>5. \A i \in DOMAIN Q!Out', j \in DOMAIN fifo' : Q!Out'[i].stamp # fifo'[j]
    BY <1>0, <1>2, <1>4, <1>5, <2>3 DEF OnePlace
  <2> QED
    BY <2>2, <2>4, <2>5 DEF OnePlace
<1>11. Coming' = Coming
  <2>1. ASSUME NEW m PROVE (\E i \in DOMAIN fifo : fifo[i] = m)
                             <=> m = h \/ \E i \in DOMAIN fifo' : fifo'[i] = m
    BY <1>2
  <2>2. ASSUME NEW m PROVE (\E i \in DOMAIN Q!Out' : i > applied' /\ Q!Out'[i].stamp = m)
                             <=> m = h \/ \E i \in DOMAIN Q!Out : i > applied /\ Q!Out[i].stamp = m
    BY <1>1, <1>4, <1>5, <1>6
  <2> QED
    BY <1>8, <2>1, <2>2 DEF Coming
<1>12. Len(delivered) <= Len(delivered')
  BY <1>0, <1>1, OutType
<1> QED
  BY <1>1, <1>7, <1>9, <1>10, <1>11, <1>12, DrainFrame DEF Placed

LEMMA TakeProgressSteps ==
  ASSUME IInv, Q!TakeProgress,
         UNCHANGED <<recordVars, executorVars, applied, kinds, fate>>
  PROVE  IInv'
<1> DEFINE s == Head(progress_order)
           e == [slot |-> s, stamp |-> progress[s]]
           last == Len(Q!Out) + 1
<1>0. QueueTypes /\ PushTypes /\ OwnTypes /\ Sorted /\ OnePlace
  BY DEF IInv, Types, Placed
<1>1. /\ progress_order # <<>> /\ progress_order' = Tail(progress_order)
      /\ \/ /\ s \in Q!Held /\ progress' = [progress EXCEPT ![s] = 0]
            /\ events' = Append(events, e)
         \/ UNCHANGED <<progress, events>>
      /\ UNCHANGED <<fifo, delivered, pushed, dropped_events, kinds, applied>>
  BY DEF Q!TakeProgress, Q!Vacant
<1>2. s \in Attempts /\ progress_order' \in Seq(Attempts)
  BY <1>0, <1>1, HeadTailProperties DEF QueueTypes
<1>3. Ends' = Ends
  BY <1>1 DEF Ends
<1>4. Len(delivered) <= Len(delivered')
  BY <1>0, <1>1, OutType
<1>5. CASE UNCHANGED <<progress, events>>
  <2>1. Q!Out' = Q!Out /\ Q!Held' = Q!Held
    BY <1>1, <1>5 DEF Q!Out, Q!Held
  <2>2. QueueTypes'
    BY <1>0, <1>1, <1>2, <1>5 DEF QueueTypes, Entries
  <2>3. Placed' /\ Coming' = Coming
    BY <1>0, <1>1, <1>3, <1>5, <2>1 DEF Placed, Sorted, OnePlace, Coming
  <2> QED
    BY <1>1, <1>4, <2>2, <2>3, DrainFrame
<1>6. CASE s \in Q!Held /\ progress' = [progress EXCEPT ![s] = 0] /\ events' = Append(events, e)
  <2>1. progress[s] \in 1..pushed /\ progress[s] \notin Ends /\ progress[s] \in Nat
    BY <1>0, <1>2, <1>6 DEF Sorted, PushTypes
  <2>2. e \in Entries /\ e.stamp = progress[s]
    BY <1>2, <2>1 DEF Entries
  <2> HIDE DEF e
  <2>3. /\ events' \in Seq(Entries)
        /\ DOMAIN Q!Out' = DOMAIN Q!Out \cup {last} /\ last \notin DOMAIN Q!Out
        /\ \A i \in DOMAIN Q!Out : Q!Out'[i] = Q!Out[i]
        /\ Q!Out'[last] = e
    BY <1>0, <1>1, <1>6, <2>2, OutGrows
  <2> HIDE DEF last, s
  <2>4. /\ progress' \in [Attempts -> Nat]
        /\ \A t \in Attempts : t \in Q!Held' => t \in Q!Held /\ progress'[t] = progress[t]
    BY <1>0, <1>2, <1>6 DEF QueueTypes, Q!Held, Q!Vacant
  <2>5. QueueTypes'
    BY <1>0, <1>1, <1>2, <2>3, <2>4 DEF QueueTypes, Entries
  <2>6. Sorted'
    <3>1. \A i \in DOMAIN Q!Out' : Q!Out'[i].stamp \in 1..pushed'
      BY <1>0, <1>1, <2>1, <2>2, <2>3 DEF Sorted
    <3>2. \A t \in Attempts : t \in Q!Held' => progress'[t] \in 1..pushed' /\ progress'[t] \notin Ends'
      BY <1>0, <1>1, <1>3, <2>4 DEF Sorted
    <3>3. \A i \in DOMAIN fifo' : fifo'[i] \in Ends'
      BY <1>0, <1>1, <1>3 DEF Sorted
    <3> QED
      BY <3>1, <3>2, <3>3 DEF Sorted
  <2>7. OnePlace'
    <3>1. \A i \in DOMAIN fifo : fifo[i] # progress[s]
      BY <1>0, <2>1 DEF Sorted
    <3>2. \A i, j \in DOMAIN Q!Out' :
            Q!Out'[i].stamp = Q!Out'[j].stamp /\ Q!Out'[i].stamp \in Ends' => i = j
      BY <1>0, <1>3, <2>1, <2>2, <2>3 DEF OnePlace
    <3>3. \A i \in DOMAIN Q!Out', j \in DOMAIN fifo' : Q!Out'[i].stamp # fifo'[j]
      BY <1>0, <1>1, <2>2, <2>3, <3>1 DEF OnePlace
    <3>4. \A i, j \in DOMAIN fifo' : fifo'[i] = fifo'[j] => i = j
      BY <1>0, <1>1 DEF OnePlace
    <3> QED
      BY <3>2, <3>3, <3>4 DEF OnePlace
  <2>8. Coming' = Coming
    <3>1. ASSUME NEW m \in Ends
          PROVE (\E i \in DOMAIN Q!Out' : i > applied' /\ Q!Out'[i].stamp = m)
                  <=> \E i \in DOMAIN Q!Out : i > applied /\ Q!Out[i].stamp = m
      BY <1>1, <2>1, <2>2, <2>3
    <3> QED
      BY <1>1, <1>3, <3>1 DEF Coming
  <2> QED
    BY <1>1, <1>4, <2>5, <2>6, <2>7, <2>8, DrainFrame DEF Placed
<1> QED
  BY <1>1, <1>5, <1>6

LEMMA DrainSteps == ASSUME IInv, Drain PROVE IInv'
<1>0. QueueTypes /\ Placed
  BY DEF IInv, Types
<1>1. UNCHANGED <<recordVars, executorVars, applied, kinds, fate>>
  BY DEF Drain
<1>2. ASSUME NEW budget \in {1, MaxPushes}, Q!BeginDrain(budget)
      PROVE  IInv'
  <2>1. UNCHANGED <<fifo, progress, progress_order, events, delivered, pushed, kinds, dropped_events>>
    BY <1>1, <1>2 DEF Q!BeginDrain
  <2>2. QueueTypes' /\ Placed'
    BY <2>1, QueueFrame DEF IInv, Types
  <2>3. Coming' = Coming
    BY <1>1, <2>1 DEF Coming, Ends, Q!Out
  <2>4. Len(delivered) <= Len(delivered')
    BY <1>0, <2>1, OutType
  <2> QED
    BY <1>1, <2>1, <2>2, <2>3, <2>4, DrainFrame
<1>3. CASE Q!EndDrain
  <2>1. /\ UNCHANGED <<fifo, progress, progress_order, pushed, kinds, dropped_events>>
        /\ events' = <<>> /\ delivered' = delivered \o events
    BY <1>1, <1>3 DEF Q!EndDrain
  <2>2. Q!Out' = Q!Out /\ delivered' \in Seq(Entries) /\ Len(delivered) <= Len(delivered')
    BY <1>0, <2>1, OutStays
  <2>3. QueueTypes'
    BY <1>0, <2>1, <2>2, EmptySeq DEF QueueTypes, Entries
  <2>4. Ends' = Ends /\ Q!Held' = Q!Held
    BY <2>1 DEF Ends, Q!Held
  <2>5. Placed' /\ Coming' = Coming
    BY <1>0, <1>1, <2>1, <2>2, <2>4 DEF Placed, Sorted, OnePlace, Coming
  <2> QED
    BY <1>1, <2>1, <2>2, <2>3, <2>5, DrainFrame
<1> QED
  BY <1>1, <1>2, <1>3, TakeFifoSteps, TakeProgressSteps DEF Drain
-----------------------------------------------------------------------------
(* The consumer's next event: if it is terminal, it was coming, it is what *)
(* the executor said of its attempt, and nothing of it is coming any more. *)
Handled == delivered[applied + 1].stamp

LEMMA ApplyTakes ==
  ASSUME IInv, Apply
  PROVE  /\ Handled \in 1..pushed /\ Event = kinds[Handled]
         /\ Event.kind = "Progress" => Coming' = Coming
         /\ Event.kind # "Progress" =>
              /\ Handled \in Ends /\ Handled \in Coming /\ Coming' = Coming \ {Handled}
              /\ Event.attempt \in Attempts /\ fate[Event.attempt] = "Sent"
              /\ stage[Event.attempt] = "Settled" /\ verdict[Event.attempt] = Event.kind
              /\ Event.kind \in R!Terminal
<1> DEFINE n == Handled
           p == applied + 1
<1>0. QueueTypes /\ PushTypes /\ OwnTypes /\ Sorted /\ OnePlace
  BY DEF IInv, Types, Placed
<1>1. /\ applied < Len(delivered) /\ applied' = p
      /\ UNCHANGED <<fifo, events, delivered, pushed, kinds>>
  BY DEF Apply, queueVars
<1>2. /\ applied \in Nat /\ p \in DOMAIN Q!Out /\ Q!Out[p].stamp = n /\ DOMAIN Q!Out \subseteq Nat
      /\ \A i \in DOMAIN Q!Out : i > applied <=> i = p \/ i > p
  <2>1. /\ applied \in Nat /\ Len(delivered) \in Nat /\ p \in 1..Len(delivered)
    BY <1>0, <1>1, OutType DEF OwnTypes
  <2>2. p \in DOMAIN Q!Out /\ Q!Out[p] = delivered[p] /\ DOMAIN Q!Out \subseteq Nat
    BY <1>0, <2>1, OutType
  <2> QED
    BY <2>1, <2>2 DEF Handled
<1>3. n \in 1..pushed /\ Event = kinds[n]
  BY <1>0, <1>2 DEF Sorted, Event, Handled
<1>4. Ends' = Ends /\ Q!Out' = Q!Out
  BY <1>1 DEF Ends, Q!Out
<1> HIDE DEF n, p
<1>5. CASE Event.kind = "Progress"
  <2>1. n \notin Ends
    BY <1>3, <1>5 DEF Ends
  <2>2. Coming' = Coming
    <3>1. ASSUME NEW m \in Ends
          PROVE (\E i \in DOMAIN Q!Out : i > p /\ Q!Out[i].stamp = m)
                  <=> \E i \in DOMAIN Q!Out : i > applied /\ Q!Out[i].stamp = m
      BY <1>2, <2>1
    <3> QED
      BY <1>1, <1>4, <3>1 DEF Coming
  <2> QED
    BY <1>3, <1>5, <2>2 DEF n
<1>6. CASE Event.kind # "Progress"
  <2>1. n \in Ends
    BY <1>3, <1>6 DEF Ends
  <2>2. n \in Coming
    BY <1>2, <2>1 DEF Coming
  <2>3. Coming' = Coming \ {n}
    <3>1. \A j \in DOMAIN fifo : fifo[j] # n
      BY <1>0, <1>2 DEF OnePlace
    <3>2. \A i \in DOMAIN Q!Out : Q!Out[i].stamp = n => i = p
      BY <1>0, <1>2, <2>1 DEF OnePlace
    <3>3. ~(p > p)
      BY <1>2 DEF p
    <3>4. ASSUME NEW m \in Ends
          PROVE (\E i \in DOMAIN Q!Out : i > p /\ Q!Out[i].stamp = m)
                  <=> m # n /\ \E i \in DOMAIN Q!Out : i > applied /\ Q!Out[i].stamp = m
      BY <1>2, <3>2, <3>3
    <3> QED
      BY <1>1, <1>4, <3>1, <3>4 DEF Coming
  <2>4. Event.attempt \in Attempts /\ Event.kind \in X!Verdicts
    BY <1>0, <1>3, <2>1, KindsType
  <2>5. fate[Event.attempt] = "Sent"
    BY <1>3, <2>2, <2>4 DEF IInv, SentIsComing
  <2>6. stage[Event.attempt] = "Settled" /\ verdict[Event.attempt] = Event.kind
    BY <1>3, <2>1 DEF IInv, Claims
  <2>7. Event.kind \in R!Terminal
    BY <2>4 DEF X!Verdicts, R!Terminal
  <2> QED
    BY <1>3, <1>6, <2>1, <2>2, <2>3, <2>4, <2>5, <2>6, <2>7 DEF n
<1> QED
  BY <1>5, <1>6

LEMMA ApplySteps == ASSUME IInv, Apply PROVE IInv'
<1> DEFINE a == Event.attempt
           k == Event.kind
<1>0. QueueTypes /\ PushTypes /\ OwnTypes /\ RecordTypes
  BY DEF IInv, Types
<1>1. /\ applied < Len(delivered) /\ applied' = applied + 1
      /\ UNCHANGED <<fifo, progress, progress_order, events, delivered, pushed, kinds, dropped_events>>
      /\ UNCHANGED <<stage, verdict>>
  BY DEF Apply, queueVars, executorVars
<1>2. QueueTypes' /\ PushTypes' /\ Placed'
  BY <1>1, QueueFrame DEF IInv, Types
<1>3. Claims' /\ Once'
  BY <1>1 DEF IInv, Claims, Once, Ends
<1>4. applied' \in 0..Len(delivered')
  BY <1>0, <1>1, OutType DEF OwnTypes
<1>5. CASE k = "Progress"
  <2>1. UNCHANGED <<status, attempt, fate>>
    BY <1>5 DEF Apply, recordVars
  <2>2. Coming' = Coming
    BY <1>5, ApplyTakes
  <2>3. SentIsComing'
    BY <1>1, <2>1, <2>2 DEF IInv, SentIsComing
  <2>4. /\ SettledHasFate' /\ SpawnedIsKnown' /\ RecordAgrees' /\ DropsCounted' /\ RecordTypes'
    BY <1>1, <2>1 DEF IInv, Types, SettledHasFate, SpawnedIsKnown, RecordAgrees, DropsCounted,
                      DroppedAttempts, RecordTypes
  <2>5. OwnTypes'
    BY <1>0, <1>1, <1>4, <2>1 DEF OwnTypes
  <2> QED
    BY <1>2, <1>3, <2>3, <2>4, <2>5 DEF IInv, Types
<1>6. CASE k # "Progress"
  <2>1. /\ Handled \in Ends /\ Handled \in Coming /\ Coming' = Coming \ {Handled}
        /\ kinds[Handled].attempt = a /\ a \in Attempts /\ fate[a] = "Sent"
        /\ stage[a] = "Settled" /\ verdict[a] = k /\ k \in R!Terminal
    BY <1>6, ApplyTakes
  <2>2. \/ /\ attempt = a /\ attempt' = a /\ status' = k
           /\ fate' = [fate EXCEPT ![a] = "Applied"]
        \/ /\ UNCHANGED <<status, attempt>>
           /\ fate' = [fate EXCEPT ![a] = "Refused"]
    <3>1. CASE /\ Accepts(a, k)
               /\ IF k = "FinishedAfterCancel" THEN R!FinishAfterCancel(a) ELSE R!Settle(a, k)
               /\ fate' = [fate EXCEPT ![a] = "Applied"]
      <4>1. attempt = a
        BY <3>1 DEF Accepts, R!ActiveAttempt, R!TerminalEventAttempt
      <4>2. status' = k /\ attempt' = attempt
        BY <3>1 DEF R!FinishAfterCancel, R!Settle
      <4> QED
        BY <3>1, <4>1, <4>2
    <3> QED
      BY <1>6, <3>1 DEF Apply, recordVars
  <2> HIDE DEF a, k
  <2>3. /\ fate' \in [Attempts -> Fates]
        /\ fate'[a] \in {"Applied", "Refused"}
        /\ \A b \in Attempts \ {a} : fate'[b] = fate[b]
        /\ fate' = [fate EXCEPT ![a] = "Applied"] => fate'[a] = "Applied"
    BY <1>0, <2>1, <2>2 DEF OwnTypes, Fates
  <2>4. SentIsComing'
    <3> SUFFICES ASSUME NEW b \in Attempts
                 PROVE  fate'[b] = "Sent" <=> \E m \in Coming' : kinds'[m].attempt = b
      BY DEF SentIsComing
    <3>1. Coming \subseteq Ends
      BY DEF Coming
    <3>2. CASE b = a
      BY <1>1, <2>1, <2>3, <3>1, <3>2 DEF IInv, Once
    <3>3. CASE b # a
      BY <1>1, <2>1, <2>3, <3>3 DEF IInv, SentIsComing
    <3> QED
      BY <3>2, <3>3
  <2>5. SettledHasFate'
    <3> SUFFICES ASSUME NEW b \in Attempts
                 PROVE  fate'[b] # "None" <=> stage'[b] = "Settled"
      BY DEF SettledHasFate
    <3>1. CASE b = a
      BY <1>1, <2>1, <2>3, <3>1
    <3>2. CASE b # a
      BY <1>1, <2>3, <3>2 DEF IInv, SettledHasFate
    <3> QED
      BY <3>1, <3>2
  <2>6. SpawnedIsKnown' /\ RecordTypes'
    BY <1>0, <1>1, <2>1, <2>2 DEF IInv, SpawnedIsKnown, RecordTypes
  <2>7. RecordAgrees'
    <3>1. CASE attempt' = a /\ status' = k /\ fate' = [fate EXCEPT ![a] = "Applied"]
      BY <1>1, <2>1, <2>3, <3>1 DEF RecordAgrees
    <3>2. CASE UNCHANGED <<status, attempt>>
      <4>1. status \in R!Terminal => attempt \in Attempts /\ fate[attempt] = "Applied"
        BY <1>0 DEF IInv, RecordTypes, RecordAgrees
      <4>2. status \in R!Terminal => attempt \in Attempts \ {a}
        BY <2>1, <4>1
      <4> QED
        BY <1>1, <2>3, <3>2, <4>2 DEF IInv, RecordAgrees
    <3> QED
      BY <2>2, <3>1, <3>2
  <2>8. DropsCounted'
    <3>1. DroppedAttempts' = DroppedAttempts
      BY <2>1, <2>3 DEF DroppedAttempts
    <3> QED
      BY <1>1, <3>1 DEF IInv, DropsCounted
  <2>9. OwnTypes'
    BY <1>0, <1>1, <1>4, <2>3 DEF OwnTypes
  <2> QED
    BY <1>2, <1>3, <2>4, <2>5, <2>6, <2>7, <2>8, <2>9 DEF IInv, Types
<1> QED
  BY <1>5, <1>6

LEMMA NextIInv == IInv /\ [Next]_vars => IInv'
<1> SUFFICES ASSUME IInv, [Next]_vars PROVE IInv'
  OBVIOUS
<1>1. CASE UNCHANGED vars
  <2>1. /\ UNCHANGED <<fifo, progress, progress_order, events, delivered, pushed, kinds, dropped_events>>
        /\ UNCHANGED <<recordVars, executorVars, applied, fate>>
    BY <1>1 DEF vars, queueVars
  <2>2. QueueTypes' /\ Placed'
    BY <2>1, QueueFrame DEF IInv, Types
  <2>3. Coming' = Coming
    BY <2>1 DEF Coming, Ends, Q!Out
  <2>4. Len(delivered) <= Len(delivered')
    BY <2>1, OutType DEF IInv, Types
  <2> QED
    BY <2>1, <2>2, <2>3, <2>4, DrainFrame
<1>2. CASE Next
  BY <1>2, RecordSteps, ExecutorSteps, ProgressSteps, SettleSteps, DrainSteps, ApplySteps DEF Next
<1> QED
  BY <1>1, <1>2

THEOREM Invariance == Spec => []IInv
  BY InitIInv, NextIInv, PTL DEF Spec

(* The record ends as the executor said, whatever the number of attempts,  *)
(* the capacity and the budgets of the drains.                             *)
THEOREM RecordAgreement == Spec => []RecordAgrees
<1>1. IInv => RecordAgrees
  BY DEF IInv
<1> QED
  BY <1>1, Invariance, PTL

(* Where the terminal event of an attempt is.                              *)
LEMMA InOnePlace ==
  ASSUME IInv, NEW a \in Attempts
  PROVE  Cardinality(OnItsWay(a)) = IF fate[a] = "Sent" THEN 1 ELSE 0
<1>1. /\ DOMAIN kinds = 1..pushed
      /\ \A m \in 1..pushed : kinds[m] \in [kind : X!Verdicts \cup {"Progress"}, attempt : Attempts]
  BY KindsType, LenProperties DEF IInv, Types, PushTypes
<1>2. verdict[a] # "Progress"
  BY DEF IInv, Types, OwnTypes, X!Verdicts
<1>3. ASSUME NEW m \in OnItsWay(a)
      PROVE  m \in Coming /\ kinds[m].attempt = a
  <2>1. m \in 1..pushed /\ kinds[m] = [kind |-> verdict[a], attempt |-> a]
    BY <1>1 DEF OnItsWay
  <2>2. m \in Ends /\ kinds[m].attempt = a
    BY <1>2, <2>1 DEF Ends
  <2> QED
    BY <2>2 DEF OnItsWay, Coming
<1>4. ASSUME NEW m \in Coming, kinds[m].attempt = a
      PROVE  m \in OnItsWay(a)
  <2>1. m \in Ends /\ m \in 1..pushed
    BY DEF Coming, Ends
  <2>2. kinds[m].kind = verdict[a]
    BY <1>4, <2>1 DEF IInv, Claims
  <2>3. kinds[m] = [kind |-> verdict[a], attempt |-> a]
    BY <1>1, <1>4, <2>1, <2>2
  <2> QED
    BY <1>1, <2>1, <2>3 DEF OnItsWay, Coming
<1>5. CASE fate[a] = "Sent"
  <2>1. PICK n \in Coming : kinds[n].attempt = a
    BY <1>5 DEF IInv, SentIsComing
  <2>2. Coming \subseteq Ends
    BY DEF Coming
  <2>3. OnItsWay(a) = {n}
    BY <1>3, <1>4, <2>1, <2>2 DEF IInv, Once
  <2> QED
    BY <1>5, <2>3, FS_Singleton
<1>6. CASE fate[a] # "Sent"
  <2>1. OnItsWay(a) = {}
    BY <1>3, <1>6 DEF IInv, SentIsComing
  <2> QED
    BY <1>6, <2>1, FS_EmptySet
<1> QED
  BY <1>5, <1>6

(* The terminal event of every attempt is accounted for at every moment:   *)
(* dropped and counted, in exactly one place of the queue, or handled.     *)
THEOREM TerminalAccounting == Spec => []TerminalAccounted
<1>1. IInv => TerminalAccounted
  BY InOnePlace DEF IInv, SettledHasFate, DropsCounted, DroppedAttempts, TerminalAccounted
<1> QED
  BY <1>1, Invariance, PTL

(* The record turns the end of an attempt down only for one of the three   *)
(* reasons its checks name: never for what was handled before.             *)
THEOREM RefusalReasons == Spec => RefusedOnlyWhenStale
<1> DEFINE Reason(a) == \/ attempt > a
                        \/ status = "Queued"
                        \/ verdict[a] = "FinishedAfterCancel" /\ status = "Running"
<1>1. ASSUME IInv, [Next]_vars, NEW a \in Attempts, fate'[a] = "Refused", fate[a] # "Refused"
      PROVE  Reason(a)
  <2>1. /\ fate \in [Attempts -> Fates] /\ attempt \in Attempts \cup {NoAttempt}
        /\ status \in {"Queued", "Running", "Cancelling"} \cup R!Terminal
        /\ status \in R!Terminal => attempt \in Attempts
    BY <1>1 DEF IInv, Types, OwnTypes, RecordTypes
  <2>2. Apply
    <3>1. ASSUME NEW b \in Attempts, NEW f \in {"Sent", "Dropped"}, fate' = [fate EXCEPT ![b] = f]
          PROVE  FALSE
      BY <1>1, <2>1, <3>1
    <3>2. ASSUME NEW b \in Attempts, NEW k \in X!Verdicts, Settle(b, k)
          PROVE  FALSE
      BY <3>1, <3>2 DEF Settle
    <3>3. fate' # fate
      BY <1>1
    <3> QED
      BY <1>1, <3>2, <3>3 DEF Next, vars, Start, Spawn, MarkRunning, EmitProgress, CancelRecord,
                              CancelHandle, Drop, Drain
  <2>3. /\ Event.kind # "Progress" /\ Event.attempt = a /\ ~Accepts(a, Event.kind)
    <3>1. Event.kind # "Progress"
      BY <1>1, <2>2 DEF Apply
    <3>2. \E f \in {"Applied", "Refused"} :
            /\ fate' = [fate EXCEPT ![Event.attempt] = f]
            /\ f = "Refused" => ~Accepts(Event.attempt, Event.kind)
      BY <2>2, <3>1 DEF Apply
    <3> QED
      BY <1>1, <2>1, <3>1, <3>2
  <2>4. fate[a] = "Sent" /\ stage[a] = "Settled" /\ verdict[a] = Event.kind
    BY <1>1, <2>2, <2>3, ApplyTakes
  <2>5. attempt # NoAttempt /\ a <= attempt /\ attempt \in Nat /\ a \in Nat
    BY <1>1, <2>1, <2>4, AttemptsAssumption DEF IInv, SpawnedIsKnown
  <2>6. CASE attempt = a
    <3>1. status \notin R!Terminal
      BY <1>1, <2>4, <2>6 DEF IInv, RecordAgrees
    <3> QED
      BY <2>1, <2>3, <2>4, <2>6, <3>1 DEF Accepts, R!ActiveAttempt, R!TerminalEventAttempt, R!IsTerminal
  <2> QED
    BY <2>5, <2>6
<1>2. IInv /\ [Next]_vars =>
        [\A a \in Attempts : fate'[a] = "Refused" /\ fate[a] # "Refused" => Reason(a)]_vars
  BY <1>1
<1> QED
  BY <1>2, Invariance, PTL DEF Spec, RefusedOnlyWhenStale
-----------------------------------------------------------------------------
(* Each step of the pipeline is a step of its parts, or leaves them alone: *)
(* the pipeline uses none of them outside of its specification, and what   *)
(* is proved of a part holds of it here.  First, the constants of the      *)
(* parts are what the parts assume.                                        *)
LEMMA PartsFit ==
  /\ Attempts \subseteq Nat /\ NoAttempt \notin Attempts /\ NoReason \notin Reasons
  /\ IsFiniteSet(Attempts) /\ NoSlot \notin Attempts
  /\ Capacity \in Nat /\ MaxPushes \in Nat
  BY AttemptsAssumption, ReasonsAssumption, BoundsAssumption DEF NoSlot

(* What the consumer hands to the record is one of the five verdicts.      *)
LEMMA EventVerdict ==
  ASSUME IInv, Apply, Event.kind # "Progress"
  PROVE  Event.attempt \in Attempts /\ Event.kind \in X!Verdicts
<1>1. Handled \in Ends /\ Event = kinds[Handled] /\ Handled \in 1..pushed /\ PushTypes
  BY ApplyTakes DEF IInv, Types
<1> QED
  BY <1>1, KindsType

(* The record only sees calls of its own, whoever makes them.              *)
THEOREM UsesRecord == Spec => R!Spec
<1>1. Init => R!Init
  BY DEF Init
<1>2. ASSUME IInv, [Next]_vars
      PROVE  R!Next \/ UNCHANGED R!vars
  <2>1. CASE UNCHANGED recordVars
    BY <2>1 DEF recordVars, R!vars
  <2>2. ASSUME NEW a \in Attempts, Start(a) \/ MarkRunning(a)
        PROVE  R!Next
    BY <2>2 DEF Start, MarkRunning, R!Next
  <2>3. ASSUME NEW r \in Reasons,
               CancelRecord(r) \/ \E a \in Attempts : CancelHandle(a, r)
        PROVE  R!Next
    BY <2>3 DEF CancelRecord, CancelHandle, R!Next
  <2>4. CASE Apply /\ ~UNCHANGED recordVars
    <3>1. /\ Event.kind # "Progress"
          /\ IF Event.kind = "FinishedAfterCancel"
             THEN R!FinishAfterCancel(Event.attempt) ELSE R!Settle(Event.attempt, Event.kind)
      BY <2>4 DEF Apply
    <3>2. Event.attempt \in Attempts /\ Event.kind \in X!Verdicts
      BY <1>2, <2>4, <3>1, EventVerdict
    <3> QED
      BY <3>1, <3>2 DEF X!Verdicts, R!Next
  <2> QED
    BY <1>2, <2>1, <2>2, <2>3, <2>4 DEF Next, vars, Spawn, EmitProgress, Settle, Drop, Drain
<1> QED
  BY <1>1, <1>2, Invariance, PTL DEF Spec, R!Spec

(* The queue is pushed on and drained by its own calls, never both at once.*)
THEOREM UsesQueue == Spec => Q!Init /\ [][Q!Next]_(Q!vars)
<1>1. Init => Q!Init
  BY DEF Init
<1>2. ASSUME [Next]_vars
      PROVE  Q!Next \/ UNCHANGED Q!vars
  <2>1. CASE UNCHANGED queueVars
    BY <2>1 DEF queueVars, Q!vars
  <2>2. ASSUME NEW a \in Attempts, EmitProgress(a)
        PROVE  Q!Next
    BY <2>2 DEF EmitProgress, Q!Next
  <2>3. ASSUME NEW a \in Attempts, NEW k \in X!Verdicts, Settle(a, k)
        PROVE  Q!Next
    BY <2>3 DEF Settle, Q!Next
  <2>4. CASE Drain
    <3>1. {1, MaxPushes} \subseteq 0..MaxPushes
      BY BoundsAssumption
    <3> QED
      BY <2>4, <3>1 DEF Drain, Q!Next
  <2> QED
    BY <1>2, <2>1, <2>2, <2>3, <2>4 DEF Next, vars, Start, Spawn, MarkRunning, CancelRecord,
                                        CancelHandle, Drop, Apply
<1> QED
  BY <1>1, <1>2, PTL DEF Spec

(* The executor keeps its contract, the record's token being the one of    *)
(* every request.                                                          *)
THEOREM UsesExecutor == Spec => X!Spec
<1> DEFINE C == [t \in {"own"} |-> token # NoReason]
<1>1. Init => X!Init
  BY DEF Init
<1>2. ASSUME [Next]_vars
      PROVE  X!Next \/ UNCHANGED X!vars
  <2>1. CASE UNCHANGED <<token, executorVars>>
    BY <2>1 DEF executorVars, X!vars
  <2>2. CASE UNCHANGED executorVars /\ token = NoReason /\ token' \in Reasons
    <3>1. C' = [C EXCEPT !["own"] = TRUE]
      BY <2>2, ReasonsAssumption
    <3>2. X!RequestCancel("own")
      BY <2>2, <3>1 DEF X!RequestCancel, executorVars
    <3> QED
      BY <3>2 DEF X!Next
  <2>3. ASSUME NEW a \in Attempts, Spawn(a) \/ \E k \in X!Verdicts : Settle(a, k)
        PROVE  X!Next
    BY <2>3 DEF Spawn, Settle, X!Next
  <2>4. ASSUME NEW lost \in SUBSET Attempts, Drop(lost)
        PROVE  X!Next
    BY <2>4 DEF Drop, X!Next
  <2>5. ASSUME NEW r \in Reasons,
               CancelRecord(r) \/ \E a \in Attempts : CancelHandle(a, r)
        PROVE  UNCHANGED executorVars /\ (token' = token \/ (token = NoReason /\ token' \in Reasons))
    BY <2>5 DEF CancelRecord, CancelHandle, R!RequestCancel, R!TokenCancel, R!Token!Request
  <2>6. ASSUME NEW a \in Attempts, Start(a) \/ MarkRunning(a) \/ EmitProgress(a)
        PROVE  UNCHANGED <<token, executorVars>>
    BY <2>6 DEF Start, MarkRunning, EmitProgress, R!StartAttempt, R!Mark, recordVars
  <2>7. ASSUME Drain \/ Apply
        PROVE  UNCHANGED <<token, executorVars>>
    BY <2>7 DEF Drain, Apply, R!FinishAfterCancel, R!Settle, recordVars
  <2> QED
    BY <1>2, <2>1, <2>2, <2>3, <2>4, <2>5, <2>6, <2>7 DEF Next, vars, recordVars
<1> QED
  BY <1>1, <1>2, PTL DEF Spec, X!Spec
-----------------------------------------------------------------------------
(* What is proved of the queue and of the record for any use of theirs, as *)
(* instances of the modules that prove it: what the pipeline does with its *)
(* parts is among those uses, so the promises of the parts hold in it.     *)
QueueProofs == INSTANCE EventQueue_proofs WITH Slots <- Attempts

RecordProofs == INSTANCE TaskRecord_proofs WITH
                  Keys <- {}, OwnKey <- NoAttempt, MaxObservers <- 0

LEMMA QueueConstantsFit == QueueProofs!SlotsAssumption /\ QueueProofs!BoundsAssumption
  BY PartsFit DEF QueueProofs!SlotsAssumption, QueueProofs!BoundsAssumption,
                  QueueProofs!IsFiniteSet, IsFiniteSet

LEMMA RecordConstantsFit ==
  /\ RecordProofs!AttemptsAssumption /\ RecordProofs!ReasonsAssumption
  /\ RecordProofs!MaxObserversAssumption
  BY PartsFit DEF RecordProofs!AttemptsAssumption, RecordProofs!ReasonsAssumption,
                  RecordProofs!MaxObserversAssumption

(* The queue of the pipeline and the queue of the proofs are one.          *)
LEMMA SameQueue ==
  /\ Q!Init => QueueProofs!Init
  /\ [Q!Next]_(Q!vars) => [QueueProofs!Next]_(QueueProofs!vars)
  /\ QueueProofs!Bounded => Q!Bounded
  /\ QueueProofs!OrderExact => Q!OrderExact
  /\ QueueProofs!Accounted => Q!Accounted
  /\ QueueProofs!InOrder => Q!InOrder
  /\ QueueProofs!NewestKept => Q!NewestKept
<1> USE DEF Q!Vacant, QueueProofs!Vacant, Q!Held, QueueProofs!Held
<1>1. Q!Init => QueueProofs!Init
  BY DEF Q!Init, QueueProofs!Init
<1>2. Q!PendingEvents = QueueProofs!PendingEvents
  BY DEF Q!PendingEvents, QueueProofs!PendingEvents, Q!Cardinality, QueueProofs!Cardinality
<1>3. Q!Next => QueueProofs!Next
  BY <1>2 DEF Q!Next, QueueProofs!Next, Q!Stamp, QueueProofs!Stamp, Q!HasRoom, QueueProofs!HasRoom,
       Q!PushFifo, QueueProofs!PushFifo, Q!Coalesce, QueueProofs!Coalesce,
       Q!PushProgress, QueueProofs!PushProgress, Q!Overflow, QueueProofs!Overflow,
       Q!BeginDrain, QueueProofs!BeginDrain, Q!TakeFifo, QueueProofs!TakeFifo,
       Q!TakeProgress, QueueProofs!TakeProgress, Q!EndDrain, QueueProofs!EndDrain
<1>4. [Q!Next]_(Q!vars) => [QueueProofs!Next]_(QueueProofs!vars)
  BY <1>3 DEF Q!vars, QueueProofs!vars
<1>5. /\ QueueProofs!Bounded => Q!Bounded
      /\ QueueProofs!Accounted => Q!Accounted
  BY <1>2 DEF Q!Bounded, QueueProofs!Bounded, Q!Accounted, QueueProofs!Accounted,
              Q!Out, QueueProofs!Out
<1>6. QueueProofs!OrderExact => Q!OrderExact
  BY DEF Q!OrderExact, QueueProofs!OrderExact
<1>7. /\ QueueProofs!InOrder => Q!InOrder
      /\ QueueProofs!NewestKept => Q!NewestKept
  BY DEF Q!InOrder, QueueProofs!InOrder, Q!NewestKept, QueueProofs!NewestKept,
         Q!Out, QueueProofs!Out
<1> QED
  BY <1>1, <1>4, <1>5, <1>6, <1>7

(* Between the sink and the consumer nothing is lost uncounted, queued     *)
(* beyond the capacity, overtaken or taken back, however pushes of the     *)
(* attempts and partial drains follow on one another (queue.rs:61-146).    *)
THEOREM QueueKeepsItsPromises ==
  Spec => [](Q!Bounded /\ Q!OrderExact /\ Q!Accounted /\ Q!InOrder /\ Q!NewestKept)
<1> DEFINE I == QueueProofs!IInv
           O == QueueProofs!OInv
<1>1. Q!Init => I /\ O
  BY SameQueue, QueueProofs!InitIInv, QueueProofs!InitOInv, QueueConstantsFit
<1>2. I /\ O /\ [Q!Next]_(Q!vars) => I' /\ O'
  BY SameQueue, QueueProofs!NextIInv, QueueProofs!NextOInv, QueueConstantsFit
<1>3. I /\ O => Q!Bounded /\ Q!OrderExact /\ Q!Accounted /\ Q!InOrder /\ Q!NewestKept
  BY SameQueue DEF QueueProofs!IInv, QueueProofs!OInv
<1> QED
  BY <1>1, <1>2, <1>3, UsesQueue, PTL

(* The record of the pipeline and the record of the proofs are one.        *)
LEMMA SameRecord ==
  /\ R!Init => RecordProofs!Init
  /\ [R!Next]_(R!vars) => [RecordProofs!Next]_(RecordProofs!vars)
  /\ RecordProofs!NewestAttemptRules => R!NewestAttemptRules
  /\ RecordProofs!CancelClaimsBacked => R!CancelClaimsBacked
  /\ RecordProofs!SettledWasTouched => R!SettledWasTouched
<1>1. R!Init => RecordProofs!Init
  BY DEF R!Init, RecordProofs!Init, R!Token!Init, RecordProofs!Token!Init
<1>2. R!Next => RecordProofs!Next
  BY DEF R!Next, RecordProofs!Next, R!StartAttempt, RecordProofs!StartAttempt,
         R!Mark, RecordProofs!Mark, R!Settle, RecordProofs!Settle,
         R!FinishAfterCancel, RecordProofs!FinishAfterCancel,
         R!RequestCancel, RecordProofs!RequestCancel, R!TokenCancel, RecordProofs!TokenCancel,
         R!SyncObserverCount, RecordProofs!SyncObserverCount,
         R!TerminalEventAttempt, RecordProofs!TerminalEventAttempt,
         R!ActiveAttempt, RecordProofs!ActiveAttempt, R!IsTerminal, RecordProofs!IsTerminal,
         R!Terminal, RecordProofs!Terminal, R!Token!Request, RecordProofs!Token!Request
<1>3. [R!Next]_(R!vars) => [RecordProofs!Next]_(RecordProofs!vars)
  BY <1>2 DEF R!vars, RecordProofs!vars
<1>4. /\ RecordProofs!NewestAttemptRules => R!NewestAttemptRules
      /\ RecordProofs!CancelClaimsBacked => R!CancelClaimsBacked
      /\ RecordProofs!SettledWasTouched => R!SettledWasTouched
  BY DEF RecordProofs!NewestAttemptRules, R!NewestAttemptRules,
         RecordProofs!CancelClaimsBacked, R!CancelClaimsBacked,
         RecordProofs!SettledWasTouched, R!SettledWasTouched, RecordProofs!Terminal, R!Terminal
<1> QED
  BY <1>1, <1>3, <1>4

(* Behind the queue the record is where its owner's calls can take it and  *)
(* nowhere else: at the newest attempt started, settled only for one that  *)
(* was marked or cancelled, never claiming a cancellation its token does   *)
(* not know of, and settled for good (lifecycle.rs:74-238).                *)
THEOREM RecordKeepsItsPromises ==
  Spec => /\ [](R!NewestAttemptRules /\ R!CancelClaimsBacked /\ R!SettledWasTouched)
          /\ R!TerminalStaysTerminal
<1>1. R!Spec => RecordProofs!Spec
  BY SameRecord, PTL DEF R!Spec, RecordProofs!Spec
<1>2. RecordProofs!Spec => []RecordProofs!IInv /\ RecordProofs!TerminalStaysTerminal
  BY RecordProofs!Invariance, RecordProofs!TerminalIsFinal, RecordConstantsFit
<1>3. RecordProofs!IInv => R!NewestAttemptRules /\ R!CancelClaimsBacked /\ R!SettledWasTouched
  BY SameRecord DEF RecordProofs!IInv
<1>4. [(status \in RecordProofs!Terminal) => UNCHANGED <<status, attempt, cancel_reason>>]_(RecordProofs!vars)
        => [(status \in R!Terminal) => UNCHANGED <<status, attempt, cancel_reason>>]_(R!vars)
  BY DEF RecordProofs!Terminal, R!Terminal, RecordProofs!vars, R!vars
<1> QED
  BY <1>1, <1>2, <1>3, <1>4, UsesRecord, PTL
     DEF RecordProofs!TerminalStaysTerminal, R!TerminalStaysTerminal
-----------------------------------------------------------------------------
(* What the contract of executors promises over whole behaviours: which    *)
(* attempts have a verdict, what it says of the token, and how the reports *)
(* add up.                                                                 *)
VerdictIffSettled == \A a \in Attempts : verdict[a] # "None" <=> stage[a] = "Settled"

ClaimsTrue == \A a \in Attempts : verdict[a] \in X!AfterRequest => token # NoReason

SettledAs(k) == {a \in Attempts : verdict[a] = k}

VerdictsCounted ==
  /\ counted \in [X!Verdicts -> Nat]
  /\ \A k \in X!Verdicts : counted[k] = Cardinality(SettledAs(k))

EInv == VerdictIffSettled /\ ClaimsTrue /\ VerdictsCounted

LEMMA InitEInv == Init => EInv
<1> SUFFICES ASSUME Init PROVE EInv
  OBVIOUS
<1>1. /\ \A a \in Attempts : verdict[a] = "None" /\ stage[a] = "New"
      /\ counted = [k \in X!Verdicts |-> 0]
  BY DEF Init, X!Init
<1>2. \A k \in X!Verdicts : SettledAs(k) = {}
  BY <1>1 DEF SettledAs, X!Verdicts
<1> QED
  BY <1>1, <1>2, FS_EmptySet
     DEF EInv, VerdictIffSettled, ClaimsTrue, VerdictsCounted, X!AfterRequest

(* A settling gives one attempt its verdict and counts it.                 *)
LEMMA SettleKeepsEInv ==
  ASSUME IInv, EInv, NEW a \in Attempts, NEW k \in X!Verdicts, X!Settle(a, k)
  PROVE  EInv'
<1>1. /\ stage[a] = "Live" /\ stage' = [stage EXCEPT ![a] = "Settled"]
      /\ verdict' = [verdict EXCEPT ![a] = k] /\ counted' = [counted EXCEPT ![k] = @ + 1]
      /\ k \in X!AfterRequest => token # NoReason
      /\ (token' # NoReason) = (token # NoReason)
  BY DEF X!Settle
<1>2. stage \in [Attempts -> Stages] /\ verdict \in [Attempts -> X!Verdicts \cup {"None"}]
  BY DEF IInv, Types, OwnTypes
<1>3. verdict[a] = "None" /\ k # "None"
  BY <1>1 DEF EInv, VerdictIffSettled, X!Verdicts
<1>4. VerdictIffSettled' /\ ClaimsTrue'
  BY <1>1, <1>2, <1>3 DEF EInv, VerdictIffSettled, ClaimsTrue
<1>5. ASSUME NEW j \in X!Verdicts
      PROVE  counted'[j] \in Nat /\ counted'[j] = Cardinality(SettledAs(j)')
  <2>1. counted[j] \in Nat /\ counted[j] = Cardinality(SettledAs(j)) /\ counted \in [X!Verdicts -> Nat]
    BY DEF EInv, VerdictsCounted
  <2>2. IsFiniteSet(SettledAs(j)) /\ a \notin SettledAs(j)
    BY <1>3, AttemptsAssumption, FS_Subset DEF SettledAs, X!Verdicts
  <2>3. CASE j = k
    <3>1. SettledAs(j)' = SettledAs(j) \cup {a}
      BY <1>1, <1>2, <2>3 DEF SettledAs
    <3>2. Cardinality(SettledAs(j)') = Cardinality(SettledAs(j)) + 1
      BY <2>2, <3>1, FS_AddElement
    <3>3. counted'[j] = counted[j] + 1
      BY <1>1, <2>1, <2>3
    <3> QED
      BY <2>1, <3>2, <3>3
  <2>4. CASE j # k
    <3>1. SettledAs(j)' = SettledAs(j)
      BY <1>1, <1>2, <1>3, <2>4 DEF SettledAs, X!Verdicts
    <3> QED
      BY <1>1, <2>1, <2>4, <3>1
  <2> QED
    BY <2>3, <2>4
<1>6. VerdictsCounted'
  BY <1>1, <1>5 DEF VerdictsCounted, EInv
<1> QED
  BY <1>4, <1>6 DEF EInv

LEMMA NextEInv == IInv /\ EInv /\ [X!Next]_(X!vars) => EInv'
<1> SUFFICES ASSUME IInv, EInv, [X!Next]_(X!vars) PROVE EInv'
  OBVIOUS
<1>1. ASSUME NEW a \in Attempts, NEW k \in X!Verdicts, X!Settle(a, k) PROVE EInv'
  BY <1>1, SettleKeepsEInv
<1>2. stage \in [Attempts -> Stages]
  BY DEF IInv, Types, OwnTypes
<1>3. ASSUME UNCHANGED <<verdict, counted>>, token # NoReason => token' # NoReason,
             \A a \in Attempts : stage'[a] = "Settled" <=> stage[a] = "Settled"
      PROVE  EInv'
  BY <1>3 DEF EInv, VerdictIffSettled, ClaimsTrue, VerdictsCounted, SettledAs
<1>4. ASSUME NEW a \in Attempts, X!Accept(a) \/ X!Refuse(a) PROVE EInv'
  <2>1. UNCHANGED <<verdict, counted>> /\ (token' # NoReason) = (token # NoReason)
    BY <1>4 DEF X!Accept, X!Refuse
  <2>2. \A b \in Attempts : stage'[b] = "Settled" <=> stage[b] = "Settled"
    BY <1>2, <1>4 DEF X!Accept, X!Refuse
  <2> QED
    BY <1>3, <2>1, <2>2
<1>5. ASSUME X!RequestCancel("own") PROVE EInv'
  BY <1>3, <1>5 DEF X!RequestCancel
<1>6. ASSUME NEW lost \in SUBSET Attempts, X!Drop(lost) PROVE EInv'
  <2>1. UNCHANGED <<verdict, counted>> /\ (token' # NoReason) = (token # NoReason)
    BY <1>6 DEF X!Drop
  <2>2. \A b \in Attempts : stage'[b] = "Settled" <=> stage[b] = "Settled"
    BY <1>6 DEF X!Drop
  <2> QED
    BY <1>3, <2>1, <2>2
<1>7. CASE UNCHANGED X!vars
  BY <1>3, <1>7 DEF X!vars
<1> QED
  BY <1>1, <1>4, <1>5, <1>6, <1>7 DEF X!Next

(* Whatever executor keeps the contract: each attempt it settled is        *)
(* counted once under its verdict in the reports, and a verdict that       *)
(* claims a cancellation has a cancelled token behind it (executor.rs:     *)
(* 8-24).                                                                  *)
THEOREM ExecutorKeepsItsPromises == Spec => [](ClaimsTrue /\ VerdictsCounted)
<1>1. EInv => ClaimsTrue /\ VerdictsCounted
  BY DEF EInv
<1> QED
  BY <1>1, InitEInv, NextEInv, Invariance, UsesExecutor, PTL DEF Spec, X!Spec

(* A record only ends with a claim of cancellation if its token was        *)
(* cancelled.  The record alone does not see to that: fail_to_cancel takes *)
(* its caller's word (lifecycle.rs:152-156), which the executor, the queue *)
(* and the consumer between them keep true.                                *)
THEOREM CancellationsAreTrue == Spec => [](status \in X!AfterRequest => token # NoReason)
<1>1. IInv /\ ClaimsTrue => (status \in X!AfterRequest => token # NoReason)
  BY DEF IInv, Types, RecordTypes, RecordAgrees, ClaimsTrue, X!AfterRequest, R!Terminal
<1> QED
  BY <1>1, Invariance, ExecutorKeepsItsPromises, PTL
=============================================================================
