----------------------- MODULE TaskPrototypeHarness_proofs -----------------------
(***************************************************************************)
(* Proofs about TaskPrototypeHarness, for any attempts, keys, observers,   *)
(* outputs, capacity and budgets.  The count follows because a call on the *)
(* coordination touches one key and reports it; a completion is announced  *)
(* because nothing but a completion pushes other events than progress, and *)
(* because a stamp that is in the fifo, or came out of it, stays in one of *)
(* the two (KeptStamps only grows).                                        *)
(***************************************************************************)
EXTENDS TaskPrototypeHarness, FiniteSetTheorems, SequenceTheorems, TLAPS

Entries == [slot : Attempts \X CoalescingKeys \cup {NoSlot}, stamp : Nat]

Pushes == [kind : EventKinds, attempt : Attempts \cup {NoAttempt}]

(* The types, as far as the argument needs them. *)
QueueTypes ==
  /\ fifo \in Seq(Nat)
  /\ progress \in [Attempts \X CoalescingKeys -> Nat]
  /\ progress_order \in Seq(Attempts \X CoalescingKeys)
  /\ events \in Seq(Entries)
  /\ delivered \in Seq(Entries)

PushTypes ==
  /\ pushed \in Nat
  /\ kinds \in Seq(Pushes)
  /\ Len(kinds) = pushed

RecordTypes ==
  /\ status \in R!Active \cup R!Terminal
  /\ attempt \in Attempts \cup {NoAttempt}
  /\ key \in Keys
  /\ call = "mark" => attempt \in Attempts

Types == QueueTypes /\ PushTypes /\ RecordTypes

(* CountFollows, key by key. *)
CountPerKey ==
  \A k \in Keys : k = key =>
    /\ k = OwnKey => observer_count = C!observer_count(k)
    /\ observer_count \in {0, C!observer_count(k)}

(* What is in the fifo, or was. *)
InFifo == {n \in Nat : \E i \in DOMAIN fifo : fifo[i] = n}

WasInFifo == {n \in Nat : \E i \in DOMAIN Q!Out : Q!Out[i].slot = NoSlot /\ Q!Out[i].stamp = n}

KeptStamps == InFifo \cup WasInFifo

(* The pushes that brought an output or a completion.                      *)
Announcements == {m \in 1..pushed : kinds[m].kind # "Progress"}

Output(n) == n \in KeptStamps /\ kinds[n] = [kind |-> "Output", attempt |-> attempt]

Completed(n) == n \in KeptStamps /\ kinds[n] = [kind |-> "Completed", attempt |-> attempt]

(* What a call has announced when it is at each of its steps.              *)
Stages ==
  /\ status # "Completed" => Announcements = {}
  /\ call \in {"output", "completed", "overflowed"} => status = "Completed"
  /\ call = "mark" => status # "Completed"
  /\ call = "output" => Announcements = {}
  /\ call = "completed" =>
       \E n \in 1..pushed : n = pushed /\ Announcements = {n} /\ Output(n)
  /\ call = "idle" /\ status = "Completed" =>
       \E n \in 1..pushed :
         n + 1 \in 1..pushed /\ Announcements = {n, n + 1} /\ Output(n) /\ Completed(n + 1)

IInv == Types /\ CountPerKey /\ Stages
-----------------------------------------------------------------------------
LEMMA OutType ==
  ASSUME QueueTypes
  PROVE  Q!Out \in Seq(Entries) /\ DOMAIN Q!Out = 1..Len(Q!Out) /\ Len(Q!Out) \in Nat
  BY ConcatProperties, LenProperties DEF QueueTypes, Q!Out

(* A turn of a drain appends to what went out. *)
LEMMA OutGrows ==
  ASSUME QueueTypes, NEW e \in Entries, events' = Append(events, e), delivered' = delivered
  PROVE  /\ events' \in Seq(Entries)
         /\ \A i \in DOMAIN Q!Out : i \in DOMAIN Q!Out' /\ Q!Out'[i] = Q!Out[i]
         /\ \E i \in DOMAIN Q!Out' : Q!Out'[i] = e
<1>1. events \in Seq(Entries) /\ delivered \in Seq(Entries) /\ Q!Out \in Seq(Entries)
  BY OutType DEF QueueTypes
<1>2. Append(events, e) = events \o <<e>> /\ Append(Q!Out, e) = Q!Out \o <<e>> /\ <<e>> \in Seq(Entries)
  BY <1>1, AppendIsConcat
<1>3. Q!Out' = delivered \o (events \o <<e>>)
  BY <1>2 DEF Q!Out
<1>4. Q!Out' = Append(Q!Out, e)
  BY <1>1, <1>2, <1>3, ConcatAssociative DEF Q!Out
<1>5. /\ Q!Out' \in Seq(Entries) /\ Len(Q!Out') = Len(Q!Out) + 1
      /\ \A i \in 1..Len(Q!Out) : Q!Out'[i] = Q!Out[i]
      /\ Q!Out'[Len(Q!Out) + 1] = e
  BY <1>1, <1>4, AppendProperties
<1>6. DOMAIN Q!Out = 1..Len(Q!Out) /\ DOMAIN Q!Out' = 1..(Len(Q!Out) + 1) /\ Len(Q!Out) \in Nat
  BY <1>1, <1>5, LenProperties
<1>7. events' \in Seq(Entries)
  BY <1>1, AppendProperties
<1>8. Len(Q!Out) + 1 \in DOMAIN Q!Out' /\ DOMAIN Q!Out \subseteq DOMAIN Q!Out'
  BY <1>6
<1> QED
  BY <1>5, <1>6, <1>7, <1>8

(* What is in the fifo once the newest event is appended, or the head gone. *)
LEMMA FifoGrows ==
  ASSUME QueueTypes, NEW n \in Nat, fifo' = Append(fifo, n)
  PROVE  fifo' \in Seq(Nat) /\ InFifo' = InFifo \cup {n}
<1>1. fifo \in Seq(Nat) /\ Len(fifo) \in Nat /\ DOMAIN fifo = 1..Len(fifo)
  BY LenProperties DEF QueueTypes
<1>2. /\ fifo' \in Seq(Nat) /\ Len(fifo') = Len(fifo) + 1
      /\ \A i \in 1..Len(fifo) : fifo'[i] = fifo[i]
      /\ fifo'[Len(fifo) + 1] = n
  BY <1>1, AppendProperties
<1>3. DOMAIN fifo' = DOMAIN fifo \cup {Len(fifo) + 1}
  <2>1. DOMAIN fifo' = 1..(Len(fifo) + 1)
    BY <1>2, LenProperties
  <2> QED
    BY <1>1, <2>1
<1>4. \A i \in DOMAIN fifo : fifo'[i] = fifo[i]
  BY <1>1, <1>2
<1> QED
  BY <1>2, <1>3, <1>4 DEF InFifo

LEMMA FifoShrinks ==
  ASSUME QueueTypes, fifo # <<>>, fifo' = Tail(fifo)
  PROVE  fifo' \in Seq(Nat) /\ Head(fifo) \in Nat /\ InFifo = InFifo' \cup {Head(fifo)}
<1>1. fifo \in Seq(Nat) /\ Len(fifo) \in Nat /\ DOMAIN fifo = 1..Len(fifo)
  BY LenProperties DEF QueueTypes
<1>2. /\ fifo' \in Seq(Nat) /\ Len(fifo') = Len(fifo) - 1 /\ Len(fifo) # 0
      /\ Head(fifo) = fifo[1] /\ Head(fifo) \in Nat
      /\ \A i \in 1..Len(fifo') : fifo'[i] = fifo[i + 1]
  BY <1>1, HeadTailProperties, EmptySeq
<1>3. DOMAIN fifo' = 1..Len(fifo')
  BY <1>2, LenProperties
<1>4. /\ 1 \in DOMAIN fifo
      /\ \A i \in DOMAIN fifo' : i + 1 \in DOMAIN fifo /\ fifo'[i] = fifo[i + 1]
      /\ \A i \in DOMAIN fifo : i = 1 \/ (i - 1 \in DOMAIN fifo' /\ fifo'[i - 1] = fifo[i])
  BY <1>1, <1>2, <1>3
<1> QED
  BY <1>2, <1>4 DEF InFifo

-----------------------------------------------------------------------------
(* A push keeps what is kept, and what the fifo takes is kept.             *)
LEMMA PushKeeps ==
  ASSUME QueueTypes, pushed \in Nat,
         \/ Q!PushFifo
         \/ \E s \in Attempts \X CoalescingKeys : Q!Coalesce(s) \/ Q!PushProgress(s)
         \/ \E s : Q!Overflow(s)
  PROVE  /\ QueueTypes' /\ pushed' = pushed + 1 /\ KeptStamps \subseteq KeptStamps'
         /\ Q!PushFifo => pushed + 1 \in KeptStamps'
<1>1. pushed' = pushed + 1 /\ UNCHANGED <<events, delivered>>
  BY DEF Q!PushFifo, Q!Coalesce, Q!PushProgress, Q!Overflow, Q!Stamp
<1>2. WasInFifo' = WasInFifo
  BY <1>1 DEF WasInFifo, Q!Out
<1>3. CASE Q!PushFifo
  <2>1. fifo' = Append(fifo, pushed + 1) /\ UNCHANGED <<progress, progress_order>>
    BY <1>1, <1>3 DEF Q!PushFifo
  <2>2. fifo' \in Seq(Nat) /\ InFifo' = InFifo \cup {pushed + 1}
    BY <2>1, FifoGrows
  <2>3. QueueTypes'
    BY <1>1, <2>1, <2>2 DEF QueueTypes, Entries
  <2> QED
    BY <1>1, <1>2, <2>2, <2>3 DEF KeptStamps
<1>4. CASE ~Q!PushFifo
  <2>1. fifo' = fifo
    BY <1>4 DEF Q!Coalesce, Q!PushProgress, Q!Overflow
  <2>2. /\ progress' \in [Attempts \X CoalescingKeys -> Nat]
        /\ progress_order' \in Seq(Attempts \X CoalescingKeys)
    <3>1. ASSUME NEW s \in Attempts \X CoalescingKeys, Q!Coalesce(s) \/ Q!PushProgress(s)
          PROVE  /\ progress' = [progress EXCEPT ![s] = pushed + 1]
                 /\ progress_order' \in {progress_order, Append(progress_order, s)}
      BY <1>1, <3>1 DEF Q!Coalesce, Q!PushProgress
    <3>2. ASSUME NEW s, Q!Overflow(s)
          PROVE  UNCHANGED <<progress, progress_order>>
      BY <3>2 DEF Q!Overflow
    <3>3. \A s \in Attempts \X CoalescingKeys :
            Append(progress_order, s) \in Seq(Attempts \X CoalescingKeys)
      BY AppendProperties DEF QueueTypes
    <3>4. \A s \in Attempts \X CoalescingKeys :
            [progress EXCEPT ![s] = pushed + 1] \in [Attempts \X CoalescingKeys -> Nat]
      BY DEF QueueTypes
    <3>5. \/ UNCHANGED <<progress, progress_order>>
          \/ \E s \in Attempts \X CoalescingKeys :
               /\ progress' = [progress EXCEPT ![s] = pushed + 1]
               /\ progress_order' \in {progress_order, Append(progress_order, s)}
      BY <1>4, <3>1, <3>2
    <3> QED
      BY <3>3, <3>4, <3>5 DEF QueueTypes
  <2>3. QueueTypes'
    BY <1>1, <2>1, <2>2 DEF QueueTypes, Entries
  <2>4. InFifo' = InFifo
    BY <2>1 DEF InFifo
  <2> QED
    BY <1>1, <1>2, <1>4, <2>3, <2>4 DEF KeptStamps
<1> QED
  BY <1>3, <1>4

(* A drain keeps what is kept: what leaves the fifo is then behind it.     *)
LEMMA DrainKeeps ==
  ASSUME QueueTypes,
         (\E budget : Q!BeginDrain(budget)) \/ Q!TakeFifo \/ Q!TakeProgress \/ Q!EndDrain
  PROVE  QueueTypes' /\ pushed' = pushed /\ KeptStamps \subseteq KeptStamps'
<1>1. pushed' = pushed
  BY DEF Q!BeginDrain, Q!TakeFifo, Q!TakeProgress, Q!EndDrain
<1>2. CASE \E budget : Q!BeginDrain(budget)
  <2>1. UNCHANGED <<fifo, progress, progress_order, events, delivered>>
    BY <1>2 DEF Q!BeginDrain
  <2> QED
    BY <1>1, <2>1 DEF QueueTypes, Entries, KeptStamps, InFifo, WasInFifo, Q!Out
<1>3. CASE Q!TakeFifo
  <2> DEFINE e == [slot |-> NoSlot, stamp |-> Head(fifo)]
  <2>1. /\ fifo # <<>> /\ fifo' = Tail(fifo) /\ events' = Append(events, e)
        /\ UNCHANGED <<progress, progress_order, delivered>>
    BY <1>3 DEF Q!TakeFifo
  <2>2. fifo' \in Seq(Nat) /\ Head(fifo) \in Nat /\ InFifo = InFifo' \cup {Head(fifo)}
    BY <2>1, FifoShrinks
  <2>3. e \in Entries /\ e.slot = NoSlot /\ e.stamp = Head(fifo)
    BY <2>2 DEF Entries
  <2> HIDE DEF e
  <2>4. /\ events' \in Seq(Entries)
        /\ \A i \in DOMAIN Q!Out : i \in DOMAIN Q!Out' /\ Q!Out'[i] = Q!Out[i]
        /\ \E i \in DOMAIN Q!Out' : Q!Out'[i] = e
    BY <2>1, <2>3, OutGrows
  <2>5. WasInFifo \subseteq WasInFifo' /\ Head(fifo) \in WasInFifo'
    BY <2>2, <2>3, <2>4 DEF WasInFifo
  <2>6. QueueTypes'
    BY <2>1, <2>2, <2>4 DEF QueueTypes, Entries
  <2> QED
    BY <1>1, <2>2, <2>5, <2>6 DEF KeptStamps
<1>4. CASE Q!TakeProgress
  <2> DEFINE s == Head(progress_order)
             e == [slot |-> s, stamp |-> progress[s]]
  <2>1. /\ progress_order # <<>> /\ progress_order' = Tail(progress_order)
        /\ \/ progress' = [progress EXCEPT ![s] = 0] /\ events' = Append(events, e)
           \/ UNCHANGED <<progress, events>>
        /\ UNCHANGED <<fifo, delivered>>
    BY <1>4 DEF Q!TakeProgress, Q!Vacant
  <2>2. s \in Attempts \X CoalescingKeys /\ progress_order' \in Seq(Attempts \X CoalescingKeys)
    BY <2>1, HeadTailProperties DEF QueueTypes
  <2>3. e \in Entries /\ progress' \in [Attempts \X CoalescingKeys -> Nat]
    BY <2>1, <2>2 DEF QueueTypes, Entries
  <2>4. events' \in Seq(Entries) /\ WasInFifo \subseteq WasInFifo'
    <3>1. CASE events' = Append(events, e)
      BY <2>1, <2>3, <3>1, OutGrows DEF WasInFifo
    <3>2. CASE UNCHANGED events
      BY <2>1, <3>2 DEF QueueTypes, WasInFifo, Q!Out
    <3> QED
      BY <2>1, <3>1, <3>2
  <2>5. InFifo' = InFifo
    BY <2>1 DEF InFifo
  <2>6. QueueTypes'
    BY <2>1, <2>2, <2>3, <2>4 DEF QueueTypes, Entries
  <2> QED
    BY <1>1, <2>4, <2>5, <2>6 DEF KeptStamps
<1>5. CASE Q!EndDrain
  <2>1. /\ events' = <<>> /\ delivered' = delivered \o events
        /\ UNCHANGED <<fifo, progress, progress_order>>
    BY <1>5 DEF Q!EndDrain
  <2>2. Q!Out \in Seq(Entries) /\ Q!Out' = Q!Out \o <<>> /\ delivered' = Q!Out
    BY <2>1, OutType DEF Q!Out
  <2>3. Q!Out' = Q!Out
    BY <2>2, ConcatEmptySeq
  <2>4. QueueTypes'
    BY <2>1, <2>2, EmptySeq DEF QueueTypes, Entries
  <2> QED
    BY <1>1, <2>1, <2>3, <2>4 DEF KeptStamps, InFifo, WasInFifo
<1> QED
  BY <1>2, <1>3, <1>4, <1>5
-----------------------------------------------------------------------------
(* What a step that pushes nothing, and one that does, make of the history.*)
LEMMA NothingBrought ==
  ASSUME QueueTypes, PushTypes, UNCHANGED <<queueVars, kinds>>
  PROVE  /\ QueueTypes' /\ PushTypes' /\ pushed' = pushed /\ kinds' = kinds
         /\ KeptStamps \subseteq KeptStamps' /\ Announcements' = Announcements
<1>1. UNCHANGED <<fifo, progress, progress_order, events, delivered, pushed, kinds>>
  BY DEF queueVars
<1>2. QueueTypes' /\ PushTypes'
  BY <1>1 DEF QueueTypes, PushTypes, Entries, Pushes, EventKinds
<1>3. KeptStamps' = KeptStamps /\ Announcements' = Announcements
  BY <1>1 DEF KeptStamps, InFifo, WasInFifo, Announcements, Q!Out
<1> QED
  BY <1>1, <1>2, <1>3

LEMMA Brought ==
  ASSUME QueueTypes, PushTypes, RecordTypes, NEW k \in EventKinds, Pushed(k),
         \/ Q!PushFifo
         \/ \E s \in Attempts \X CoalescingKeys : Q!Coalesce(s) \/ Q!PushProgress(s)
         \/ \E s : Q!Overflow(s)
  PROVE  /\ QueueTypes' /\ PushTypes' /\ pushed' = pushed + 1
         /\ 1..pushed' = 1..pushed \cup {pushed + 1} /\ pushed + 1 \notin 1..pushed
         /\ KeptStamps \subseteq KeptStamps' /\ (Q!PushFifo => pushed + 1 \in KeptStamps')
         /\ \A m \in 1..pushed : kinds'[m] = kinds[m]
         /\ kinds'[pushed + 1] = [kind |-> k, attempt |-> attempt]
         /\ Announcements' = IF k = "Progress" THEN Announcements ELSE Announcements \cup {pushed + 1}
<1> DEFINE e == [kind |-> k, attempt |-> attempt]
<1>1. pushed \in Nat /\ kinds \in Seq(Pushes) /\ Len(kinds) = pushed /\ e \in Pushes /\ e.kind = k
  BY DEF PushTypes, RecordTypes, Pushes
<1>2. /\ QueueTypes' /\ pushed' = pushed + 1 /\ KeptStamps \subseteq KeptStamps'
      /\ Q!PushFifo => pushed + 1 \in KeptStamps'
  BY <1>1, PushKeeps
<1>3. kinds' = Append(kinds, e)
  BY DEF Pushed
<1> HIDE DEF e
<1>4. /\ kinds' \in Seq(Pushes) /\ Len(kinds') = pushed + 1
      /\ \A m \in 1..pushed : kinds'[m] = kinds[m]
      /\ kinds'[pushed + 1] = e
  BY <1>1, <1>3, AppendProperties
<1>5. 1..pushed' = 1..pushed \cup {pushed + 1} /\ pushed + 1 \notin 1..pushed /\ pushed' \in Nat
  BY <1>1, <1>2
<1>6. PushTypes'
  BY <1>2, <1>4, <1>5 DEF PushTypes, Pushes, EventKinds
<1>7. Announcements' = IF k = "Progress" THEN Announcements ELSE Announcements \cup {pushed + 1}
  BY <1>1, <1>4, <1>5 DEF Announcements
<1> QED
  BY <1>2, <1>4, <1>5, <1>6, <1>7 DEF e

(* A step that announces nothing leaves a call and its record as they are. *)
LEMMA StagesStay ==
  ASSUME PushTypes, Stages, UNCHANGED <<status, attempt, call>>,
         Announcements' = Announcements, KeptStamps \subseteq KeptStamps',
         \A m \in 1..pushed : kinds'[m] = kinds[m],
         pushed' = pushed \/ (pushed' = pushed + 1 /\ call # "completed")
  PROVE  Stages'
<1>1. pushed \in Nat /\ 1..pushed \subseteq 1..pushed'
  BY DEF PushTypes
<1>2. CASE call = "completed"
  BY <1>1, <1>2 DEF Stages, Output
<1>3. CASE call = "idle" /\ status = "Completed"
  <2>1. PICK n \in 1..pushed :
          n + 1 \in 1..pushed /\ Announcements = {n, n + 1} /\ Output(n) /\ Completed(n + 1)
    BY <1>3 DEF Stages
  <2>2. /\ n \in KeptStamps' /\ kinds'[n] = [kind |-> "Output", attempt |-> attempt']
        /\ n + 1 \in KeptStamps' /\ kinds'[n + 1] = [kind |-> "Completed", attempt |-> attempt']
    BY <2>1 DEF Output, Completed
  <2> QED
    BY <1>1, <1>3, <2>1, <2>2 DEF Stages, Output, Completed
<1>4. CASE call # "completed" /\ ~(call = "idle" /\ status = "Completed")
  BY <1>4 DEF Stages
<1> QED
  BY <1>2, <1>3, <1>4

(* A step that moves the record away from no completion, within no call    *)
(* that announces one.                                                     *)
LEMMA StagesOpen ==
  ASSUME Stages, status # "Completed", Announcements' = Announcements,
         \/ status' # "Completed" /\ call' \in {"idle", "mark", "panicked"}
         \/ call' = "output" /\ status' = "Completed"
  PROVE  Stages'
  BY DEF Stages

LEMMA InitIInv == Init => IInv
<1> SUFFICES ASSUME Init PROVE IInv
  OBVIOUS
<1>1. /\ fifo = <<>> /\ events = <<>> /\ delivered = <<>> /\ progress_order = <<>>
      /\ progress = [s \in Attempts \X CoalescingKeys |-> 0]
      /\ pushed = 0 /\ kinds = <<>> /\ status = "Queued" /\ attempt = NoAttempt
      /\ key = OwnKey /\ call = "idle" /\ observer_count = 0 /\ observers = << >>
  BY DEF Init, Q!Init, Q!Vacant, R!Init, C!Init
<1>2. Types
  BY <1>1, EmptySeq DEF Types, QueueTypes, PushTypes, RecordTypes, R!Active, Keys
<1>3. CountPerKey
  <2>1. \A k \in Keys : C!Watching(k) = {}
    BY <1>1 DEF C!Watching
  <2>2. ASSUME NEW k \in Keys PROVE C!observer_count(k) = 0
    <3>1. C!Watching(k) = {} /\ Cardinality({}) = 0
      BY <2>1, FS_EmptySet
    <3>2. C!observer_count(k) = Cardinality(C!Watching(k))
      BY DEF C!observer_count, C!Cardinality, Cardinality
    <3> QED
      BY <3>1, <3>2
  <2> QED
    BY <1>1, <2>2 DEF CountPerKey
<1>4. Stages
  BY <1>1 DEF Stages, Announcements
<1> QED
  BY <1>2, <1>3, <1>4 DEF IInv

-----------------------------------------------------------------------------
(* Calls on the coordination touch one key, and the record hears of its    *)
(* own key.                                                                *)
LEMMA ObservationSteps ==
  ASSUME CountPerKey, NEW j \in Keys, NEW o \in Observers,
         Observe(j, o) \/ \E policy \in C!UnobservedPolicies : Unobserve(j, o, policy)
  PROVE  CountPerKey'
<1>1. key' = key /\ Sync(j)
  BY DEF Observe, Unobserve
<1>2. \A k \in Keys \ {j} : C!Watching(k)' = C!Watching(k)
  BY DEF Observe, Unobserve, C!Observe, C!UnobserveNotAttached, C!UnobserveRemaining,
         C!UnobserveLast, C!Watching, C!With, C!Without
<1>3. CASE key = j
  BY <1>1, <1>3 DEF Sync, R!SyncObserverCount, CountPerKey
<1>4. CASE key # j
  <2>1. observer_count' = observer_count
    BY <1>1, <1>4 DEF Sync, recordVars
  <2>2. \A k \in Keys : k = key => C!observer_count(k)' = C!observer_count(k)
    BY <1>2, <1>4 DEF C!observer_count
  <2> QED
    BY <1>1, <2>1, <2>2 DEF CountPerKey
<1> QED
  BY <1>3, <1>4

LEMMA NextCounts == CountPerKey /\ [Next]_vars => CountPerKey'
<1> SUFFICES ASSUME CountPerKey, [Next]_vars PROVE CountPerKey'
  OBVIOUS
<1>1. CASE UNCHANGED <<observers, key, observer_count>>
  <2>1. \A k \in Keys : C!observer_count(k)' = C!observer_count(k)
    BY <1>1 DEF C!observer_count, C!Watching
  <2> QED
    BY <1>1, <2>1 DEF CountPerKey
<1>2. ASSUME NEW a \in Attempts, NEW o \in Outputs, Complete(a, o)
      PROVE  CountPerKey'
  BY <1>2, KeysAssumption DEF Complete, CountPerKey
<1>3. ASSUME ~UNCHANGED <<observers, key, observer_count>>, Next
      PROVE  \/ \E a \in Attempts, o \in Outputs : Complete(a, o)
             \/ \E k \in Keys, o \in Observers :
                  Observe(k, o) \/ \E policy \in C!UnobservedPolicies : Unobserve(k, o, policy)
  <2>1. \A a \in Attempts : ~(StartAttempt(a) \/ CompleteStale(a))
    BY <1>3 DEF StartAttempt, CompleteStale, R!StartAttempt, recordVars, coordinationVars
  <2>2. ~(MarkRunning \/ PushOutput \/ PushCompleted \/ QueueFull \/ Panics \/ FinishAfterCancel)
    BY <1>3 DEF MarkRunning, PushOutput, PushCompleted, QueueFull, Panics, FinishAfterCancel, R!Mark,
                R!FinishAfterCancel, recordVars, coordinationVars
  <2>3. \A r \in Reasons : ~Cancel(r)
    BY <1>3 DEF Cancel, R!RequestCancel, coordinationVars
  <2>4. ~Drain /\ \A c \in CoalescingKeys : ~EnqueueProgress(c)
    BY <1>3 DEF Drain, EnqueueProgress, recordVars, coordinationVars
  <2> QED
    BY <1>3, <2>1, <2>2, <2>3, <2>4 DEF Next
<1> QED
  BY <1>1, <1>2, <1>3, ObservationSteps DEF vars, recordVars, coordinationVars
-----------------------------------------------------------------------------
TInv == Types /\ Stages

(* Calls that move the record, none of them one that is completed.         *)
LEMMA RecordSteps ==
  ASSUME TInv,
         \/ \E a \in Attempts : StartAttempt(a) \/ \E o \in Outputs : Complete(a, o)
         \/ MarkRunning \/ FinishAfterCancel \/ \E r \in Reasons : Cancel(r)
  PROVE  TInv'
<1>1. UNCHANGED <<queueVars, kinds>>
  BY DEF StartAttempt, Complete, MarkRunning, FinishAfterCancel, Cancel
<1>2. /\ status # "Completed"
      /\ \/ /\ status' \in {"Queued", "Running", "Cancelling", "FinishedAfterCancel"}
            /\ call' = "idle" \/ (call' = "mark" /\ attempt' \in Attempts)
         \/ call' = "output" /\ status' = "Completed"
      /\ attempt' \in Attempts \cup {NoAttempt} /\ key' \in Keys
  <2>1. attempt \in Attempts \cup {NoAttempt} /\ key \in Keys
    BY DEF TInv, Types, RecordTypes
  <2>2. ASSUME NEW a \in Attempts, StartAttempt(a)
        PROVE  /\ status \notin R!Terminal /\ status' = "Queued" /\ call' = "mark"
               /\ attempt' = a /\ key' = key
    BY <2>2 DEF StartAttempt, R!StartAttempt, R!IsTerminal, Goto
  <2>3. ASSUME NEW a \in Attempts, NEW o \in Outputs, Complete(a, o)
        PROVE  /\ status \notin R!Terminal /\ status' = "Completed" /\ call' = "output"
               /\ attempt' = a /\ key' = o
    BY <2>3 DEF Complete, R!ActiveAttempt, R!IsTerminal, Goto
  <2>4. ASSUME MarkRunning
        PROVE  /\ status \notin R!Terminal /\ status' = "Running" /\ call' = "idle"
               /\ attempt' = attempt /\ key' = key
    BY <2>4 DEF MarkRunning, R!Mark, R!ActiveAttempt, R!IsTerminal, Goto
  <2>5. ASSUME FinishAfterCancel
        PROVE  /\ status = "Cancelling" /\ status' = "FinishedAfterCancel" /\ call' = "idle"
               /\ attempt' = attempt /\ key' = key
    BY <2>5 DEF FinishAfterCancel, R!FinishAfterCancel, Callable
  <2>6. ASSUME NEW r \in Reasons, Cancel(r)
        PROVE  /\ status \notin R!Terminal /\ status' = "Cancelling" /\ call' = "idle"
               /\ attempt' = attempt /\ key' = key
    BY <2>6 DEF Cancel, R!RequestCancel, R!IsTerminal, Callable
  <2>7. "Completed" \in R!Terminal /\ Outputs \subseteq Keys
    BY DEF R!Terminal, Keys
  <2> QED
    BY <2>1, <2>2, <2>3, <2>4, <2>5, <2>6, <2>7
<1>3. /\ QueueTypes' /\ PushTypes' /\ KeptStamps \subseteq KeptStamps' /\ Announcements' = Announcements
  BY <1>1, NothingBrought DEF TInv, Types
<1>4. RecordTypes'
  BY <1>2 DEF RecordTypes, R!Active, R!Terminal
<1>5. Stages'
  BY <1>2, <1>3, StagesOpen DEF TInv
<1> QED
  BY <1>3, <1>4, <1>5 DEF TInv, Types

(* Calls that leave the record's status and attempt and push nothing.      *)
LEMMA OtherSteps ==
  ASSUME TInv,
         \/ \E a \in Attempts : CompleteStale(a)
         \/ Panics
         \/ \E k \in Keys, o \in Observers :
              Observe(k, o) \/ \E policy \in C!UnobservedPolicies : Unobserve(k, o, policy)
         \/ UNCHANGED vars
  PROVE  TInv'
<1>1. /\ UNCHANGED <<queueVars, kinds>> /\ UNCHANGED <<status, attempt, key>>
      /\ call' = call \/ call' = "panicked"
  BY DEF CompleteStale, Panics, Observe, Unobserve, Sync, R!SyncObserverCount, recordVars, vars, Goto
<1>2. /\ QueueTypes' /\ PushTypes' /\ pushed' = pushed /\ kinds' = kinds
      /\ KeptStamps \subseteq KeptStamps' /\ Announcements' = Announcements
  BY <1>1, NothingBrought DEF TInv, Types
<1>3. RecordTypes'
  BY <1>1 DEF TInv, Types, RecordTypes
<1>4. CASE call' = call
  <2>1. Stages'
    BY <1>1, <1>2, <1>4, StagesStay DEF TInv, Types
  <2> QED
    BY <1>2, <1>3, <2>1 DEF TInv, Types
<1>5. CASE call' = "panicked"
  <2>1. Stages'
    BY <1>1, <1>2, <1>5 DEF TInv, Stages
  <2> QED
    BY <1>2, <1>3, <2>1 DEF TInv, Types
<1> QED
  BY <1>1, <1>4, <1>5

(* The consumer drains, at any time between calls.                         *)
LEMMA DrainSteps == ASSUME TInv, Drain PROVE TInv'
<1>1. UNCHANGED <<status, attempt, key, call, kinds>>
  BY DEF Drain, recordVars
<1>2. QueueTypes' /\ pushed' = pushed /\ KeptStamps \subseteq KeptStamps'
  BY DrainKeeps DEF Drain, TInv, Types
<1>3. PushTypes' /\ Announcements' = Announcements /\ RecordTypes'
  BY <1>1, <1>2 DEF TInv, Types, PushTypes, RecordTypes, Announcements, Pushes, EventKinds
<1>4. Stages'
  BY <1>1, <1>2, <1>3, StagesStay DEF TInv, Types
<1> QED
  BY <1>2, <1>3, <1>4 DEF TInv, Types

(* Progress announces nothing, whenever it comes. *)
LEMMA ProgressSteps ==
  ASSUME TInv, NEW c \in CoalescingKeys, EnqueueProgress(c)
  PROVE  TInv'
<1>1. UNCHANGED <<status, attempt, key, call>> /\ call = "idle" /\ Pushed("Progress")
  BY DEF EnqueueProgress, recordVars, Callable
<1>2. \/ \E s \in Attempts \X CoalescingKeys : Q!Coalesce(s) \/ Q!PushProgress(s)
      \/ \E s : Q!Overflow(s)
  BY DEF EnqueueProgress, TInv, Types, RecordTypes
<1>3. /\ QueueTypes' /\ PushTypes' /\ pushed' = pushed + 1 /\ KeptStamps \subseteq KeptStamps'
      /\ \A m \in 1..pushed : kinds'[m] = kinds[m]
      /\ Announcements' = Announcements
  <2>1. "Progress" \in EventKinds
    BY DEF EventKinds
  <2> QED
    BY <1>1, <1>2, <2>1, Brought DEF TInv, Types
<1>4. Stages'
  BY <1>1, <1>3, StagesStay DEF TInv, Types
<1>5. RecordTypes'
  BY <1>1 DEF TInv, Types, RecordTypes
<1> QED
  BY <1>3, <1>4, <1>5 DEF TInv, Types

(* The two pushes of a completion, or the panic of one of them.            *)
LEMMA AnnouncingSteps ==
  ASSUME TInv, PushOutput \/ PushCompleted \/ QueueFull
  PROVE  TInv'
<1> DEFINE k == IF call = "output" THEN "Output" ELSE "Completed"
           n == pushed + 1
<1>1. /\ UNCHANGED <<status, attempt, key>> /\ k \in EventKinds /\ Pushed(k) /\ call' # "mark"
      /\ call \in {"output", "completed"}
      /\ Q!PushFifo \/ Q!Overflow(NoSlot)
  BY DEF PushOutput, PushCompleted, QueueFull, recordVars, EventKinds, Goto
<1>2. status = "Completed"
  BY <1>1 DEF TInv, Stages
<1>3. /\ QueueTypes' /\ PushTypes' /\ pushed' = n
      /\ 1..pushed' = 1..pushed \cup {n}
      /\ KeptStamps \subseteq KeptStamps' /\ (Q!PushFifo => n \in KeptStamps')
      /\ \A m \in 1..pushed : kinds'[m] = kinds[m]
      /\ kinds'[n] = [kind |-> k, attempt |-> attempt]
      /\ Announcements' = Announcements \cup {n}
  BY <1>1, Brought DEF TInv, Types
<1>4. RecordTypes'
  BY <1>1 DEF TInv, Types, RecordTypes
<1>5. Stages'
  <2>1. CASE QueueFull
    <3>1. call' = "overflowed"
      BY <2>1 DEF QueueFull, Goto
    <3> QED
      BY <1>1, <1>2, <3>1 DEF Stages
  <2>2. CASE PushOutput
    <3>1. call = "output" /\ call' = "completed" /\ Q!PushFifo
      BY <2>2 DEF PushOutput, Goto
    <3>2. Announcements' = {n}
      BY <1>3, <3>1 DEF TInv, Stages
    <3>3. n \in KeptStamps' /\ kinds'[n] = [kind |-> "Output", attempt |-> attempt']
      BY <1>1, <1>3, <3>1
    <3> QED
      BY <1>1, <1>2, <1>3, <3>1, <3>2, <3>3 DEF Stages, Output
  <2>3. CASE PushCompleted
    <3>1. call = "completed" /\ call' = "idle" /\ Q!PushFifo
      BY <2>3 DEF PushCompleted, Goto
    <3>2. Announcements = {pushed} /\ Output(pushed) /\ pushed \in 1..pushed
      BY <3>1 DEF TInv, Stages
    <3>3. Announcements' = {pushed, n} /\ pushed \in 1..pushed' /\ n \in 1..pushed'
      BY <1>3, <3>2
    <3>4. n \in KeptStamps' /\ kinds'[n] = [kind |-> "Completed", attempt |-> attempt']
      BY <1>1, <1>3, <3>1
    <3>5. pushed \in KeptStamps' /\ kinds'[pushed] = [kind |-> "Output", attempt |-> attempt']
      BY <1>1, <1>3, <3>2 DEF Output
    <3>6. \E m \in 1..pushed' : m + 1 \in 1..pushed' /\ Announcements' = {m, m + 1}
             /\ m \in KeptStamps' /\ kinds'[m] = [kind |-> "Output", attempt |-> attempt']
             /\ m + 1 \in KeptStamps' /\ kinds'[m + 1] = [kind |-> "Completed", attempt |-> attempt']
      BY <3>3, <3>4, <3>5
    <3> QED
      BY <1>1, <1>2, <3>1, <3>6 DEF Stages, Output, Completed
  <2> QED
    BY <2>1, <2>2, <2>3
<1> QED
  BY <1>3, <1>4, <1>5 DEF TInv, Types

LEMMA NextIInv == IInv /\ [Next]_vars => IInv'
<1>1. TInv /\ [Next]_vars => TInv'
  BY RecordSteps, OtherSteps, DrainSteps, ProgressSteps, AnnouncingSteps DEF Next
<1> QED
  BY <1>1, NextCounts DEF IInv, TInv

THEOREM Invariance == Spec => []IInv
  BY InitIInv, NextIInv, PTL DEF Spec

(* The count the record keeps is the one of the coordination.              *)
THEOREM CountsFollow == Spec => []CountFollows
<1>1. IInv => CountFollows
  BY DEF IInv, Types, RecordTypes, CountPerKey, CountFollows
<1> QED
  BY <1>1, Invariance, PTL

(* A completed record has announced its output and its completion, next to *)
(* each other and once, however full the queue was.                        *)
THEOREM CompletionsAreAnnounced == Spec => []CompletionAnnounced
<1>1. ASSUME IInv, call = "idle", status = "Completed"
      PROVE  \E n \in DOMAIN kinds :
               /\ Announced(n, "Output") /\ Announced(n + 1, "Completed")
               /\ \A m \in DOMAIN kinds : kinds[m].kind # "Progress" => m \in {n, n + 1}
  <2>1. PICK n \in 1..pushed :
          n + 1 \in 1..pushed /\ Announcements = {n, n + 1} /\ Output(n) /\ Completed(n + 1)
    BY <1>1 DEF IInv, Stages
  <2>2. DOMAIN kinds = 1..pushed
    BY <1>1, LenProperties DEF IInv, Types, PushTypes
  <2>3. \A m \in KeptStamps : Kept(m)
    BY DEF KeptStamps, InFifo, WasInFifo, Kept
  <2>4. Announced(n, "Output") /\ Announced(n + 1, "Completed")
    BY <2>1, <2>2, <2>3 DEF Announced, Output, Completed
  <2>5. \A m \in DOMAIN kinds : kinds[m].kind # "Progress" => m \in {n, n + 1}
    BY <2>1, <2>2 DEF Announcements
  <2> QED
    BY <2>1, <2>2, <2>4, <2>5
<1>2. IInv => CompletionAnnounced
  BY <1>1 DEF CompletionAnnounced
<1> QED
  BY <1>2, Invariance, PTL

(* Only the attempt the record is at completes it, and a settled record    *)
(* keeps its output.                                                       *)
THEOREM LatestAttemptWins == Spec => LatestWins
<1> DEFINE A == /\ attempt # NoAttempt /\ status \notin R!Terminal /\ key' # key => attempt' = attempt
                /\ status \in R!Terminal => UNCHANGED <<key, status, attempt>>
<1>1. Next => A
  <2>1. ASSUME NEW a \in Attempts, NEW o \in Outputs, Complete(a, o)
        PROVE  attempt' = attempt /\ status \notin R!Terminal
    BY <2>1 DEF Complete, R!ActiveAttempt, R!IsTerminal
  <2>2. ASSUME NEW a \in Attempts, StartAttempt(a) \/ CompleteStale(a)
        PROVE  key' = key /\ (status \in R!Terminal => UNCHANGED <<status, attempt>>)
    BY <2>2 DEF StartAttempt, CompleteStale, R!StartAttempt, R!IsTerminal, recordVars
  <2>3. ASSUME MarkRunning \/ FinishAfterCancel \/ \E r \in Reasons : Cancel(r)
        PROVE  key' = key /\ status \notin R!Terminal
    BY <2>3 DEF MarkRunning, FinishAfterCancel, Cancel, R!Mark, R!ActiveAttempt, R!FinishAfterCancel,
                R!RequestCancel, R!IsTerminal
  <2>4. ASSUME \/ PushOutput \/ PushCompleted \/ QueueFull \/ Panics \/ Drain
               \/ \E c \in CoalescingKeys : EnqueueProgress(c)
        PROVE  UNCHANGED <<key, status, attempt>>
    BY <2>4 DEF PushOutput, PushCompleted, QueueFull, Panics, Drain, EnqueueProgress, recordVars
  <2>5. ASSUME NEW k \in Keys, NEW o \in Observers,
               Observe(k, o) \/ \E policy \in C!UnobservedPolicies : Unobserve(k, o, policy)
        PROVE  UNCHANGED <<key, status, attempt>>
    BY <2>5 DEF Observe, Unobserve, Sync, R!SyncObserverCount, recordVars
  <2> QED
    BY <2>1, <2>2, <2>3, <2>4, <2>5 DEF Next
<1>2. [Next]_vars => [A]_vars
  BY <1>1
<1> QED
  BY <1>2, PTL DEF Spec, LatestWins
-----------------------------------------------------------------------------
(* Each step of the harness is a step of its parts, or leaves them alone,  *)
(* but for a completion, which puts another record in place of the one it  *)
(* had: so what is proved of the queue and of the coordination holds here. *)
(* First, the constants of the parts are what the parts assume.            *)
LEMMA PartsFit ==
  /\ Attempts \subseteq Nat /\ NoAttempt \notin Attempts /\ NoReason \notin Reasons
  /\ IsFiniteSet(Attempts \X CoalescingKeys) /\ NoSlot \notin Attempts \X CoalescingKeys
  /\ Capacity \in Nat /\ MaxPushes \in Nat /\ MaxEpisodes \in Nat
  /\ IsFiniteSet(Observers) /\ Cardinality(Observers) \in Nat
<1>1. IsFiniteSet(Attempts \X CoalescingKeys)
  BY AttemptsAssumption, KeysAssumption, FS_Product
<1>2. NoSlot \notin Attempts \X CoalescingKeys
  BY DEF NoSlot
<1>3. Cardinality(Observers) \in Nat
  BY ObserversAssumption, FS_CardinalityType
<1> QED
  BY <1>1, <1>2, <1>3, AttemptsAssumption, ReasonsAssumption, BoundsAssumption, ObserversAssumption

(* The queue is pushed on and drained by its own calls, never both at once.*)
THEOREM UsesQueue == Spec => Q!Init /\ [][Q!Next]_(Q!vars)
<1>1. Init => Q!Init
  BY DEF Init
<1>2. ASSUME IInv, [Next]_vars
      PROVE  Q!Next \/ UNCHANGED Q!vars
  <2>1. CASE UNCHANGED queueVars
    BY <2>1 DEF queueVars, Q!vars
  <2>2. ASSUME NEW c \in CoalescingKeys, EnqueueProgress(c)
        PROVE  Q!Next
    <3>1. attempt \in Attempts
      BY <1>2, <2>2 DEF EnqueueProgress, IInv, Types, RecordTypes
    <3> QED
      BY <2>2, <3>1 DEF EnqueueProgress, Q!Next
  <2>3. CASE PushOutput \/ PushCompleted \/ QueueFull
    BY <2>3 DEF PushOutput, PushCompleted, QueueFull, Q!Next
  <2>4. CASE Drain
    <3>1. {1, MaxPushes} \subseteq 0..MaxPushes
      BY BoundsAssumption
    <3> QED
      BY <2>4, <3>1 DEF Drain, Q!Next
  <2> QED
    BY <1>2, <2>1, <2>2, <2>3, <2>4 DEF Next, vars, StartAttempt, CompleteStale, Complete, MarkRunning,
                                        Panics, Cancel, FinishAfterCancel, Observe, Unobserve
<1> QED
  BY <1>1, <1>2, Invariance, PTL DEF Spec

(* The coordination only sees observe and unobserve. *)
THEOREM UsesCoordination == Spec => C!Spec
<1>1. Init => C!Init
  BY DEF Init
<1>2. ASSUME [Next]_vars
      PROVE  C!Next \/ UNCHANGED C!vars
  <2>1. CASE UNCHANGED coordinationVars
    BY <2>1 DEF coordinationVars, C!vars
  <2>2. ASSUME NEW k \in Keys, NEW o \in Observers,
               Observe(k, o) \/ \E policy \in C!UnobservedPolicies : Unobserve(k, o, policy)
        PROVE  C!Next
    BY <2>2 DEF Observe, Unobserve, C!Next
  <2> QED
    BY <1>2, <2>1, <2>2 DEF Next, vars, StartAttempt, CompleteStale, Complete, MarkRunning, PushOutput,
                            PushCompleted, QueueFull, Panics, Cancel, FinishAfterCancel,
                            EnqueueProgress, Drain
<1> QED
  BY <1>1, <1>2, PTL DEF Spec, C!Spec

(* Only observers watch, so that a snapshot of the coordination is one the *)
(* record may be given.                                                    *)
Watchers == \A k \in Keys : C!Watching(k) \subseteq Observers

LEMMA WatchersInvariance == Spec => []Watchers
<1>1. Init => Watchers
  BY DEF Init, C!Init, Watchers, C!Watching
<1>2. Watchers /\ [Next]_vars => Watchers'
  <2> SUFFICES ASSUME Watchers, [Next]_vars PROVE Watchers'
    OBVIOUS
  <2>1. CASE observers' = observers
    BY <2>1 DEF Watchers, C!Watching
  <2>2. ASSUME NEW k \in Keys, NEW o \in Observers,
               Observe(k, o) \/ \E policy \in C!UnobservedPolicies : Unobserve(k, o, policy)
        PROVE  Watchers'
    <3>1. \/ observers' = observers
          \/ observers' = C!With(k, C!Watching(k) \cup {o})
          \/ observers' = C!With(k, C!Watching(k) \ {o})
          \/ observers' = C!Without(k)
      BY <2>2 DEF Observe, Unobserve, C!Observe, C!UnobserveNotAttached, C!UnobserveRemaining,
                  C!UnobserveLast
    <3>2. \A j \in Keys : \/ C!Watching(j)' = C!Watching(j)
                          \/ C!Watching(j)' = {}
                          \/ j = k /\ C!Watching(j)' \in {C!Watching(k) \cup {o}, C!Watching(k) \ {o}}
      BY <3>1 DEF C!With, C!Without, C!Watching
    <3> QED
      BY <3>2 DEF Watchers
  <2> QED
    BY <2>1, <2>2 DEF Next, vars, coordinationVars, StartAttempt, CompleteStale, Complete, MarkRunning,
                      PushOutput, PushCompleted, QueueFull, Panics, Cancel, FinishAfterCancel,
                      EnqueueProgress, Drain
<1> QED
  BY <1>1, <1>2, PTL DEF Spec

(* The record only sees calls of its own, or is replaced by a completion.  *)
THEOREM UsesRecord ==
  Spec => R!Init /\ [][R!Next \/ \E a \in Attempts, o \in Outputs : Complete(a, o)]_(R!vars)
<1>1. Init => R!Init
  BY DEF Init
<1>2. ASSUME IInv, Watchers', [Next]_vars
      PROVE  \/ R!Next
             \/ \E a \in Attempts, o \in Outputs : Complete(a, o)
             \/ UNCHANGED R!vars
  <2>1. CASE UNCHANGED recordVars
    BY <2>1 DEF recordVars, R!vars
  <2>2. attempt \in Attempts \cup {NoAttempt}
    BY <1>2 DEF IInv, Types, RecordTypes
  <2>3. ASSUME NEW a \in Attempts, StartAttempt(a)
        PROVE  R!Next
    BY <2>3 DEF StartAttempt, R!Next
  <2>4. CASE MarkRunning \/ FinishAfterCancel
    BY <1>2, <2>2, <2>4 DEF IInv, Types, RecordTypes, MarkRunning, FinishAfterCancel, R!Next
  <2>5. ASSUME NEW r \in Reasons, Cancel(r)
        PROVE  R!Next
    BY <2>5 DEF Cancel, R!Next
  <2>6. ASSUME NEW k \in Keys, NEW o \in Observers,
               Observe(k, o) \/ \E policy \in C!UnobservedPolicies : Unobserve(k, o, policy)
        PROVE  R!Next \/ UNCHANGED R!vars
    <3>1. Sync(k)
      BY <2>6 DEF Observe, Unobserve
    <3>2. C!observer_count(k)' \in 0..Cardinality(Observers)
      <4>1. C!Watching(k)' \subseteq Observers
        BY <1>2 DEF Watchers
      <4>2. C!observer_count(k)' = Cardinality(C!Watching(k)')
        BY DEF C!observer_count, C!Cardinality, Cardinality
      <4>3. /\ Cardinality(C!Watching(k)') \in Nat /\ Cardinality(Observers) \in Nat
            /\ Cardinality(C!Watching(k)') <= Cardinality(Observers)
        BY <4>1, ObserversAssumption, FS_Subset, FS_CardinalityType
      <4> QED
        BY <4>2, <4>3
    <3>3. CASE k = key
      <4>1. R!SyncObserverCount(OwnKey, C!observer_count(k)')
        BY <3>1, <3>3 DEF Sync
      <4>2. OwnKey \in Keys
        BY DEF Keys
      <4> QED
        BY <3>2, <4>1, <4>2 DEF R!Next
    <3> QED
      BY <3>1, <3>3 DEF Sync, recordVars, R!vars
  <2> QED
    BY <1>2, <2>1, <2>3, <2>4, <2>5, <2>6 DEF Next, vars, CompleteStale, PushOutput, PushCompleted,
                                              QueueFull, Panics, EnqueueProgress, Drain
<1> QED
  BY <1>1, <1>2, Invariance, WatchersInvariance, PTL DEF Spec
-----------------------------------------------------------------------------
(* What is proved of the parts for any use of theirs, as instances of the  *)
(* modules that prove it, holds of them in the harness.                    *)
QueueProofs == INSTANCE EventQueue_proofs WITH Slots <- Attempts \X CoalescingKeys

CoordinationProofs == INSTANCE TaskCoordination_proofs

RecordProofs == INSTANCE TaskRecord_proofs WITH MaxObservers <- Cardinality(Observers)

LEMMA QueueConstantsFit == QueueProofs!SlotsAssumption /\ QueueProofs!BoundsAssumption
  BY PartsFit DEF QueueProofs!SlotsAssumption, QueueProofs!BoundsAssumption,
                  QueueProofs!IsFiniteSet, IsFiniteSet

LEMMA CoordinationConstantsFit ==
  CoordinationProofs!ObserversAssumption /\ CoordinationProofs!MaxEpisodesAssumption
  BY PartsFit DEF CoordinationProofs!ObserversAssumption, CoordinationProofs!MaxEpisodesAssumption,
                  CoordinationProofs!IsFiniteSet, IsFiniteSet

LEMMA RecordConstantsFit ==
  /\ RecordProofs!AttemptsAssumption /\ RecordProofs!ReasonsAssumption
  /\ RecordProofs!MaxObserversAssumption
  BY PartsFit DEF RecordProofs!AttemptsAssumption, RecordProofs!ReasonsAssumption,
                  RecordProofs!MaxObserversAssumption

(* The queue of the harness and the queue of the proofs are one.           *)
LEMMA SameQueue ==
  /\ Q!Init => QueueProofs!Init
  /\ [Q!Next]_(Q!vars) => [QueueProofs!Next]_(QueueProofs!vars)
  /\ QueueProofs!Bounded => Q!Bounded
  /\ QueueProofs!OrderExact => Q!OrderExact
  /\ QueueProofs!Accounted => Q!Accounted
  /\ QueueProofs!InOrder => Q!InOrder
  /\ QueueProofs!NewestKept => Q!NewestKept
<1> USE DEF Q!Vacant, QueueProofs!Vacant, Q!Held, QueueProofs!Held
<1>1. Q!Init => QueueProofs!Init
  BY DEF Q!Init, QueueProofs!Init
<1>2. Q!PendingEvents = QueueProofs!PendingEvents
  BY DEF Q!PendingEvents, QueueProofs!PendingEvents, Q!Cardinality, QueueProofs!Cardinality
<1>3. Q!Next => QueueProofs!Next
  BY <1>2 DEF Q!Next, QueueProofs!Next, Q!Stamp, QueueProofs!Stamp, Q!HasRoom, QueueProofs!HasRoom,
       Q!PushFifo, QueueProofs!PushFifo, Q!Coalesce, QueueProofs!Coalesce,
       Q!PushProgress, QueueProofs!PushProgress, Q!Overflow, QueueProofs!Overflow,
       Q!BeginDrain, QueueProofs!BeginDrain, Q!TakeFifo, QueueProofs!TakeFifo,
       Q!TakeProgress, QueueProofs!TakeProgress, Q!EndDrain, QueueProofs!EndDrain
<1>4. [Q!Next]_(Q!vars) => [QueueProofs!Next]_(QueueProofs!vars)
  BY <1>3 DEF Q!vars, QueueProofs!vars
<1>5. /\ QueueProofs!Bounded => Q!Bounded
      /\ QueueProofs!Accounted => Q!Accounted
  BY <1>2 DEF Q!Bounded, QueueProofs!Bounded, Q!Accounted, QueueProofs!Accounted,
              Q!Out, QueueProofs!Out
<1>6. QueueProofs!OrderExact => Q!OrderExact
  BY DEF Q!OrderExact, QueueProofs!OrderExact
<1>7. /\ QueueProofs!InOrder => Q!InOrder
      /\ QueueProofs!NewestKept => Q!NewestKept
  BY DEF Q!InOrder, QueueProofs!InOrder, Q!NewestKept, QueueProofs!NewestKept,
         Q!Out, QueueProofs!Out
<1> QED
  BY <1>1, <1>4, <1>5, <1>6, <1>7

(* The queue of the harness keeps every promise of a queue, between the    *)
(* two pushes of a completion and after a failed one as well (testing.rs:  *)
(* 613-622, queue.rs:61-146).                                              *)
THEOREM QueueKeepsItsPromises ==
  Spec => [](Q!Bounded /\ Q!OrderExact /\ Q!Accounted /\ Q!InOrder /\ Q!NewestKept)
<1> DEFINE I == QueueProofs!IInv
           O == QueueProofs!OInv
<1>1. Q!Init => I /\ O
  BY SameQueue, QueueProofs!InitIInv, QueueProofs!InitOInv, QueueConstantsFit
<1>2. I /\ O /\ [Q!Next]_(Q!vars) => I' /\ O'
  BY SameQueue, QueueProofs!NextIInv, QueueProofs!NextOInv, QueueConstantsFit
<1>3. I /\ O => Q!Bounded /\ Q!OrderExact /\ Q!Accounted /\ Q!InOrder /\ Q!NewestKept
  BY SameQueue DEF QueueProofs!IInv, QueueProofs!OInv
<1> QED
  BY <1>1, <1>2, <1>3, UsesQueue, PTL

(* The coordination of the harness and the one of the proofs are one.      *)
LEMMA SameCoordination ==
  /\ C!Init => CoordinationProofs!Init
  /\ [C!Next]_(C!vars) => [CoordinationProofs!Next]_(CoordinationProofs!vars)
  /\ CoordinationProofs!NoEmptyEntry => C!NoEmptyEntry
  /\ CoordinationProofs!EpisodesBalance => C!EpisodesBalance
<1> USE DEF C!Watching, CoordinationProofs!Watching
<1>1. C!Init => CoordinationProofs!Init
  BY DEF C!Init, CoordinationProofs!Init, C!NoChange, CoordinationProofs!NoChange
<1>2. /\ \A S : C!Cardinality(S) = CoordinationProofs!Cardinality(S)
      /\ \A k : C!observer_count(k) = CoordinationProofs!observer_count(k)
      /\ \A k : C!is_observed(k) <=> CoordinationProofs!is_observed(k)
  BY DEF C!Cardinality, CoordinationProofs!Cardinality,
         C!observer_count, CoordinationProofs!observer_count,
         C!is_observed, CoordinationProofs!is_observed
<1>3. C!Next => CoordinationProofs!Next
  BY <1>2 DEF C!Next, CoordinationProofs!Next, C!Observe, CoordinationProofs!Observe,
       C!UnobserveNotAttached, CoordinationProofs!UnobserveNotAttached,
       C!UnobserveRemaining, CoordinationProofs!UnobserveRemaining,
       C!UnobserveLast, CoordinationProofs!UnobserveLast,
       C!With, CoordinationProofs!With, C!Without, CoordinationProofs!Without,
       C!PolicyAnswer, CoordinationProofs!PolicyAnswer,
       C!UnobservedPolicies, CoordinationProofs!UnobservedPolicies
<1>4. [C!Next]_(C!vars) => [CoordinationProofs!Next]_(CoordinationProofs!vars)
  BY <1>3 DEF C!vars, CoordinationProofs!vars
<1>5. /\ CoordinationProofs!NoEmptyEntry => C!NoEmptyEntry
      /\ CoordinationProofs!EpisodesBalance => C!EpisodesBalance
  BY <1>2 DEF C!NoEmptyEntry, CoordinationProofs!NoEmptyEntry,
              C!EpisodesBalance, CoordinationProofs!EpisodesBalance
<1> QED
  BY <1>1, <1>4, <1>5

(* The observers of the harness, under its own key, the keys of outputs    *)
(* and any other, are kept without empty entries and with one policy       *)
(* answer per period of observation, whatever the record does in between   *)
(* (testing.rs:638-660, coordination.rs:142-168).                          *)
THEOREM CoordinationKeepsItsPromises == Spec => [](C!NoEmptyEntry /\ C!EpisodesBalance)
<1>1. C!Spec => CoordinationProofs!Spec
  BY SameCoordination, PTL DEF C!Spec, CoordinationProofs!Spec
<1>2. CoordinationProofs!Spec => []CoordinationProofs!IInv
  BY CoordinationProofs!Invariance, CoordinationConstantsFit
<1>3. CoordinationProofs!IInv => C!NoEmptyEntry /\ C!EpisodesBalance
  BY SameCoordination DEF CoordinationProofs!IInv
<1> QED
  BY <1>1, <1>2, <1>3, UsesCoordination, PTL

(* ... and under all of its keys it answers observers who detach as the    *)
(* plain relation of attachments does: the policy to the last one only.    *)
THEOREM CoordinationImplementsAttachments == Spec => C!ImplementsAttachments
<1> USE DEF C!Watching, CoordinationProofs!Watching
<1>1. C!Spec => CoordinationProofs!Spec
  BY SameCoordination, PTL DEF C!Spec, CoordinationProofs!Spec
<1>2. CoordinationProofs!Spec => CoordinationProofs!ImplementsAttachments
  BY CoordinationProofs!Refinement, CoordinationConstantsFit
<1>3. CoordinationProofs!Relation!Init => C!Relation!Init
  BY DEF CoordinationProofs!Relation!Init, C!Relation!Init,
         CoordinationProofs!Relation!Tell, C!Relation!Tell
<1>4. \A S : C!Relation!Cardinality(S) = CoordinationProofs!Relation!Cardinality(S)
  BY DEF C!Relation!Cardinality, CoordinationProofs!Relation!Cardinality
<1>5. [CoordinationProofs!Relation!Next]_(CoordinationProofs!Relation!vars)
        => [C!Relation!Next]_(C!Relation!vars)
  BY <1>4
     DEF CoordinationProofs!Relation!Next, C!Relation!Next,
         CoordinationProofs!Relation!Attach, C!Relation!Attach,
         CoordinationProofs!Relation!Miss, C!Relation!Miss,
         CoordinationProofs!Relation!Leave, C!Relation!Leave,
         CoordinationProofs!Relation!LeaveLast, C!Relation!LeaveLast,
         CoordinationProofs!Relation!Others, C!Relation!Others,
         CoordinationProofs!Relation!Tell, C!Relation!Tell,
         CoordinationProofs!Relation!PolicyAnswers, C!Relation!PolicyAnswers,
         CoordinationProofs!Relation!vars, C!Relation!vars
<1> QED
  BY <1>1, <1>2, <1>3, <1>5, UsesCoordination, PTL
     DEF C!ImplementsAttachments, CoordinationProofs!ImplementsAttachments,
         C!Relation!Spec, CoordinationProofs!Relation!Spec

(* The record of the harness and the record of the proofs are one.         *)
LEMMA SameRecord ==
  /\ R!Init => RecordProofs!Init
  /\ [R!Next]_(R!vars) => [RecordProofs!Next]_(RecordProofs!vars)
  /\ RecordProofs!NewestAttemptRules => R!NewestAttemptRules
  /\ RecordProofs!CancelClaimsBacked => R!CancelClaimsBacked
  /\ RecordProofs!SettledWasTouched => R!SettledWasTouched
<1>1. R!Init => RecordProofs!Init
  BY DEF R!Init, RecordProofs!Init, R!Token!Init, RecordProofs!Token!Init
<1>2. R!Next => RecordProofs!Next
  BY DEF R!Next, RecordProofs!Next, R!StartAttempt, RecordProofs!StartAttempt,
         R!Mark, RecordProofs!Mark, R!Settle, RecordProofs!Settle,
         R!FinishAfterCancel, RecordProofs!FinishAfterCancel,
         R!RequestCancel, RecordProofs!RequestCancel, R!TokenCancel, RecordProofs!TokenCancel,
         R!SyncObserverCount, RecordProofs!SyncObserverCount,
         R!TerminalEventAttempt, RecordProofs!TerminalEventAttempt,
         R!ActiveAttempt, RecordProofs!ActiveAttempt, R!IsTerminal, RecordProofs!IsTerminal,
         R!Terminal, RecordProofs!Terminal, R!Token!Request, RecordProofs!Token!Request
<1>3. [R!Next]_(R!vars) => [RecordProofs!Next]_(RecordProofs!vars)
  BY <1>2 DEF R!vars, RecordProofs!vars
<1>4. /\ RecordProofs!NewestAttemptRules => R!NewestAttemptRules
      /\ RecordProofs!CancelClaimsBacked => R!CancelClaimsBacked
      /\ RecordProofs!SettledWasTouched => R!SettledWasTouched
  BY DEF RecordProofs!NewestAttemptRules, R!NewestAttemptRules,
         RecordProofs!CancelClaimsBacked, R!CancelClaimsBacked,
         RecordProofs!SettledWasTouched, R!SettledWasTouched, RecordProofs!Terminal, R!Terminal
<1> QED
  BY <1>1, <1>3, <1>4

(* A completion puts a record in place that has been queued, started,      *)
(* marked and completed on its own.                                        *)
LEMMA ReplacementKeepsRecord ==
  ASSUME NEW a \in Attempts, NEW o \in Outputs, Complete(a, o)
  PROVE  RecordProofs!IInv'
<1>1. /\ status' = "Completed" /\ attempt' = a /\ landed' = a /\ touched' = {a}
      /\ token' = NoReason /\ cancel_reason' = NoReason /\ observer_count' = 0
  BY DEF Complete
<1>2. a \in Nat /\ a # NoAttempt /\ 0 \in 0..Cardinality(Observers)
  BY PartsFit
<1> QED
  BY <1>1, <1>2
     DEF RecordProofs!IInv, RecordProofs!TypeOK, RecordProofs!NewestAttemptRules,
         RecordProofs!CancelClaimsBacked, RecordProofs!LeftQueued, RecordProofs!SettledWasTouched,
         RecordProofs!Active, RecordProofs!Terminal, RecordProofs!IsTerminal

(* The record keeps its promises across its replacement too: at the newest *)
(* attempt, settled only for one that left Queued, and claiming no         *)
(* cancellation that its token, the new one from then on, does not know of *)
(* (testing.rs:587-611).                                                   *)
THEOREM RecordKeepsItsPromises ==
  Spec => [](R!NewestAttemptRules /\ R!CancelClaimsBacked /\ R!SettledWasTouched)
<1> DEFINE I == RecordProofs!IInv
           Replaced == \E a \in Attempts, o \in Outputs : Complete(a, o)
<1>1. R!Init => I
  BY SameRecord, RecordProofs!InitIInv, RecordConstantsFit
<1>2. I /\ [R!Next \/ Replaced]_(R!vars) => I'
  BY SameRecord, RecordProofs!NextIInv, RecordConstantsFit, ReplacementKeepsRecord
<1>3. I => R!NewestAttemptRules /\ R!CancelClaimsBacked /\ R!SettledWasTouched
  BY SameRecord DEF RecordProofs!IInv
<1> QED
  BY <1>1, <1>2, <1>3, UsesRecord, PTL
=============================================================================
