---------------------------- MODULE EventQueue_proofs ----------------------------
(***************************************************************************)
(* Proofs about EventQueue, for any slots and capacity and any number of   *)
(* pushes up to any bound.  OrderExact is what ties the map of the         *)
(* progress half to its order; Bounded and Accounted need it only through  *)
(* the fact that a drained slot is held, so that removing it lowers the    *)
(* count by one.                                                           *)
(***************************************************************************)
EXTENDS EventQueue, FiniteSetTheorems, SequenceTheorems, TLAPS

IInv == TypeOK /\ OrderExact /\ Bounded /\ Accounted

-----------------------------------------------------------------------------
LEMMA HeldFinite == IsFiniteSet(Held) /\ Cardinality(Held) \in Nat
  BY SlotsAssumption, FS_Subset, FS_CardinalityType DEF Held

(* Filling a vacant slot and emptying a held one move the count by one.    *)
LEMMA FillCounts ==
  ASSUME TypeOK, NEW s \in Slots, s \notin Held, NEW n \in Stamps,
         progress' = [progress EXCEPT ![s] = n]
  PROVE  Held' = Held \cup {s} /\ Cardinality(Held') = Cardinality(Held) + 1
<1>1. n # Vacant
  BY BoundsAssumption DEF Stamps, Vacant
<1>2. Held' = Held \cup {s}
  BY <1>1 DEF Held, TypeOK
<1> QED
  BY <1>2, HeldFinite, FS_AddElement

LEMMA EmptyCounts ==
  ASSUME TypeOK, NEW s \in Slots, s \in Held, progress' = [progress EXCEPT ![s] = Vacant]
  PROVE  Held' = Held \ {s} /\ Cardinality(Held') = Cardinality(Held) - 1
<1>1. Held' = Held \ {s}
  BY DEF Held, TypeOK
<1> QED
  BY <1>1, HeldFinite, FS_RemoveElement

LEMMA StampType ==
  ASSUME TypeOK, Stamp
  PROVE  pushed \in Nat /\ pushed' = pushed + 1 /\ pushed' \in Stamps /\ pushed' \in 0..MaxPushes
  BY BoundsAssumption DEF TypeOK, Stamp, Stamps

LEMMA InitIInv == Init => IInv
<1> SUFFICES ASSUME Init PROVE IInv
  OBVIOUS
<1>1. Held = {} /\ Cardinality(Held) = 0
  BY FS_EmptySet DEF Init, Held
<1>2. TypeOK
  <2>1. fifo \in Seq(Stamps) /\ progress_order \in Seq(Slots)
    BY EmptySeq DEF Init
  <2>2. events \in Seq(Events) /\ delivered \in Seq(Events)
    BY EmptySeq DEF Init
  <2>3. progress \in [Slots -> Stamps \cup {Vacant}] /\ latest \in [Slots -> Stamps \cup {Vacant}]
    BY DEF Init
  <2>4. /\ dropped_events \in Nat /\ coalesced_events \in Nat /\ remaining \in Nat
        /\ pushed = 0 /\ draining \in BOOLEAN
    BY DEF Init
  <2>5. 0 \in 0..MaxPushes
    BY BoundsAssumption
  <2> QED
    BY <2>1, <2>2, <2>3, <2>4, <2>5 DEF TypeOK
<1>3. OrderExact
  BY <1>1 DEF Init, OrderExact
<1>4. Len(Out) = 0 /\ PendingEvents = 0
  BY <1>1 DEF Init, Out, PendingEvents
<1> QED
  BY <1>2, <1>3, <1>4, BoundsAssumption DEF IInv, Bounded, Accounted, Init

LEMMA NextType == TypeOK /\ [Next]_vars => TypeOK'
<1> SUFFICES ASSUME TypeOK, [Next]_vars PROVE TypeOK'
  OBVIOUS
<1>1. CASE PushFifo
  BY <1>1, StampType DEF PushFifo, Stamp, TypeOK
<1>2. ASSUME NEW s \in Slots, Coalesce(s) \/ PushProgress(s) PROVE TypeOK'
  <2>1. pushed' \in Stamps /\ pushed' \in 0..MaxPushes
    BY <1>2, StampType DEF Coalesce, PushProgress
  <2>2. /\ progress' = [progress EXCEPT ![s] = pushed']
        /\ latest' = [latest EXCEPT ![s] = pushed']
        /\ progress_order' \in Seq(Slots)
        /\ coalesced_events' \in Nat
        /\ UNCHANGED <<fifo, dropped_events, draining, remaining, events, delivered>>
    <3>1. CASE Coalesce(s)
      BY <3>1 DEF Coalesce, Stamp, TypeOK
    <3>2. CASE PushProgress(s)
      <4>1. Append(progress_order, s) \in Seq(Slots)
        BY AppendProperties DEF TypeOK
      <4> QED
        BY <3>2, <4>1 DEF PushProgress, Stamp, TypeOK
    <3> QED
      BY <1>2, <3>1, <3>2
  <2> QED
    BY <2>1, <2>2 DEF TypeOK
<1>3. ASSUME NEW s \in Slots \cup {NoSlot}, Overflow(s) PROVE TypeOK'
  BY <1>3, StampType DEF Overflow, Stamp, TypeOK
<1>4. ASSUME NEW budget \in 0..MaxPushes, BeginDrain(budget) PROVE TypeOK'
  BY <1>4 DEF BeginDrain, TypeOK
<1>5. CASE TakeFifo
  <2>1. Head(fifo) \in Stamps /\ Tail(fifo) \in Seq(Stamps)
    BY <1>5, HeadTailProperties DEF TakeFifo, TypeOK
  <2>2. [slot |-> NoSlot, stamp |-> Head(fifo)] \in Events
    BY <2>1 DEF Events
  <2>3. events' \in Seq(Events) /\ fifo' \in Seq(Stamps)
    BY <1>5, <2>1, <2>2, AppendProperties DEF TakeFifo, TypeOK
  <2> QED
    BY <1>5, <2>3 DEF TakeFifo, TypeOK
<1>6. CASE TakeProgress
  <2> DEFINE s == Head(progress_order)
  <2>1. s \in Slots /\ Tail(progress_order) \in Seq(Slots)
    BY <1>6, HeadTailProperties DEF TakeProgress, TypeOK
  <2>2. CASE s \in Held
    <3>1. [slot |-> s, stamp |-> progress[s]] \in Events
      BY <2>1, <2>2 DEF Held, TypeOK, Events
    <3>2. /\ events' = Append(events, [slot |-> s, stamp |-> progress[s]])
          /\ progress' = [progress EXCEPT ![s] = Vacant]
          /\ progress_order' = Tail(progress_order)
          /\ remaining > 0 /\ remaining' = remaining - 1
          /\ UNCHANGED <<fifo, dropped_events, coalesced_events, draining, delivered, pushed, latest>>
      BY <1>6, <2>2 DEF TakeProgress
    <3>3. events' \in Seq(Events)
      BY <3>1, <3>2, AppendProperties DEF TypeOK
    <3>4. remaining' \in Nat
      BY <3>2 DEF TypeOK
    <3>5. progress' \in [Slots -> Stamps \cup {Vacant}]
      BY <3>2 DEF TypeOK
    <3> QED
      BY <2>1, <3>2, <3>3, <3>4, <3>5 DEF TypeOK
  <2>3. CASE s \notin Held
    BY <1>6, <2>1, <2>3 DEF TakeProgress, TypeOK
  <2> QED
    BY <2>2, <2>3
<1>7. CASE EndDrain
  <2>1. delivered' \in Seq(Events) /\ events' \in Seq(Events)
    BY <1>7, ConcatProperties, EmptySeq DEF EndDrain, TypeOK
  <2> QED
    BY <1>7, <2>1 DEF EndDrain, TypeOK
<1>8. CASE UNCHANGED vars
  BY <1>8 DEF vars, TypeOK
<1> QED
  BY <1>1, <1>2, <1>3, <1>4, <1>5, <1>6, <1>7, <1>8 DEF Next

(* Every part of the queue keeps its type.                                 *)
THEOREM TypeCorrect == Spec => []TypeOK
<1>1. Init => TypeOK
  BY InitIInv DEF IInv
<1> QED
  BY <1>1, NextType, PTL DEF Spec
-----------------------------------------------------------------------------
LEMMA PushKeepsOrder ==
  ASSUME TypeOK, OrderExact, NEW s \in Slots, PushProgress(s)
  PROVE  OrderExact'
<1> DEFINE n == Len(progress_order)
<1>1. /\ n \in Nat /\ DOMAIN progress_order = 1..n
      /\ \A i \in 1..n : progress_order[i] \in Slots
  BY ElementOfSeq, LenProperties DEF TypeOK
<1>2. /\ DOMAIN progress_order' = 1..(n + 1)
      /\ \A i \in 1..n : progress_order'[i] = progress_order[i]
      /\ progress_order'[n + 1] = s
  BY <1>1, AppendProperties, LenProperties DEF PushProgress, TypeOK
<1>3. s \notin Held /\ Held' = Held \cup {s}
  BY StampType, FillCounts DEF PushProgress
<1>4. \A i \in 1..n : progress_order[i] \in Held
  BY <1>1 DEF OrderExact
<1>5. \A i \in DOMAIN progress_order' : progress_order'[i] \in Held'
  BY <1>1, <1>2, <1>3, <1>4
<1>6. \A i, j \in DOMAIN progress_order' : progress_order'[i] = progress_order'[j] => i = j
  BY <1>1, <1>2, <1>3, <1>4 DEF OrderExact
<1>7. \A t \in Held' : \E i \in DOMAIN progress_order' : progress_order'[i] = t
  BY <1>1, <1>2, <1>3 DEF OrderExact
<1> QED
  BY <1>5, <1>6, <1>7 DEF OrderExact

(* The slot drain pops is held, and it is in the order nowhere else.       *)
LEMMA TakePops ==
  ASSUME TypeOK, OrderExact, TakeProgress
  PROVE  /\ Head(progress_order) \in Slots /\ Head(progress_order) \in Held
         /\ Len(progress_order) \in Nat \ {0} /\ progress_order[1] = Head(progress_order)
         /\ DOMAIN progress_order = 1..Len(progress_order)
         /\ DOMAIN progress_order' = 1..(Len(progress_order) - 1)
         /\ \A i \in DOMAIN progress_order' : progress_order'[i] = progress_order[i + 1]
<1>1. /\ progress_order \in Seq(Slots) /\ progress_order # <<>>
      /\ progress_order' = Tail(progress_order)
  BY DEF TypeOK, TakeProgress
<1>2. Len(progress_order) \in Nat \ {0} /\ DOMAIN progress_order = 1..Len(progress_order)
  BY <1>1, EmptySeq, LenProperties
<1>3. /\ Head(progress_order) \in Slots
      /\ Tail(progress_order) \in Seq(Slots)
      /\ Len(Tail(progress_order)) = Len(progress_order) - 1
      /\ \A i \in 1..Len(Tail(progress_order)) : Tail(progress_order)[i] = progress_order[i + 1]
  BY <1>1, HeadTailProperties
<1>4. progress_order[1] = Head(progress_order)
  BY <1>1, <1>2
<1>5. Head(progress_order) \in Held
  BY <1>2, <1>4 DEF OrderExact
<1>6. DOMAIN progress_order' = 1..(Len(progress_order) - 1)
  BY <1>1, <1>3, LenProperties
<1> QED
  BY <1>1, <1>2, <1>3, <1>4, <1>5, <1>6

LEMMA TakeKeepsOrder ==
  ASSUME TypeOK, OrderExact, TakeProgress
  PROVE  OrderExact'
<1> DEFINE s == Head(progress_order)
           n == Len(progress_order)
<1>1. /\ s \in Slots /\ s \in Held /\ n \in Nat \ {0} /\ progress_order[1] = s
      /\ DOMAIN progress_order = 1..n /\ DOMAIN progress_order' = 1..(n - 1)
      /\ \A i \in DOMAIN progress_order' : progress_order'[i] = progress_order[i + 1]
  BY TakePops
<1>2. Held' = Held \ {s}
  BY <1>1, EmptyCounts DEF TakeProgress
<1> HIDE DEF s, n
<1>3. \A i \in DOMAIN progress_order' : progress_order'[i] \in Held'
  BY <1>1, <1>2 DEF OrderExact
<1>4. \A i, j \in DOMAIN progress_order' : progress_order'[i] = progress_order'[j] => i = j
  BY <1>1 DEF OrderExact
<1>5. ASSUME NEW t \in Held'
      PROVE \E i \in DOMAIN progress_order' : progress_order'[i] = t
  <2>1. t # s /\ t \in Held
    BY <1>2, <1>5
  <2>2. PICK i \in 1..n : progress_order[i] = t
    BY <1>1, <2>1 DEF OrderExact
  <2>3. i # 1 /\ i - 1 \in DOMAIN progress_order' /\ progress_order'[i - 1] = progress_order[i]
    BY <1>1, <2>1, <2>2
  <2> QED
    BY <2>2, <2>3
<1> QED
  BY <1>3, <1>4, <1>5 DEF OrderExact

LEMMA NextOrder == TypeOK /\ OrderExact /\ [Next]_vars => OrderExact'
<1> SUFFICES ASSUME TypeOK, OrderExact, [Next]_vars PROVE OrderExact'
  OBVIOUS
<1>0. ASSUME UNCHANGED <<progress_order, progress>> PROVE OrderExact'
  BY <1>0 DEF OrderExact, Held
<1>1. CASE PushFifo \/ TakeFifo \/ EndDrain
  BY <1>0, <1>1 DEF PushFifo, TakeFifo, EndDrain
<1>2. ASSUME NEW s \in Slots, Coalesce(s) PROVE OrderExact'
  <2>1. pushed' # Vacant
    BY <1>2, StampType, BoundsAssumption DEF Coalesce, Stamps, Vacant
  <2>2. Held' = Held
    BY <1>2, <2>1 DEF Coalesce, Held, TypeOK
  <2> QED
    BY <1>2, <2>2 DEF Coalesce, OrderExact
<1>3. ASSUME NEW s \in Slots, PushProgress(s) PROVE OrderExact'
  BY <1>3, PushKeepsOrder
<1>4. ASSUME NEW s \in Slots \cup {NoSlot}, Overflow(s) PROVE OrderExact'
  BY <1>0, <1>4 DEF Overflow
<1>5. ASSUME NEW budget \in 0..MaxPushes, BeginDrain(budget) PROVE OrderExact'
  BY <1>0, <1>5 DEF BeginDrain
<1>6. CASE TakeProgress
  BY <1>6, TakeKeepsOrder
<1>7. CASE UNCHANGED vars
  BY <1>0, <1>7 DEF vars
<1> QED
  BY <1>1, <1>2, <1>3, <1>4, <1>5, <1>6, <1>7 DEF Next
-----------------------------------------------------------------------------
(* What the counting needs of the sequences. *)
LEMMA Lengths ==
  ASSUME TypeOK
  PROVE  /\ Len(fifo) \in Nat /\ Len(events) \in Nat /\ Len(delivered) \in Nat
         /\ Len(Out) = Len(delivered) + Len(events)
         /\ Cardinality(Held) \in Nat
  BY LenProperties, ConcatProperties, HeldFinite DEF TypeOK, Out

(* The two facts about counts, as one predicate over numbers: pushed,      *)
(* dropped, coalesced, in the fifo, in slots, out.                         *)
Tally(p, d, c, f, h, o) == f + h <= Capacity /\ p = d + c + (f + h) + o

(* What each action does to the numbers keeps the predicate.               *)
LEMMA TallySteps ==
  ASSUME NEW p \in Nat, NEW d \in Nat, NEW c \in Nat, NEW f \in Nat, NEW h \in Nat, NEW o \in Nat,
         Tally(p, d, c, f, h, o)
  PROVE  /\ f + h < Capacity => Tally(p + 1, d, c, f + 1, h, o)
         /\ f + h < Capacity => Tally(p + 1, d, c, f, h + 1, o)
         /\ Tally(p + 1, d + 1, c, f, h, o)
         /\ Tally(p + 1, d, c + 1, f, h, o)
         /\ Tally(p, d, c, f - 1, h, o + 1)
         /\ Tally(p, d, c, f, h - 1, o + 1)
  BY BoundsAssumption DEF Tally

LEMMA NextCounts == IInv /\ [Next]_vars => (Bounded /\ Accounted)'
<1> SUFFICES ASSUME IInv, [Next]_vars PROVE (Bounded /\ Accounted)'
  OBVIOUS
<1>0. TypeOK /\ OrderExact /\ Bounded /\ Accounted /\ TypeOK'
  BY NextType DEF IInv
<1>a. /\ Len(fifo) \in Nat /\ Len(events) \in Nat /\ Len(delivered) \in Nat
      /\ Len(Out) = Len(delivered) + Len(events) /\ Len(Out) \in Nat
      /\ Cardinality(Held) \in Nat
      /\ Len(Out') = Len(delivered') + Len(events')
      /\ pushed \in Nat /\ dropped_events \in Nat /\ coalesced_events \in Nat
  <2>1. Len(Out') = Len(delivered') + Len(events')
    BY <1>0, ConcatProperties DEF TypeOK, Out
  <2>2. pushed \in Nat /\ dropped_events \in Nat /\ coalesced_events \in Nat
    BY <1>0, BoundsAssumption DEF TypeOK
  <2>3. /\ Len(fifo) \in Nat /\ Len(events) \in Nat /\ Len(delivered) \in Nat
        /\ Len(Out) = Len(delivered) + Len(events)
        /\ Cardinality(Held) \in Nat
    BY <1>0, Lengths
  <2>4. Len(Out) \in Nat
    BY <2>3
  <2> QED
    BY <2>1, <2>2, <2>3, <2>4
<1> DEFINE p == pushed
           d == dropped_events
           c == coalesced_events
           f == Len(fifo)
           h == Cardinality(Held)
           o == Len(Out)
<1>b. Tally(p, d, c, f, h, o)
  BY <1>0 DEF Bounded, Accounted, PendingEvents, Tally
<1>c. ASSUME Tally(p', d', c', f', h', o') PROVE (Bounded /\ Accounted)'
  BY <1>c DEF Bounded, Accounted, PendingEvents, Tally
<1>d. /\ f + h < Capacity => Tally(p + 1, d, c, f + 1, h, o)
      /\ f + h < Capacity => Tally(p + 1, d, c, f, h + 1, o)
      /\ Tally(p + 1, d + 1, c, f, h, o)
      /\ Tally(p + 1, d, c + 1, f, h, o)
      /\ Tally(p, d, c, f - 1, h, o + 1)
      /\ Tally(p, d, c, f, h - 1, o + 1)
  BY <1>a, <1>b, TallySteps
<1>1. CASE PushFifo
  <2>1. f' = f + 1
    BY <1>0, <1>1, StampType, AppendProperties DEF PushFifo, TypeOK
  <2>2. Held' = Held /\ Out' = Out
    BY <1>1 DEF PushFifo, Stamp, Held, Out
  <2>3. p' = p + 1 /\ d' = d /\ c' = c /\ f + h < Capacity
    BY <1>1 DEF PushFifo, Stamp, HasRoom, PendingEvents
  <2> QED
    BY <1>c, <1>d, <2>1, <2>2, <2>3
<1>2. ASSUME NEW s \in Slots, Coalesce(s) PROVE (Bounded /\ Accounted)'
  <2>1. pushed' # Vacant
    BY <1>0, <1>2, StampType DEF Coalesce, Stamps, Vacant
  <2>2. Held' = Held
    BY <1>0, <1>2, <2>1 DEF Coalesce, Held, TypeOK
  <2>3. p' = p + 1 /\ d' = d /\ c' = c + 1 /\ fifo' = fifo /\ Out' = Out
    BY <1>2 DEF Coalesce, Stamp, Out
  <2> QED
    BY <1>c, <1>d, <2>2, <2>3
<1>3. ASSUME NEW s \in Slots, PushProgress(s) PROVE (Bounded /\ Accounted)'
  <2>1. h' = h + 1
    BY <1>0, <1>3, StampType, FillCounts DEF PushProgress
  <2>2. fifo' = fifo /\ Out' = Out
    BY <1>3 DEF PushProgress, Stamp, Out
  <2>3. p' = p + 1 /\ d' = d /\ c' = c /\ f + h < Capacity
    BY <1>3 DEF PushProgress, Stamp, HasRoom, PendingEvents
  <2> QED
    BY <1>c, <1>d, <2>1, <2>2, <2>3
<1>4. ASSUME NEW s \in Slots \cup {NoSlot}, Overflow(s) PROVE (Bounded /\ Accounted)'
  <2>1. fifo' = fifo /\ Held' = Held /\ Out' = Out
    BY <1>4 DEF Overflow, Stamp, Held, Out
  <2>2. p' = p + 1 /\ d' = d + 1 /\ c' = c
    BY <1>4 DEF Overflow, Stamp
  <2> QED
    BY <1>c, <1>d, <2>1, <2>2
<1>5. ASSUME NEW budget \in 0..MaxPushes, BeginDrain(budget) PROVE (Bounded /\ Accounted)'
  <2>1. fifo' = fifo /\ Held' = Held /\ Out' = Out /\ p' = p /\ d' = d /\ c' = c
    BY <1>5 DEF BeginDrain, Held, Out
  <2> QED
    BY <1>b, <1>c, <2>1
<1>6. CASE TakeFifo
  <2>1. fifo # <<>> /\ f' = f - 1
    BY <1>0, <1>6, HeadTailProperties DEF TakeFifo, TypeOK
  <2>2. Len(events') = Len(events) + 1
    <3>1. Head(fifo) \in Stamps
      BY <1>0, <2>1, HeadTailProperties DEF TypeOK
    <3>2. [slot |-> NoSlot, stamp |-> Head(fifo)] \in Events
      BY <3>1 DEF Events
    <3> QED
      BY <1>0, <1>6, <3>2, AppendProperties DEF TakeFifo, TypeOK
  <2>3. Held' = Held /\ delivered' = delivered /\ p' = p /\ d' = d /\ c' = c
    BY <1>6 DEF TakeFifo, Held
  <2>4. o' = o + 1
    BY <1>a, <2>2, <2>3
  <2> QED
    BY <1>c, <1>d, <2>1, <2>3, <2>4
<1>7. CASE TakeProgress
  <2> DEFINE s == Head(progress_order)
  <2>1. s \in Slots /\ s \in Held
    BY <1>0, <1>7, TakePops
  <2>2. h' = h - 1
    BY <1>0, <1>7, <2>1, EmptyCounts DEF TakeProgress
  <2>3. Len(events') = Len(events) + 1
    <3>1. [slot |-> s, stamp |-> progress[s]] \in Events
      BY <1>0, <2>1 DEF Held, TypeOK, Events
    <3> QED
      BY <1>0, <1>7, <2>1, <3>1, AppendProperties DEF TakeProgress, TypeOK
  <2>4. fifo' = fifo /\ delivered' = delivered /\ p' = p /\ d' = d /\ c' = c
    BY <1>7 DEF TakeProgress
  <2>5. o' = o + 1
    BY <1>a, <2>3, <2>4
  <2> QED
    BY <1>c, <1>d, <2>2, <2>4, <2>5
<1>8. CASE EndDrain
  <2>1. Len(delivered') = Len(delivered) + Len(events) /\ Len(events') = 0
    BY <1>0, <1>8, ConcatProperties, EmptySeq DEF EndDrain, TypeOK
  <2>2. o' = o
    BY <1>a, <2>1
  <2>3. fifo' = fifo /\ Held' = Held /\ p' = p /\ d' = d /\ c' = c
    BY <1>8 DEF EndDrain, Held
  <2> QED
    BY <1>b, <1>c, <2>2, <2>3
<1>9. CASE UNCHANGED vars
  <2>1. fifo' = fifo /\ Held' = Held /\ Out' = Out /\ p' = p /\ d' = d /\ c' = c
    BY <1>9 DEF vars, Held, Out
  <2> QED
    BY <1>b, <1>c, <2>1
<1> QED
  BY <1>1, <1>2, <1>3, <1>4, <1>5, <1>6, <1>7, <1>8, <1>9 DEF Next

LEMMA NextIInv == IInv /\ [Next]_vars => IInv'
  BY NextType, NextOrder, NextCounts DEF IInv

(* The inductive invariant holds in every behaviour of the queue.          *)
THEOREM Invariance == Spec => []IInv
  BY InitIInv, NextIInv, PTL DEF Spec

(* For any capacity: pending events never exceed it, coalescing included.  *)
THEOREM QueueIsBounded == Spec => []Bounded
<1>1. IInv => Bounded
  BY DEF IInv
<1> QED
  BY <1>1, Invariance, PTL

(* The map and the order of the progress half never drift apart.           *)
THEOREM OrderIsExact == Spec => []OrderExact
<1>1. IInv => OrderExact
  BY DEF IInv
<1> QED
  BY <1>1, Invariance, PTL

(* Every pushed event is accounted for by the counts of the reports.       *)
THEOREM EventsAreAccounted == Spec => []Accounted
<1>1. IInv => Accounted
  BY DEF IInv
<1> QED
  BY <1>1, Invariance, PTL

-----------------------------------------------------------------------------
(* The order in which the queue gives events back.  InOrder and NewestKept *)
(* need to know that nothing in the queue or behind it is newer than the   *)
(* last push, and rest on an invariant of their own.                       *)

(* No stamp is from the future, and only a slot that was filled is held.   *)
Past ==
  /\ \A i \in DOMAIN fifo : fifo[i] <= pushed
  /\ \A i \in DOMAIN Out : Out[i].stamp <= pushed
  /\ \A s \in Slots : progress[s] <= pushed

HeldWasAccepted == \A s \in Held : latest[s] # Vacant

OInv == TypeOK /\ Past /\ InOrder /\ HeldWasAccepted /\ NewestKept

-----------------------------------------------------------------------------
LEMMA OutType ==
  ASSUME TypeOK
  PROVE  /\ Out \in Seq(Events) /\ Len(Out) \in Nat /\ DOMAIN Out = 1..Len(Out)
         /\ \A i \in DOMAIN Out : Out[i] \in Events
  BY ConcatProperties, LenProperties, ElementOfSeq DEF TypeOK, Out

LEMMA FifoType ==
  ASSUME TypeOK
  PROVE  /\ Len(fifo) \in Nat /\ DOMAIN fifo = 1..Len(fifo)
         /\ \A i \in DOMAIN fifo : fifo[i] \in Stamps
  BY LenProperties, ElementOfSeq DEF TypeOK

LEMMA Numbers ==
  ASSUME TypeOK
  PROVE  /\ pushed \in Nat
         /\ Stamps \subseteq Nat \ {0}
         /\ \A s \in Slots : progress[s] \in Nat /\ (s \in Held <=> progress[s] # Vacant)
         /\ \A e \in Events : e.stamp \in Nat /\ e.slot \in Slots \cup {NoSlot}
  BY BoundsAssumption DEF TypeOK, Stamps, Vacant, Held, Events

(* A turn of drain appends to what went out, its end changes nothing.      *)
LEMMA OutGrows ==
  ASSUME TypeOK, NEW e \in Events, events' = Append(events, e), delivered' = delivered
  PROVE  /\ DOMAIN Out' = 1..(Len(Out) + 1)
         /\ \A i \in DOMAIN Out : Out'[i] = Out[i]
         /\ Out'[Len(Out) + 1] = e
<1>1. events \in Seq(Events) /\ delivered \in Seq(Events) /\ Out \in Seq(Events)
  BY OutType DEF TypeOK
<1>2. Append(events, e) = events \o <<e>> /\ Append(Out, e) = Out \o <<e>> /\ <<e>> \in Seq(Events)
  BY <1>1, AppendIsConcat
<1>3. Out' = delivered \o (events \o <<e>>)
  BY <1>2 DEF Out
<1>4. Out' = Append(Out, e)
  BY <1>1, <1>2, <1>3, ConcatAssociative DEF Out
<1> QED
  BY <1>1, <1>4, AppendProperties, LenProperties

LEMMA OutStays ==
  ASSUME TypeOK, EndDrain
  PROVE  Out' = Out
<1>1. events \in Seq(Events) /\ delivered \in Seq(Events)
  BY DEF TypeOK
<1>2. Out \in Seq(Events) /\ Out' = Out \o <<>>
  BY <1>1, ConcatProperties DEF EndDrain, Out
<1> QED
  BY <1>2, ConcatEmptySeq

LEMMA InitOInv == Init => OInv
<1> SUFFICES ASSUME Init PROVE OInv
  OBVIOUS
<1>1. TypeOK
  BY InitIInv DEF IInv
<1>2. DOMAIN fifo = {} /\ Held = {} /\ \A s \in Slots : progress[s] = 0 /\ latest[s] = Vacant
  BY DEF Init, Held, Vacant
<1>3. DOMAIN Out = {}
  BY DEF Init, Out
<1>4. pushed = 0
  BY DEF Init
<1> QED
  BY <1>1, <1>2, <1>3, <1>4 DEF OInv, Past, InOrder, HeldWasAccepted, NewestKept
-----------------------------------------------------------------------------
(* A push to the fifo is the newest stamp behind older ones.               *)
LEMMA PushFifoKeeps ==
  ASSUME OInv, PushFifo
  PROVE  (Past /\ InOrder /\ HeldWasAccepted /\ NewestKept)'
<1> DEFINE n == Len(fifo)
<1>0. TypeOK /\ Past /\ InOrder /\ HeldWasAccepted /\ NewestKept
  BY DEF OInv
<1>1. /\ pushed \in Nat /\ pushed' = pushed + 1
      /\ UNCHANGED <<progress, latest, delivered, events>>
  BY <1>0, StampType DEF PushFifo, Stamp
<1>2. Out' = Out /\ Held' = Held
  BY <1>1 DEF Out, Held
<1>3. /\ n \in Nat /\ DOMAIN fifo = 1..n /\ DOMAIN fifo' = 1..(n + 1)
      /\ \A i \in 1..n : fifo'[i] = fifo[i] /\ fifo[i] \in Nat
      /\ fifo'[n + 1] = pushed + 1
  <2>1. pushed' \in Stamps /\ fifo \in Seq(Stamps) /\ fifo' = Append(fifo, pushed')
    BY <1>0, StampType DEF PushFifo, TypeOK
  <2>2. n \in Nat /\ DOMAIN fifo = 1..n /\ \A i \in 1..n : fifo[i] \in Nat
    BY <1>0, FifoType, Numbers
  <2>3. /\ fifo' \in Seq(Stamps) /\ Len(fifo') = n + 1
        /\ \A i \in 1..n : fifo'[i] = fifo[i]
        /\ fifo'[n + 1] = pushed'
    BY <2>1, AppendProperties
  <2>4. DOMAIN fifo' = 1..(n + 1)
    BY <2>3, LenProperties
  <2> QED
    BY <1>1, <2>2, <2>3, <2>4
<1>4. /\ \A i \in DOMAIN Out : Out[i].stamp \in Nat
      /\ \A s \in Slots : progress[s] \in Nat
  BY <1>0, OutType, Numbers
<1>5. Past'
  BY <1>0, <1>1, <1>2, <1>3, <1>4 DEF Past
<1>6. \A i, j \in DOMAIN fifo' : i < j => fifo'[i] < fifo'[j]
  BY <1>0, <1>1, <1>3 DEF Past, InOrder
<1>7. \A i \in DOMAIN Out : Out[i].slot = NoSlot => \A j \in DOMAIN fifo' : Out[i].stamp < fifo'[j]
  BY <1>0, <1>1, <1>3, <1>4 DEF Past, InOrder
<1>8. InOrder'
  BY <1>0, <1>1, <1>2, <1>6, <1>7 DEF InOrder
<1> QED
  BY <1>0, <1>1, <1>2, <1>5, <1>8 DEF HeldWasAccepted, NewestKept

(* Progress that gets into its slot is newer than all there was.           *)
LEMMA ProgressKeeps ==
  ASSUME OInv, NEW s \in Slots, Coalesce(s) \/ PushProgress(s)
  PROVE  (Past /\ InOrder /\ HeldWasAccepted /\ NewestKept)'
<1>0. TypeOK /\ Past /\ InOrder /\ HeldWasAccepted /\ NewestKept
  BY DEF OInv
<1>1. /\ pushed \in Nat /\ pushed' = pushed + 1
      /\ progress' = [progress EXCEPT ![s] = pushed']
      /\ latest' = [latest EXCEPT ![s] = pushed']
      /\ UNCHANGED <<fifo, delivered, events>>
  BY <1>0, StampType DEF Coalesce, PushProgress, Stamp
<1>2. Out' = Out
  BY <1>1 DEF Out
<1>3. /\ progress'[s] = pushed + 1 /\ latest'[s] = pushed + 1
      /\ \A t \in Slots \ {s} : progress'[t] = progress[t] /\ latest'[t] = latest[t]
  BY <1>0, <1>1 DEF TypeOK
<1>4. Held' = Held \cup {s}
  BY <1>1, <1>3 DEF Held, Vacant
<1>5. /\ \A i \in DOMAIN Out : Out[i].stamp \in Nat
      /\ \A i \in DOMAIN fifo : fifo[i] \in Nat
      /\ \A t \in Slots : progress[t] \in Nat
  BY <1>0, OutType, FifoType, Numbers
<1>6. Past'
  BY <1>0, <1>1, <1>2, <1>3, <1>5 DEF Past
<1>7. \A i \in DOMAIN Out : Out[i].slot # NoSlot /\ Out[i].slot \in Held' => Out[i].stamp < progress'[Out[i].slot]
  <2> SUFFICES ASSUME NEW i \in DOMAIN Out, Out[i].slot # NoSlot, Out[i].slot \in Held'
               PROVE  Out[i].stamp < progress'[Out[i].slot]
    OBVIOUS
  <2>1. CASE Out[i].slot = s
    BY <1>0, <1>1, <1>3, <1>5, <2>1 DEF Past
  <2>2. CASE Out[i].slot # s
    BY <1>0, <1>3, <1>4, <2>2 DEF InOrder, Held
  <2> QED
    BY <2>1, <2>2
<1>8. InOrder'
  BY <1>0, <1>1, <1>2, <1>7 DEF InOrder
<1>9. HeldWasAccepted'
  BY <1>0, <1>1, <1>3, <1>4 DEF HeldWasAccepted, Held, Vacant
<1>10. NewestKept'
  BY <1>0, <1>2, <1>3, <1>4 DEF NewestKept
<1> QED
  BY <1>6, <1>8, <1>9, <1>10

(* The head of the fifo is newer than what went out of it before, and      *)
(* older than the rest.                                                    *)
LEMMA TakeFifoKeeps ==
  ASSUME OInv, TakeFifo
  PROVE  (Past /\ InOrder /\ HeldWasAccepted /\ NewestKept)'
<1> DEFINE e == [slot |-> NoSlot, stamp |-> fifo[1]]
           n == Len(fifo)
           m == Len(Out)
<1>0. TypeOK /\ Past /\ InOrder /\ HeldWasAccepted /\ NewestKept
  BY DEF OInv
<1>1. /\ fifo \in Seq(Stamps) /\ fifo # <<>> /\ fifo' = Tail(fifo)
      /\ UNCHANGED <<progress, latest, delivered, pushed>>
  BY <1>0 DEF TakeFifo, TypeOK
<1>2. /\ n \in Nat \ {0} /\ DOMAIN fifo = 1..n /\ DOMAIN fifo' = 1..(n - 1)
      /\ \A i \in DOMAIN fifo' : fifo'[i] = fifo[i + 1]
      /\ \A i \in DOMAIN fifo : fifo[i] \in Nat
      /\ Head(fifo) = fifo[1] /\ fifo[1] \in Stamps
  BY <1>0, <1>1, HeadTailProperties, LenProperties, EmptySeq, FifoType, Numbers
<1>3. e \in Events /\ events' = Append(events, e)
  BY <1>2 DEF TakeFifo, Events
<1>4. /\ m \in Nat /\ DOMAIN Out = 1..m /\ DOMAIN Out' = 1..(m + 1)
      /\ \A i \in 1..m : Out'[i] = Out[i] /\ Out[i].stamp \in Nat
      /\ Out'[m + 1] = e
  BY <1>0, <1>1, <1>3, OutType, OutGrows, Numbers
<1> HIDE DEF n, m
<1>5. Held' = Held /\ e.slot = NoSlot /\ e.stamp = fifo[1]
  BY <1>1 DEF Held
<1> HIDE DEF e
<1>6. Past'
  <2>1. \A i \in DOMAIN fifo' : fifo'[i] <= pushed
    BY <1>0, <1>2 DEF Past
  <2>2. \A i \in DOMAIN Out' : Out'[i].stamp <= pushed
    BY <1>0, <1>2, <1>4, <1>5 DEF Past
  <2> QED
    BY <1>0, <1>1, <2>1, <2>2 DEF Past
<1>7. InOrder'
  <2>1. \A i, j \in DOMAIN fifo' : i < j => fifo'[i] < fifo'[j]
    BY <1>0, <1>2 DEF InOrder
  <2>2. \A i \in DOMAIN Out : Out[i].slot = NoSlot => Out[i].stamp < fifo[1]
    BY <1>0, <1>2 DEF InOrder
  <2>3. \A i, j \in DOMAIN Out' :
          i < j /\ Out'[i].slot = Out'[j].slot => Out'[i].stamp < Out'[j].stamp
    BY <1>0, <1>4, <1>5, <2>2 DEF InOrder
  <2>4. \A i \in DOMAIN Out' : Out'[i].slot = NoSlot => \A j \in DOMAIN fifo' : Out'[i].stamp < fifo'[j]
    <3> SUFFICES ASSUME NEW i \in DOMAIN Out', Out'[i].slot = NoSlot, NEW j \in DOMAIN fifo'
                 PROVE  Out'[i].stamp < fifo[j + 1]
      BY <1>2
    <3>1. j + 1 \in DOMAIN fifo /\ 1 \in DOMAIN fifo /\ 1 < j + 1
      BY <1>2
    <3>2. fifo[1] < fifo[j + 1]
      BY <1>0, <3>1 DEF InOrder
    <3>3. CASE i \in DOMAIN Out
      BY <1>0, <1>4, <3>1, <3>3 DEF InOrder
    <3>4. CASE i = m + 1
      BY <1>4, <1>5, <3>2, <3>4
    <3> QED
      BY <1>4, <3>3, <3>4
  <2>5. \A i \in DOMAIN Out' :
          Out'[i].slot # NoSlot /\ Out'[i].slot \in Held => Out'[i].stamp < progress[Out'[i].slot]
    BY <1>0, <1>4, <1>5 DEF InOrder
  <2> QED
    BY <1>1, <1>5, <2>1, <2>3, <2>4, <2>5 DEF InOrder
<1>8. HeldWasAccepted' /\ NewestKept'
  BY <1>0, <1>1, <1>4, <1>5 DEF HeldWasAccepted, NewestKept
<1> QED
  BY <1>6, <1>7, <1>8

(* What leaves a slot is its newest value.  OrderExact is not needed: a    *)
(* slot that is not held is passed over.                                   *)
LEMMA TakeProgressKeeps ==
  ASSUME OInv, TakeProgress
  PROVE  (Past /\ InOrder /\ HeldWasAccepted /\ NewestKept)'
<1> DEFINE s == Head(progress_order)
           e == [slot |-> s, stamp |-> progress[s]]
           m == Len(Out)
<1>0. TypeOK /\ Past /\ InOrder /\ HeldWasAccepted /\ NewestKept
  BY DEF OInv
<1>1. s \in Slots /\ UNCHANGED <<fifo, latest, delivered, pushed>>
  BY <1>0, HeadTailProperties DEF TakeProgress, TypeOK
<1>2. CASE s \notin Held
  <2>1. UNCHANGED <<progress, events>>
    BY <1>2 DEF TakeProgress
  <2>2. Out' = Out /\ Held' = Held
    BY <1>1, <2>1 DEF Out, Held
  <2> QED
    BY <1>0, <1>1, <2>1, <2>2 DEF Past, InOrder, HeldWasAccepted, NewestKept
<1>3. CASE s \in Held
  <2>1. progress' = [progress EXCEPT ![s] = Vacant] /\ events' = Append(events, e)
    BY <1>3 DEF TakeProgress
  <2>2. e \in Events /\ progress[s] \in Nat /\ s # NoSlot
    BY <1>0, <1>1, <1>3, Numbers, SlotsAssumption DEF Events, Held, TypeOK
  <2>3. /\ m \in Nat /\ DOMAIN Out = 1..m /\ DOMAIN Out' = 1..(m + 1)
        /\ \A i \in 1..m : Out'[i] = Out[i] /\ Out[i].stamp \in Nat
        /\ Out'[m + 1] = e
    BY <1>0, <1>1, <2>1, <2>2, OutType, OutGrows, Numbers
  <2>4. /\ Held' = Held \ {s} /\ progress'[s] = 0
        /\ \A t \in Slots \ {s} : progress'[t] = progress[t]
    BY <1>0, <1>1, <1>3, <2>1, EmptyCounts DEF TypeOK, Vacant
  <2>5. e.slot = s /\ e.stamp = progress[s] /\ progress[s] = latest[s] /\ latest[s] # Vacant
    BY <1>0, <1>1, <1>3 DEF HeldWasAccepted, NewestKept
  <2>6. pushed \in Nat /\ \A t \in Slots : progress[t] \in Nat
    BY <1>0, Numbers
  <2> HIDE DEF s, e, m
  <2>7. Past'
    <3>1. \A i \in DOMAIN Out' : Out'[i].stamp <= pushed
      BY <1>0, <1>1, <2>3, <2>5 DEF Past
    <3>2. \A t \in Slots : progress'[t] <= pushed
      BY <1>0, <1>1, <2>4, <2>6 DEF Past
    <3> QED
      BY <1>0, <1>1, <3>1, <3>2 DEF Past
  <2>8. InOrder'
    <3>1. \A i \in DOMAIN Out : Out[i].slot = s => Out[i].stamp < progress[s]
      BY <1>0, <1>3, <2>2 DEF InOrder
    <3>2. \A i, j \in DOMAIN Out' :
            i < j /\ Out'[i].slot = Out'[j].slot => Out'[i].stamp < Out'[j].stamp
      BY <1>0, <2>3, <2>5, <3>1 DEF InOrder
    <3>3. \A i \in DOMAIN Out' :
            Out'[i].slot = NoSlot => \A j \in DOMAIN fifo : Out'[i].stamp < fifo[j]
      BY <1>0, <2>2, <2>3, <2>5 DEF InOrder
    <3>4. \A i \in DOMAIN Out' :
            Out'[i].slot # NoSlot /\ Out'[i].slot \in Held' => Out'[i].stamp < progress'[Out'[i].slot]
      BY <1>0, <2>3, <2>4, <2>5 DEF InOrder, Held
    <3>5. \A i, j \in DOMAIN fifo' : i < j => fifo'[i] < fifo'[j]
      BY <1>0, <1>1 DEF InOrder
    <3> QED
      BY <1>1, <3>2, <3>3, <3>4, <3>5 DEF InOrder
  <2>9. HeldWasAccepted'
    BY <1>0, <1>1, <2>4 DEF HeldWasAccepted
  <2>10. NewestKept'
    <3> SUFFICES ASSUME NEW t \in Slots, latest[t] # Vacant
                 PROVE  \/ progress'[t] = latest[t]
                        \/ /\ t \notin Held'
                           /\ \E i \in DOMAIN Out' : Out'[i] = [slot |-> t, stamp |-> latest[t]]
      BY <1>1 DEF NewestKept
    <3>1. CASE t = s
      <4>1. Out'[m + 1] = [slot |-> t, stamp |-> latest[t]] /\ m + 1 \in DOMAIN Out'
        BY <2>3, <2>5, <3>1 DEF e
      <4> QED
        BY <2>4, <3>1, <4>1
    <3>2. CASE t # s
      BY <1>0, <2>3, <2>4, <3>2 DEF NewestKept
    <3> QED
      BY <3>1, <3>2
  <2> QED
    BY <2>7, <2>8, <2>9, <2>10
<1> QED
  BY <1>2, <1>3

LEMMA NextOInv == OInv /\ [Next]_vars => OInv'
<1> SUFFICES ASSUME OInv, [Next]_vars PROVE (Past /\ InOrder /\ HeldWasAccepted /\ NewestKept)'
  BY NextType DEF OInv
<1>0. TypeOK /\ Past /\ InOrder /\ HeldWasAccepted /\ NewestKept
  BY DEF OInv
<1>1. ASSUME pushed' \in {pushed, pushed + 1}, Out' = Out, UNCHANGED <<fifo, progress, latest>>
      PROVE  (Past /\ InOrder /\ HeldWasAccepted /\ NewestKept)'
  <2>1. Held' = Held
    BY <1>1 DEF Held
  <2>2. /\ \A i \in DOMAIN Out : Out[i].stamp \in Nat
        /\ \A i \in DOMAIN fifo : fifo[i] \in Nat
        /\ \A t \in Slots : progress[t] \in Nat
        /\ pushed \in Nat
    BY <1>0, OutType, FifoType, Numbers
  <2>3. Past'
    BY <1>0, <1>1, <2>2 DEF Past
  <2> QED
    BY <1>0, <1>1, <2>1, <2>3 DEF InOrder, HeldWasAccepted, NewestKept
<1>2. ASSUME NEW s \in Slots \cup {NoSlot}, Overflow(s) PROVE pushed' = pushed + 1 /\ Out' = Out
  BY <1>2 DEF Overflow, Stamp, Out
<1>3. ASSUME NEW s \in Slots \cup {NoSlot}, Overflow(s)
      PROVE  (Past /\ InOrder /\ HeldWasAccepted /\ NewestKept)'
  BY <1>1, <1>2, <1>3 DEF Overflow
<1>4. ASSUME NEW budget \in 0..MaxPushes, BeginDrain(budget)
      PROVE  (Past /\ InOrder /\ HeldWasAccepted /\ NewestKept)'
  BY <1>1, <1>4 DEF BeginDrain, Out
<1>5. CASE EndDrain
  BY <1>0, <1>1, <1>5, OutStays DEF EndDrain
<1>6. CASE UNCHANGED vars
  BY <1>1, <1>6 DEF vars, Out
<1> QED
  BY <1>3, <1>4, <1>5, <1>6, PushFifoKeeps, ProgressKeeps, TakeFifoKeeps, TakeProgressKeeps
  DEF Next

LEMMA OrderInvariance == Spec => []OInv
  BY InitOInv, NextOInv, PTL DEF Spec

(* Events that are not progress leave in the order of their pushes, and    *)
(* the values of a slot never go back in time.                             *)
THEOREM EventsAreInOrder == Spec => []InOrder
<1>1. OInv => InOrder
  BY DEF OInv
<1> QED
  BY <1>1, OrderInvariance, PTL

(* The newest accepted progress of a slot is held or was delivered.        *)
THEOREM NewestIsKept == Spec => []NewestKept
<1>1. OInv => NewestKept
  BY DEF OInv
<1> QED
  BY <1>1, OrderInvariance, PTL
=============================================================================
