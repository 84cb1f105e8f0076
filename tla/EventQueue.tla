------------------------------- MODULE EventQueue -------------------------------
(***************************************************************************)
(* src/src/queue.rs: TaskEventQueue, the bounded queue between task events *)
(* and their consumer.  Its owner pushes and drains (&mut self: a drain is *)
(* not interleaved with pushes).  A progress event goes to the slot of its *)
(* task, attempt and key and replaces what the slot holds; every other     *)
(* event goes to the fifo.  An event is known by its stamp, the number of  *)
(* the push that brought it.                                               *)
(***************************************************************************)
EXTENDS Naturals, Sequences, FiniteSets

CONSTANTS
  Slots,      \* ProgressSlots: (task id, attempt id, coalescing key)
  NoSlot,     \* the slot of an event that is not progress
  Capacity,   \* QueuePolicy.capacity
  MaxPushes   \* bound on the pushes of a behaviour; also stands for the
              \* unlimited budget, which no queue can exceed

ASSUME SlotsAssumption == IsFiniteSet(Slots) /\ NoSlot \notin Slots
ASSUME BoundsAssumption == Capacity \in Nat /\ MaxPushes \in Nat

VARIABLES
  fifo,             \* stamps of the queued non-progress events
  progress,         \* slot -> stamp of the event it holds, Vacant if none
  progress_order,   \* slots in the order they were filled
  dropped_events,
  coalesced_events,
  draining,         \* drain is running
  remaining,        \* what is left of its budget
  events,           \* what it has taken so far
  delivered,        \* history: what earlier drains returned
  pushed,           \* history: number of pushes
  latest            \* history: slot -> stamp of the newest accepted progress

vars == <<fifo, progress, progress_order, dropped_events, coalesced_events,
          draining, remaining, events, delivered, pushed, latest>>

Vacant == 0

Stamps == 1..MaxPushes

Events == [slot : Slots \cup {NoSlot}, stamp : Stamps]

TypeOK ==
  /\ fifo \in Seq(Stamps)
  /\ progress \in [Slots -> Stamps \cup {Vacant}]
  /\ progress_order \in Seq(Slots)
  /\ dropped_events \in Nat
  /\ coalesced_events \in Nat
  /\ draining \in BOOLEAN
  /\ remaining \in Nat
  /\ events \in Seq(Events)
  /\ delivered \in Seq(Events)
  /\ pushed \in 0..MaxPushes
  /\ latest \in [Slots -> Stamps \cup {Vacant}]

(* The keys of the progress map. *)
Held == {s \in Slots : progress[s] # Vacant}

PendingEvents == Len(fifo) + Cardinality(Held)

Init ==
  /\ fifo = <<>>
  /\ progress = [s \in Slots |-> Vacant]
  /\ progress_order = <<>>
  /\ dropped_events = 0
  /\ coalesced_events = 0
  /\ draining = FALSE
  /\ remaining = 0
  /\ events = <<>>
  /\ delivered = <<>>
  /\ pushed = 0
  /\ latest = [s \in Slots |-> Vacant]

(* Mutants: no capacity check, a budget off by one. *)
AlwaysRoom == TRUE

BeginDrainShort(budget) ==
  /\ ~draining
  /\ draining' = TRUE
  /\ remaining' = budget - 1
  /\ UNCHANGED <<fifo, progress, progress_order, dropped_events, coalesced_events,
                 events, delivered, pushed, latest>>

(* The capacity check of push and push_progress. *)
HasRoom == PendingEvents < Capacity
-----------------------------------------------------------------------------
(* Any push: the owner is not draining, and the event gets a stamp.        *)
Stamp ==
  /\ ~draining /\ pushed < MaxPushes
  /\ pushed' = pushed + 1
  /\ UNCHANGED <<draining, remaining, events, delivered>>

(* Mutants: an event queued at the wrong end, a replaced slot queued again *)
(* or not replaced, a filled slot not queued, a drop not counted.          *)
PushFront ==
  /\ Stamp /\ HasRoom
  /\ fifo' = <<pushed'>> \o fifo
  /\ UNCHANGED <<progress, progress_order, dropped_events, coalesced_events, latest>>

CoalesceKeepsOld(s) ==
  /\ Stamp /\ s \in Held
  /\ latest' = [latest EXCEPT ![s] = pushed']
  /\ coalesced_events' = coalesced_events + 1
  /\ UNCHANGED <<fifo, progress, progress_order, dropped_events>>

PushUnlisted(s) ==
  /\ Stamp /\ s \notin Held /\ HasRoom
  /\ progress' = [progress EXCEPT ![s] = pushed']
  /\ latest' = [latest EXCEPT ![s] = pushed']
  /\ UNCHANGED <<fifo, progress_order, dropped_events, coalesced_events>>

OverflowUncounted(s) ==
  /\ Stamp /\ s \notin Held /\ ~HasRoom
  /\ UNCHANGED <<fifo, progress, progress_order, dropped_events, coalesced_events, latest>>

(* push of an event that is not progress *)
PushFifo ==
  /\ Stamp
  /\ HasRoom
  /\ fifo' = Append(fifo, pushed')
  /\ UNCHANGED <<progress, progress_order, dropped_events, coalesced_events, latest>>

(* push_progress on an occupied slot: replaced in place, whatever the      *)
(* capacity.                                                               *)
Coalesce(s) ==
  /\ Stamp
  /\ s \in Held
  /\ progress' = [progress EXCEPT ![s] = pushed']
  /\ latest' = [latest EXCEPT ![s] = pushed']
  /\ coalesced_events' = coalesced_events + 1
  /\ UNCHANGED <<fifo, progress_order, dropped_events>>

(* push_progress on a vacant slot *)
PushProgress(s) ==
  /\ Stamp
  /\ s \notin Held
  /\ HasRoom
  /\ progress' = [progress EXCEPT ![s] = pushed']
  /\ latest' = [latest EXCEPT ![s] = pushed']
  /\ progress_order' = Append(progress_order, s)
  /\ UNCHANGED <<fifo, dropped_events, coalesced_events>>

(* push at capacity of an event no occupied slot takes: Overflow.          *)
Overflow(s) ==
  /\ Stamp
  /\ s \notin Held
  /\ ~HasRoom
  /\ dropped_events' = dropped_events + 1
  /\ UNCHANGED <<fifo, progress, progress_order, coalesced_events, latest>>

-----------------------------------------------------------------------------
(* drain(budget) *)
BeginDrain(budget) ==
  /\ ~draining
  /\ draining' = TRUE
  /\ remaining' = budget
  /\ UNCHANGED <<fifo, progress, progress_order, dropped_events, coalesced_events,
                 events, delivered, pushed, latest>>

(* drain's first loop *)
TakeFifo ==
  /\ draining /\ remaining > 0 /\ fifo # <<>>
  /\ fifo' = Tail(fifo)
  /\ events' = Append(events, [slot |-> NoSlot, stamp |-> Head(fifo)])
  /\ remaining' = remaining - 1
  /\ UNCHANGED <<progress, progress_order, dropped_events, coalesced_events,
                 draining, delivered, pushed, latest>>

(* drain's second loop, once the fifo is empty: a slot with nothing in it  *)
(* costs no budget.                                                        *)
TakeProgress ==
  /\ draining /\ remaining > 0 /\ fifo = <<>> /\ progress_order # <<>>
  /\ progress_order' = Tail(progress_order)
  /\ LET s == Head(progress_order) IN
       IF s \in Held
       THEN /\ progress' = [progress EXCEPT ![s] = Vacant]
            /\ events' = Append(events, [slot |-> s, stamp |-> progress[s]])
            /\ remaining' = remaining - 1
       ELSE UNCHANGED <<progress, events, remaining>>
  /\ UNCHANGED <<fifo, dropped_events, coalesced_events, draining, delivered, pushed, latest>>

(* drain returns: the budget is spent or the queue is empty.               *)
EndDrain ==
  /\ draining
  /\ remaining = 0 \/ (fifo = <<>> /\ progress_order = <<>>)
  /\ draining' = FALSE
  /\ remaining' = 0
  /\ events' = <<>>
  /\ delivered' = delivered \o events
  /\ UNCHANGED <<fifo, progress, progress_order, dropped_events, coalesced_events, pushed, latest>>

Next ==
  \/ PushFifo
  \/ \E s \in Slots : Coalesce(s) \/ PushProgress(s)
  \/ \E s \in Slots \cup {NoSlot} : Overflow(s)
  \/ \E budget \in 0..MaxPushes : BeginDrain(budget)
  \/ TakeFifo \/ TakeProgress \/ EndDrain

(* A drain is one call and runs to its end; the consumer drains again and  *)
(* again, and sometimes with a budget that takes all there is.             *)
Fairness ==
  /\ WF_vars(TakeFifo \/ TakeProgress \/ EndDrain)
  /\ SF_vars(BeginDrain(MaxPushes))

Spec == Init /\ [][Next]_vars /\ Fairness
-----------------------------------------------------------------------------
(* Everything that left or will leave the queue, in that order, as far as  *)
(* it is decided: pending progress follows the fifo, and may be replaced.  *)
Out == delivered \o events

(* The bound of QueuePolicy holds although coalescing skips the capacity   *)
(* check (queue.rs:126-134) and slots are counted by the map and queued in *)
(* progress_order.                                                         *)
Bounded == PendingEvents <= Capacity

(* progress_order lists the occupied slots, each once: the two structures  *)
(* of the progress half never drift apart, so the "continue" of drain      *)
(* (103-105) is never taken and no event is unreachable in the map.        *)
OrderExact ==
  /\ \A i \in DOMAIN progress_order : progress_order[i] \in Held
  /\ \A i, j \in DOMAIN progress_order : progress_order[i] = progress_order[j] => i = j
  /\ \A s \in Held : \E i \in DOMAIN progress_order : progress_order[i] = s

(* Reports account for every event: what was pushed was dropped, coalesced *)
(* away, is pending, or was delivered ("QueueReport and DrainReport expose *)
(* pending, dropped, and coalesced event counts", README).                 *)
Accounted ==
  pushed = dropped_events + coalesced_events + PendingEvents + Len(Out)

(* Non-progress events keep their order through any number of partial      *)
(* drains, and the values of one slot never go back in time: neither in    *)
(* what was delivered nor in what is still held (84-112).                  *)
InOrder ==
  /\ \A i, j \in DOMAIN Out :
       i < j /\ Out[i].slot = Out[j].slot => Out[i].stamp < Out[j].stamp
  /\ \A i, j \in DOMAIN fifo : i < j => fifo[i] < fifo[j]
  /\ \A i \in DOMAIN Out :
       LET e == Out[i] IN
         IF e.slot = NoSlot THEN \A j \in DOMAIN fifo : e.stamp < fifo[j]
                            ELSE e.slot \in Held => e.stamp < progress[e.slot]

(* Coalescing never loses the newest accepted value of a slot: it is held, *)
(* or it was delivered (126-146 against 99-109).                           *)
NewestKept ==
  \A s \in Slots : latest[s] # Vacant =>
    \/ progress[s] = latest[s]
    \/ s \notin Held /\ \E i \in DOMAIN Out : Out[i] = [slot |-> s, stamp |-> latest[s]]

(* Whatever is queued is eventually delivered, or replaced by a newer      *)
(* value of its slot that is, as long as full drains keep coming, although *)
(* every drain serves the fifo first (88-112).                             *)
QueuedLeaves ==
  /\ \A n \in Stamps :
       (\E i \in DOMAIN fifo : fifo[i] = n) ~> (\E i \in DOMAIN delivered : delivered[i].stamp = n)
  /\ \A s \in Slots, n \in Stamps :
       progress[s] = n ~> (\E i \in DOMAIN delivered : delivered[i].slot = s /\ delivered[i].stamp >= n)
=============================================================================
