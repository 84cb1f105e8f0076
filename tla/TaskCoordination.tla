---------------------------- MODULE TaskCoordination ----------------------------
(***************************************************************************)
(* src/src/coordination.rs: TaskCoordination, who observes which task key. *)
(* Its owner calls observe and unobserve (&mut self); the policy comes     *)
(* with the call of unobserve, not with the key.                           *)
(***************************************************************************)
EXTENDS Naturals, FiniteSets

CONSTANTS
  Keys,        \* TaskKey values
  Observers,   \* ObserverId values
  MaxEpisodes  \* bound on the periods of observation of one key

ASSUME ObserversAssumption == IsFiniteSet(Observers)
ASSUME MaxEpisodesAssumption == MaxEpisodes \in Nat

VARIABLES
  observers,  \* the map: a function whose DOMAIN is the keys with an entry
  change,     \* the last ObservationChange answered, with the key it is about
  opened,     \* history: key -> observations that began with nobody watching
  ended       \* history: key -> policy answers given about it

vars == <<observers, change, opened, ended>>

(* The policies a TaskPolicy can carry: its constructors set no other.     *)
UnobservedPolicies == {"Continue", "Cancel"}

(* What unobserve answers when the last observer leaves.                   *)
PolicyAnswer(policy) ==
  CASE policy = "Cancel" -> "CancelRequested"
    [] policy = "LowerPriority" -> "PriorityLowered"
    [] policy = "Pause" -> "Paused"
    [] policy = "Continue" -> "ContinuedUnobserved"

(* ObservationChange, without ObserverDetached, which no call answers.     *)
ObservationChange ==
  {"ObserverNotAttached", "StillObserved", "CancelRequested", "PriorityLowered",
   "Paused", "ContinuedUnobserved"}

TypeOK ==
  /\ DOMAIN observers \subseteq Keys
  /\ \A k \in DOMAIN observers : observers[k] \subseteq Observers
  /\ change \in [answer : ObservationChange \cup {"None"}, remaining : Nat]
  /\ opened \in [Keys -> Nat]
  /\ ended \in [Keys -> Nat]

(* The entry of a key, empty if there is none: entry(key).or_default().    *)
Watching(k) == IF k \in DOMAIN observers THEN observers[k] ELSE {}

observer_count(k) == Cardinality(Watching(k))

is_observed(k) == observer_count(k) > 0

NoChange == [answer |-> "None", remaining |-> 0]

(* TaskCoordination::default *)
Init ==
  /\ observers = << >>
  /\ change = NoChange
  /\ opened = [k \in Keys |-> 0]
  /\ ended = [k \in Keys |-> 0]

With(k, watching) ==
  [x \in DOMAIN observers \cup {k} |-> IF x = k THEN watching ELSE observers[x]]

Without(k) == [x \in DOMAIN observers \ {k} |-> observers[x]]

(* observe: attaching twice is attaching once.                             *)
Observe(k, o) ==
  /\ is_observed(k) \/ opened[k] < MaxEpisodes
  /\ observers' = With(k, Watching(k) \cup {o})
  /\ opened' = [opened EXCEPT ![k] = IF is_observed(k) THEN @ ELSE @ + 1]
  /\ UNCHANGED <<change, ended>>

(* unobserve of a key without entry, or by somebody who is not attached.   *)
UnobserveNotAttached(k, o) ==
  /\ o \notin Watching(k)
  /\ change' = [answer |-> "ObserverNotAttached", remaining |-> 0]
  /\ UNCHANGED <<observers, opened, ended>>

(* unobserve while others remain: the policy is not looked at.             *)
UnobserveRemaining(k, o) ==
  /\ o \in Watching(k)
  /\ Watching(k) \ {o} # {}
  /\ observers' = With(k, Watching(k) \ {o})
  /\ change' = [answer |-> "StillObserved", remaining |-> Cardinality(Watching(k) \ {o})]
  /\ UNCHANGED <<opened, ended>>

(* Mutants: the emptied entry kept, the policy asked before the set.       *)
UnobserveLastKeepsEntry(k, o, policy) ==
  /\ Watching(k) = {o}
  /\ observers' = With(k, {})
  /\ change' = [answer |-> PolicyAnswer(policy), remaining |-> 0]
  /\ ended' = [ended EXCEPT ![k] = @ + 1]
  /\ UNCHANGED opened

UnobserveAnyAnswers(k, o, policy) ==
  /\ o \in Watching(k)
  /\ observers' = IF Watching(k) = {o} THEN Without(k) ELSE With(k, Watching(k) \ {o})
  /\ change' = [answer |-> PolicyAnswer(policy), remaining |-> 0]
  /\ ended' = [ended EXCEPT ![k] = @ + 1]
  /\ UNCHANGED opened

(* unobserve by the last: the entry goes, and the policy of this call      *)
(* answers.                                                                *)
UnobserveLast(k, o, policy) ==
  /\ Watching(k) = {o}
  /\ observers' = Without(k)
  /\ change' = [answer |-> PolicyAnswer(policy), remaining |-> 0]
  /\ ended' = [ended EXCEPT ![k] = @ + 1]
  /\ UNCHANGED opened

Next ==
  \E k \in Keys, o \in Observers :
    \/ Observe(k, o)
    \/ UnobserveNotAttached(k, o)
    \/ UnobserveRemaining(k, o)
    \/ \E policy \in UnobservedPolicies : UnobserveLast(k, o, policy)

Spec == Init /\ [][Next]_vars
-----------------------------------------------------------------------------
(* No key is kept without observers, whatever the order of attaching and   *)
(* detaching: the map does not grow with keys of the past, and a key with  *)
(* an entry is observed (coordination.rs:153-161, 179).                    *)
NoEmptyEntry == \A k \in DOMAIN observers : is_observed(k)

(* Each period of observation of a key, from nobody watching to nobody     *)
(* watching again, ends with exactly one policy answer: detaching twice,   *)
(* detaching somebody never attached and attaching again neither skip an   *)
(* answer nor give a second one (142-168).                                 *)
EpisodesBalance ==
  \A k \in Keys : opened[k] = ended[k] + (IF is_observed(k) THEN 1 ELSE 0)

(* Test observation_policy_does_not_cancel_until_last_observer_detaches,   *)
(* for any interleaving of observers and keys: the map of sets with its    *)
(* eager removal answers as the plain relation of attachments does.        *)
Relation ==
  INSTANCE Attachments WITH
    attached <- {p \in Keys \X Observers : p[2] \in Watching(p[1])},
    told <- change

(* Only the last observer to leave gets a policy answer, everybody else    *)
(* gets the number of those who remain (142-168).                          *)
ImplementsAttachments == Relation!Spec
=============================================================================
