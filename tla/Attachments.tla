------------------------------ MODULE Attachments ------------------------------
(***************************************************************************)
(* What observing a task key means, whatever the representation: observers *)
(* are attached to keys, and detaching tells the caller how many remain,   *)
(* or, to the last one and to nobody else, what the policy wants done.     *)
(***************************************************************************)
EXTENDS Naturals, FiniteSets

CONSTANTS Keys, Observers

VARIABLES
  attached,  \* the pairs of a key and an observer attached to it
  told       \* the last answer given to a detaching observer

vars == <<attached, told>>

PolicyAnswers == {"CancelRequested", "PriorityLowered", "Paused", "ContinuedUnobserved"}

Tell(answer, remaining) == [answer |-> answer, remaining |-> remaining]

Init ==
  /\ attached = {}
  /\ told = Tell("None", 0)

(* The observers of k other than o. *)
Others(k, o) == {q \in Observers \ {o} : <<k, q>> \in attached}

Attach(k, o) ==
  /\ attached' = attached \cup {<<k, o>>}
  /\ UNCHANGED told

Miss(k, o) ==
  /\ <<k, o>> \notin attached
  /\ told' = Tell("ObserverNotAttached", 0)
  /\ UNCHANGED attached

Leave(k, o) ==
  /\ <<k, o>> \in attached
  /\ Others(k, o) # {}
  /\ attached' = attached \ {<<k, o>>}
  /\ told' = Tell("StillObserved", Cardinality(Others(k, o)))

LeaveLast(k, o) ==
  /\ <<k, o>> \in attached
  /\ Others(k, o) = {}
  /\ attached' = attached \ {<<k, o>>}
  /\ \E answer \in PolicyAnswers : told' = Tell(answer, 0)

Next ==
  \E k \in Keys, o \in Observers :
    Attach(k, o) \/ Miss(k, o) \/ Leave(k, o) \/ LeaveLast(k, o)

Spec == Init /\ [][Next]_vars
=============================================================================
