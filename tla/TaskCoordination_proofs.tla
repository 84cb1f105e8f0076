------------------------- MODULE TaskCoordination_proofs -------------------------
(***************************************************************************)
(* Theorems about TaskCoordination, for any keys and observers.            *)
(***************************************************************************)
EXTENDS TaskCoordination, FiniteSetTheorems, TLAPS

(* A count is positive exactly when somebody watches. *)
LEMMA ObservedIffWatched ==
  ASSUME TypeOK, NEW k \in Keys
  PROVE  /\ Watching(k) \subseteq Observers
         /\ observer_count(k) \in Nat
         /\ is_observed(k) <=> Watching(k) # {}
<1>1. Watching(k) \subseteq Observers
  BY DEF TypeOK, Watching
<1>2. IsFiniteSet(Watching(k))
  BY <1>1, ObserversAssumption, FS_Subset
<1>3. Cardinality(Watching(k)) \in Nat /\ (Cardinality(Watching(k)) = 0 <=> Watching(k) = {})
  BY <1>2, FS_CardinalityType, FS_EmptySet
<1> QED BY <1>1, <1>3 DEF observer_count, is_observed

(* The next map has the entry it was given, and the others as they were. *)
LEMMA WatchingNext ==
  ASSUME NEW k \in Keys, NEW x \in Keys, NEW watching \in SUBSET Observers
  PROVE  /\ observers' = With(k, watching) =>
              Watching(x)' = IF x = k THEN watching ELSE Watching(x)
         /\ observers' = Without(k) =>
              Watching(x)' = IF x = k THEN {} ELSE Watching(x)
BY DEF With, Without, Watching

(* The state keeps its types: only sets of observers are stored, for keys  *)
(* (coordination.rs:132-169).                                              *)
THEOREM TypeCorrect == Spec => []TypeOK
<1>1. Init => TypeOK
  BY DEF Init, TypeOK, NoChange
<1>2. TypeOK /\ [Next]_vars => TypeOK'
  <2> SUFFICES ASSUME TypeOK, [Next]_vars PROVE TypeOK'
    OBVIOUS
  <2>1. CASE UNCHANGED vars
    BY <2>1 DEF TypeOK, vars
  <2>2. ASSUME NEW k \in Keys, NEW o \in Observers, Observe(k, o) PROVE TypeOK'
    <3>1. Watching(k) \cup {o} \subseteq Observers
      BY ObservedIffWatched
    <3>2. DOMAIN observers' \subseteq Keys /\ \A x \in DOMAIN observers' : observers'[x] \subseteq Observers
      BY <2>2, <3>1 DEF Observe, With, TypeOK
    <3>3. opened' \in [Keys -> Nat]
      BY <2>2 DEF Observe, TypeOK
    <3> QED BY <2>2, <3>2, <3>3 DEF Observe, TypeOK
  <2>3. ASSUME NEW k \in Keys, NEW o \in Observers, UnobserveNotAttached(k, o) PROVE TypeOK'
    BY <2>3 DEF UnobserveNotAttached, TypeOK, ObservationChange
  <2>4. ASSUME NEW k \in Keys, NEW o \in Observers, UnobserveRemaining(k, o) PROVE TypeOK'
    <3>1. Watching(k) \ {o} \subseteq Observers
      BY ObservedIffWatched
    <3>2. Cardinality(Watching(k) \ {o}) \in Nat
      BY <3>1, ObserversAssumption, FS_Subset, FS_CardinalityType
    <3>3. DOMAIN observers' \subseteq Keys /\ \A x \in DOMAIN observers' : observers'[x] \subseteq Observers
      BY <2>4, <3>1 DEF UnobserveRemaining, With, TypeOK
    <3> QED BY <2>4, <3>2, <3>3 DEF UnobserveRemaining, TypeOK, ObservationChange
  <2>5. ASSUME NEW k \in Keys, NEW o \in Observers, NEW p \in UnobservedPolicies,
               UnobserveLast(k, o, p)
        PROVE  TypeOK'
    <3>1. DOMAIN observers' \subseteq Keys /\ \A x \in DOMAIN observers' : observers'[x] \subseteq Observers
      BY <2>5 DEF UnobserveLast, Without, TypeOK
    <3>2. PolicyAnswer(p) \in ObservationChange
      BY DEF UnobservedPolicies, PolicyAnswer, ObservationChange
    <3> QED BY <2>5, <3>1, <3>2 DEF UnobserveLast, TypeOK
  <2> QED BY <2>1, <2>2, <2>3, <2>4, <2>5 DEF Next
<1> QED BY <1>1, <1>2, PTL DEF Spec

(* The inductive invariant: an entry without observers would make the next *)
(* observe look like the middle of a period.                               *)
IInv == TypeOK /\ NoEmptyEntry /\ EpisodesBalance

LEMMA InitIInv == Init => IInv
<1> SUFFICES ASSUME Init PROVE NoEmptyEntry /\ EpisodesBalance /\ TypeOK
  BY DEF IInv
<1>1. TypeOK
  BY DEF Init, TypeOK, NoChange
<1>2. NoEmptyEntry
  BY DEF Init, NoEmptyEntry
<1>3. ASSUME NEW k \in Keys PROVE ~is_observed(k)
  BY <1>1, ObservedIffWatched DEF Init, Watching
<1>4. EpisodesBalance
  BY <1>3 DEF Init, EpisodesBalance
<1> QED BY <1>1, <1>2, <1>4

(* Entries are there exactly for the keys with observers. *)
LEMMA EntryIffObserved ==
  ASSUME TypeOK
  PROVE  NoEmptyEntry <=> \A k \in DOMAIN observers : Watching(k) # {}
BY ObservedIffWatched DEF TypeOK, NoEmptyEntry

LEMMA StepIInv ==
  ASSUME IInv, TypeOK', [Next]_vars
  PROVE  IInv'
<1> USE DEF IInv
<1>a. ASSUME NEW k \in Keys PROVE is_observed(k) <=> Watching(k) # {}
  BY ObservedIffWatched
<1>b. ASSUME NEW k \in Keys PROVE is_observed(k)' <=> Watching(k)' # {}
  <2>1. Watching(k)' \subseteq Observers
    BY DEF TypeOK, Watching
  <2>2. Cardinality(Watching(k)') \in Nat /\ (Cardinality(Watching(k)') = 0 <=> Watching(k)' = {})
    BY <2>1, ObserversAssumption, FS_Subset, FS_CardinalityType, FS_EmptySet
  <2> QED BY <2>2 DEF observer_count, is_observed
<1>c. ASSUME \A k \in DOMAIN observers' : Watching(k)' # {} PROVE NoEmptyEntry'
  BY <1>b, <1>c DEF TypeOK, NoEmptyEntry
<1>d. \A k \in DOMAIN observers : Watching(k) # {}
  BY EntryIffObserved
<1>1. CASE UNCHANGED vars
  BY <1>1 DEF vars, NoEmptyEntry, EpisodesBalance, is_observed, observer_count, Watching
<1>2. ASSUME NEW k \in Keys, NEW o \in Observers, Observe(k, o) PROVE IInv'
  <2>1. ASSUME NEW x \in Keys
        PROVE  Watching(x)' = IF x = k THEN Watching(k) \cup {o} ELSE Watching(x)
    <3>1. Watching(k) \cup {o} \subseteq Observers
      BY ObservedIffWatched
    <3> QED BY <1>2, <3>1, WatchingNext DEF Observe
  <2>2. DOMAIN observers' = DOMAIN observers \cup {k}
    BY <1>2 DEF Observe, With
  <2>3. NoEmptyEntry'
    BY <2>1, <2>2, <1>c, <1>d DEF TypeOK
  <2>4. EpisodesBalance'
    <3> SUFFICES ASSUME NEW x \in Keys
                 PROVE  opened'[x] = ended'[x] + (IF is_observed(x)' THEN 1 ELSE 0)
      BY DEF EpisodesBalance
    <3>1. opened[x] = ended[x] + (IF is_observed(x) THEN 1 ELSE 0) /\ opened[x] \in Nat /\ ended[x] \in Nat
      BY DEF EpisodesBalance, TypeOK
    <3>2. CASE x = k
      <4>1. is_observed(k)'
        BY <2>1, <1>b
      <4>2. opened'[k] = IF is_observed(k) THEN opened[k] ELSE opened[k] + 1
        BY <1>2 DEF Observe, TypeOK
      <4> QED BY <1>2, <3>1, <3>2, <4>1, <4>2 DEF Observe
    <3>3. CASE x # k
      <4>1. is_observed(x)' <=> is_observed(x)
        BY <3>3, <2>1, <1>a, <1>b
      <4>2. opened'[x] = opened[x] /\ ended' = ended
        BY <1>2, <3>3 DEF Observe, TypeOK
      <4> QED BY <3>1, <4>1, <4>2
    <3> QED BY <3>2, <3>3
  <2> QED BY <2>3, <2>4
<1>3. ASSUME NEW k \in Keys, NEW o \in Observers, UnobserveNotAttached(k, o) PROVE IInv'
  BY <1>3 DEF UnobserveNotAttached, NoEmptyEntry, EpisodesBalance, is_observed, observer_count, Watching
<1>4. ASSUME NEW k \in Keys, NEW o \in Observers, UnobserveRemaining(k, o) PROVE IInv'
  <2>1. ASSUME NEW x \in Keys
        PROVE  Watching(x)' = IF x = k THEN Watching(k) \ {o} ELSE Watching(x)
    <3>1. Watching(k) \ {o} \subseteq Observers
      BY ObservedIffWatched
    <3> QED BY <1>4, <3>1, WatchingNext DEF UnobserveRemaining
  <2>2. DOMAIN observers' = DOMAIN observers \cup {k}
    BY <1>4 DEF UnobserveRemaining, With
  <2>3. Watching(k)' # {} /\ Watching(k) # {}
    BY <1>4, <2>1 DEF UnobserveRemaining
  <2>4. NoEmptyEntry'
    BY <2>1, <2>2, <2>3, <1>c, <1>d DEF TypeOK
  <2>5. ASSUME NEW x \in Keys PROVE is_observed(x)' <=> is_observed(x)
    BY <2>1, <2>3, <1>a, <1>b
  <2>6. EpisodesBalance'
    BY <1>4, <2>5 DEF UnobserveRemaining, EpisodesBalance
  <2> QED BY <2>4, <2>6
<1>5. ASSUME NEW k \in Keys, NEW o \in Observers, NEW p \in UnobservedPolicies,
             UnobserveLast(k, o, p)
      PROVE  IInv'
  <2>1. ASSUME NEW x \in Keys
        PROVE  Watching(x)' = IF x = k THEN {} ELSE Watching(x)
    BY <1>5, WatchingNext DEF UnobserveLast
  <2>2. DOMAIN observers' = DOMAIN observers \ {k}
    BY <1>5 DEF UnobserveLast, Without
  <2>3. NoEmptyEntry'
    BY <2>1, <2>2, <1>c, <1>d DEF TypeOK
  <2>4. EpisodesBalance'
    <3> SUFFICES ASSUME NEW x \in Keys
                 PROVE  opened'[x] = ended'[x] + (IF is_observed(x)' THEN 1 ELSE 0)
      BY DEF EpisodesBalance
    <3>1. opened[x] = ended[x] + (IF is_observed(x) THEN 1 ELSE 0) /\ opened[x] \in Nat /\ ended[x] \in Nat
      BY DEF EpisodesBalance, TypeOK
    <3>2. CASE x = k
      <4>1. is_observed(k) /\ ~is_observed(k)'
        BY <1>5, <2>1, <1>a, <1>b DEF UnobserveLast
      <4>2. ended'[k] = ended[k] + 1 /\ opened' = opened
        BY <1>5 DEF UnobserveLast, TypeOK
      <4> QED BY <3>1, <3>2, <4>1, <4>2
    <3>3. CASE x # k
      <4>1. is_observed(x)' <=> is_observed(x)
        BY <3>3, <2>1, <1>a, <1>b
      <4>2. ended'[x] = ended[x] /\ opened' = opened
        BY <1>5, <3>3 DEF UnobserveLast, TypeOK
      <4> QED BY <3>1, <4>1, <4>2
    <3> QED BY <3>2, <3>3
  <2> QED BY <2>3, <2>4
<1> QED BY <1>1, <1>2, <1>3, <1>4, <1>5 DEF Next

LEMMA Invariance == Spec => []IInv
<1>1. IInv /\ TypeOK' /\ [Next]_vars => IInv'
  BY StepIInv
<1> QED BY InitIInv, <1>1, TypeCorrect, PTL DEF Spec

(* The map holds no key of the past, in any order of calls.                *)
THEOREM NoEntryIsEmpty == Spec => []NoEmptyEntry
<1>1. IInv => NoEmptyEntry
  BY DEF IInv
<1> QED BY Invariance, <1>1, PTL

(* Every period of observation ends with exactly one policy answer.        *)
THEOREM EpisodesAreBalanced == Spec => []EpisodesBalance
<1>1. IInv => EpisodesBalance
  BY DEF IInv
<1> QED BY Invariance, <1>1, PTL
-----------------------------------------------------------------------------
(* The relation of attachments that the map stands for. *)
Pairs == {p \in Keys \X Observers : p[2] \in Watching(p[1])}

(* Those who attend k besides o, in the relation and in the map. *)
LEMMA OthersAgree ==
  ASSUME TypeOK, NEW k \in Keys, NEW o \in Observers
  PROVE  /\ <<k, o>> \in Pairs <=> o \in Watching(k)
         /\ {q \in Observers \ {o} : <<k, q>> \in Pairs} = Watching(k) \ {o}
BY ObservedIffWatched DEF Pairs

(* What a step does to one entry it does to the pairs of that key. *)
LEMMA PairsNext ==
  ASSUME NEW k \in Keys, NEW watching \in SUBSET Observers,
         \A x \in Keys : Watching(x)' = IF x = k THEN watching ELSE Watching(x)
  PROVE  Pairs' = {p \in Pairs : p[1] # k} \cup {<<k, q>> : q \in watching}
BY DEF Pairs

(* The map of sets implements the relation: only the last observer of a    *)
(* key gets a policy answer, others the number of those who remain.        *)
THEOREM Refinement == Spec => ImplementsAttachments
<1> USE DEF Relation!Tell
<1>1. Init => Relation!Init
  BY DEF Init, Relation!Init, Watching, NoChange
<1>2. TypeOK /\ [Next]_vars => [Relation!Next]_Relation!vars
  <2> SUFFICES ASSUME TypeOK, [Next]_vars PROVE [Relation!Next]_Relation!vars
    OBVIOUS
  <2>0. ASSUME NEW k \in Keys, NEW o \in Observers
        PROVE  Relation!Others(k, o) = Watching(k) \ {o}
    BY OthersAgree DEF Relation!Others, Pairs
  <2>1. CASE UNCHANGED vars
    BY <2>1 DEF vars, Relation!vars, Watching
  <2>2. ASSUME NEW k \in Keys, NEW o \in Observers, Observe(k, o) PROVE Relation!Attach(k, o)
    <3>1. Watching(k) \subseteq Observers
      BY ObservedIffWatched
    <3>2. \A x \in Keys : Watching(x)' = IF x = k THEN Watching(k) \cup {o} ELSE Watching(x)
      BY <2>2, <3>1, WatchingNext DEF Observe
    <3>3. Pairs' = Pairs \cup {<<k, o>>}
      BY <3>1, <3>2 DEF Pairs
    <3> QED BY <2>2, <3>3 DEF Observe, Relation!Attach, Pairs
  <2>3. ASSUME NEW k \in Keys, NEW o \in Observers, UnobserveNotAttached(k, o)
        PROVE  Relation!Miss(k, o)
    BY <2>3 DEF UnobserveNotAttached, Relation!Miss, Watching
  <2>4. ASSUME NEW k \in Keys, NEW o \in Observers, UnobserveRemaining(k, o)
        PROVE  Relation!Leave(k, o)
    <3>1. Watching(k) \subseteq Observers
      BY ObservedIffWatched
    <3>2. \A x \in Keys : Watching(x)' = IF x = k THEN Watching(k) \ {o} ELSE Watching(x)
      BY <2>4, <3>1, WatchingNext DEF UnobserveRemaining
    <3>3. Pairs' = Pairs \ {<<k, o>>}
      BY <3>1, <3>2 DEF Pairs
    <3>4. \A S : Relation!Cardinality(S) = Cardinality(S)
      BY DEF Relation!Cardinality, Cardinality
    <3> QED BY <2>4, <2>0, <3>3, <3>4, OthersAgree DEF UnobserveRemaining, Relation!Leave, Pairs
  <2>5. ASSUME NEW k \in Keys, NEW o \in Observers, NEW p \in UnobservedPolicies,
               UnobserveLast(k, o, p)
        PROVE  Relation!LeaveLast(k, o)
    <3>1. \A x \in Keys : Watching(x)' = IF x = k THEN {} ELSE Watching(x)
      BY <2>5, WatchingNext DEF UnobserveLast
    <3>2. Watching(k) = {o}
      BY <2>5 DEF UnobserveLast
    <3>3. Pairs' = Pairs \ {<<k, o>>}
      BY <3>1, <3>2 DEF Pairs
    <3>4. PolicyAnswer(p) \in Relation!PolicyAnswers
      BY DEF PolicyAnswer, UnobservedPolicies, Relation!PolicyAnswers
    <3> QED BY <2>5, <2>0, <3>2, <3>3, <3>4, OthersAgree DEF UnobserveLast, Relation!LeaveLast, Pairs
  <2> QED BY <2>1, <2>2, <2>3, <2>4, <2>5 DEF Next, Relation!Next
<1> QED BY <1>1, <1>2, TypeCorrect, PTL DEF Spec, ImplementsAttachments, Relation!Spec
=============================================================================
