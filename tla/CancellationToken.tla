--------------------------- MODULE CancellationToken ---------------------------
(***************************************************************************)
(* src/src/cancel.rs: one CancellationState shared by every clone of a     *)
(* CancellationToken and by its CancellationViews.  cancel() is two atomic *)
(* steps of the calling thread: the swap on the flag, then, for the caller *)
(* the swap chose, the store into the mutex-protected reason.  Between     *)
(* them other threads run: they see a cancelled token with no reason yet.  *)
(*                                                                         *)
(* A critical section of the reason mutex is one step: it is an assignment *)
(* (cancel) or a clone (reason), and neither can block or be observed half *)
(* done by another holder.                                                 *)
(***************************************************************************)

CONSTANTS Callers,   \* threads that hold a clone of the token and call cancel
          Views,     \* holders of a CancellationView
          Reasons,   \* CancelReason values
          NoReason   \* None

ASSUME NoReasonAssumption == NoReason \notin Reasons

VARIABLES
  cancelled,   \* the AtomicBool
  reason,      \* the Option<CancelReason> behind the mutex
  storing,     \* caller -> the reason it is about to store, NoReason if none
  observed,    \* view -> whether an is_cancelled() of its has answered true
  seen         \* view -> the last Some(reason) that reason() gave it

vars == <<cancelled, reason, storing, observed, seen>>

OptionalReason == Reasons \cup {NoReason}

TypeOK ==
  /\ cancelled \in BOOLEAN
  /\ reason \in OptionalReason
  /\ storing \in [Callers -> OptionalReason]
  /\ observed \in [Views -> BOOLEAN]
  /\ seen \in [Views -> OptionalReason]

(* CancellationToken::new *)
Init ==
  /\ cancelled = FALSE
  /\ reason = NoReason
  /\ storing = [c \in Callers |-> NoReason]
  /\ observed = [v \in Views |-> FALSE]
  /\ seen = [v \in Views |-> NoReason]

(* Mutants: a swap whose answer nobody looks at, and one whose answer is   *)
(* read the wrong way round.                                               *)
SwapUnchecked(c, r) ==
  /\ storing[c] = NoReason
  /\ cancelled' = TRUE
  /\ storing' = [storing EXCEPT ![c] = r]
  /\ UNCHANGED <<reason, observed, seen>>

SwapInverted(c, r) ==
  /\ storing[c] = NoReason
  /\ cancelled' = TRUE
  /\ storing' = IF cancelled THEN [storing EXCEPT ![c] = r] ELSE storing
  /\ UNCHANGED <<reason, observed, seen>>

(* cancel, first step: the swap.  Whoever reads FALSE goes on to store. *)
Swap(c, r) ==
  /\ storing[c] = NoReason
  /\ cancelled' = TRUE
  /\ storing' = IF cancelled THEN storing ELSE [storing EXCEPT ![c] = r]
  /\ UNCHANGED <<reason, observed, seen>>

(* cancel, second step: the store under the mutex. *)
Store(c) ==
  /\ storing[c] # NoReason
  /\ reason' = storing[c]
  /\ storing' = [storing EXCEPT ![c] = NoReason]
  /\ UNCHANGED <<cancelled, observed, seen>>

(* CancellationView::is_cancelled answering true. *)
ObserveCancelled(v) ==
  /\ cancelled
  /\ observed' = [observed EXCEPT ![v] = TRUE]
  /\ UNCHANGED <<cancelled, reason, storing, seen>>

(* CancellationView::reason answering Some: the view keeps what it was told. *)
ReadReason(v) ==
  /\ reason # NoReason
  /\ seen' = [seen EXCEPT ![v] = reason]
  /\ UNCHANGED <<cancelled, reason, storing, observed>>

Next ==
  \/ \E c \in Callers, r \in Reasons : Swap(c, r)
  \/ \E c \in Callers : Store(c)
  \/ \E v \in Views : ObserveCancelled(v) \/ ReadReason(v)

(* A caller that won the swap is inside cancel() and runs on to the store. *)
Fairness == \A c \in Callers : WF_vars(Store(c))

Spec == Init /\ [][Next]_vars /\ Fairness

-----------------------------------------------------------------------------
(* The reason that won the swap: still in the winner's hands, or stored. *)
Storing == {c \in Callers : storing[c] # NoReason}

WinningReason ==
  IF Storing # {} THEN storing[CHOOSE c \in Storing : TRUE] ELSE reason

Abstract == INSTANCE FirstReason WITH first <- WinningReason

(* The two-step cancel() implements the atomic one: the reason is decided  *)
(* at the swap, and no interleaving of callers changes it afterwards       *)
(* (cancel.rs:27-36, "preserves the first CancelReason" in the README).    *)
ImplementsFirstReason == Abstract!Spec

(* Exactly one caller is ever responsible for the reason: before the first *)
(* swap nobody, afterwards either one caller still holds it or it is       *)
(* stored, never both (the guard on was_cancelled, cancel.rs:29).          *)
OneWinner ==
  /\ ~cancelled => Storing = {} /\ reason = NoReason
  /\ cancelled => (Storing = {} <=> reason # NoReason)
  /\ \A c, d \in Storing : c = d

(* What a view was once told stays true and is the same for all of them:   *)
(* a cancellation it observed is never withdrawn, and no two views are     *)
(* ever given different reasons, whenever each of them asked               *)
(* (cancel.rs:60-71).                                                      *)
ViewsAgree ==
  \A v, w \in Views :
    /\ observed[v] => cancelled
    /\ seen[v] # NoReason /\ seen[w] # NoReason => seen[v] = seen[w]

(* A token seen cancelled without a reason gets its reason: the window     *)
(* between swap and store closes by itself (cancel.rs:28-34).              *)
ReasonArrives == cancelled ~> (reason # NoReason)
=============================================================================
