--------------------------- MODULE TaskRecord_proofs ---------------------------
(***************************************************************************)
(* Proofs about TaskRecord, for any attempt ids and reasons.  The          *)
(* properties are inductive once it is known that an attempt out of Queued *)
(* was touched: SettledWasTouched alone does not survive a Settle step.    *)
(***************************************************************************)
EXTENDS TaskRecord, TLAPS

LeftQueued == attempt # NoAttempt /\ status # "Queued" => attempt \in touched

IInv == TypeOK /\ NewestAttemptRules /\ CancelClaimsBacked /\ LeftQueued /\ SettledWasTouched

-----------------------------------------------------------------------------
LEMMA InitIInv == Init => IInv
  BY MaxObserversAssumption
     DEF Init, IInv, TypeOK, NewestAttemptRules, CancelClaimsBacked, LeftQueued, SettledWasTouched,
         IsTerminal, Active, Terminal, Token!Init

LEMMA NextIInv == IInv /\ [Next]_vars => IInv'
<1> SUFFICES ASSUME IInv, [Next]_vars PROVE IInv'
  OBVIOUS
<1> USE AttemptsAssumption, ReasonsAssumption
    DEF IInv, TypeOK, NewestAttemptRules, CancelClaimsBacked, LeftQueued, SettledWasTouched,
        IsTerminal, Active, Terminal
<1>1. ASSUME NEW a \in Attempts, StartAttempt(a) PROVE IInv'
  BY <1>1 DEF StartAttempt
<1>2. ASSUME NEW a \in Attempts, NEW to \in {"Running", "Waiting", "Blocked"}, Mark(a, to)
      PROVE IInv'
  BY <1>2 DEF Mark, ActiveAttempt
<1>3. ASSUME NEW a \in Attempts, NEW to \in {"Completed", "Failed", "Cancelled", "FailedToCancel"},
             Settle(a, to)
      PROVE IInv'
  BY <1>3 DEF Settle, TerminalEventAttempt, ActiveAttempt
<1>4. ASSUME NEW a \in Attempts, FinishAfterCancel(a) PROVE IInv'
  BY <1>4 DEF FinishAfterCancel, ActiveAttempt
<1>5. ASSUME NEW r \in Reasons, RequestCancel(r) PROVE IInv'
  <2>1. touched' \subseteq Attempts /\ \A b \in touched' : attempt' # NoAttempt /\ b <= attempt'
    <3>1. attempt' = attempt /\ touched' = touched \cup ({attempt} \ {NoAttempt})
      BY <1>5 DEF RequestCancel
    <3>2. CASE attempt = NoAttempt
      BY <3>1, <3>2
    <3>3. CASE attempt # NoAttempt
      <4>1. attempt \in Nat /\ attempt <= attempt
        BY <3>3
      <4> QED
        BY <3>1, <3>3, <4>1
    <3> QED
      BY <3>2, <3>3
  <2>2. token' \in Reasons /\ cancel_reason' \in Reasons /\ status' = "Cancelling"
    BY <1>5 DEF RequestCancel, Token!Request
  <2>3. LeftQueued'
    BY <1>5 DEF RequestCancel
  <2> QED
    BY <1>5, <2>1, <2>2, <2>3 DEF RequestCancel
<1>6. ASSUME NEW r \in Reasons, TokenCancel(r) PROVE IInv'
  BY <1>6 DEF TokenCancel, Token!Request
<1>7. ASSUME NEW k \in Keys, NEW n \in 0..MaxObservers, SyncObserverCount(k, n) PROVE IInv'
  BY <1>7 DEF SyncObserverCount
<1>8. CASE UNCHANGED vars
  BY <1>8 DEF vars
<1> QED
  BY <1>1, <1>2, <1>3, <1>4, <1>5, <1>6, <1>7, <1>8 DEF Next

(* The inductive invariant holds in every behaviour of a record.           *)
THEOREM Invariance == Spec => []IInv
  BY InitIInv, NextIInv, PTL DEF Spec

(* Every field of the record keeps its type.                               *)
THEOREM TypeCorrect == Spec => []TypeOK
<1>1. IInv => TypeOK
  BY DEF IInv
<1> QED
  BY <1>1, Invariance, PTL

(* For any attempt ids in any order: a record is at the newest attempt     *)
(* started, accepts events of that one only, and does not start it again   *)
(* once it left Queued (lifecycle.rs:78-82, 220-224).                      *)
THEOREM NewestAttempt == Spec => []NewestAttemptRules
<1>1. IInv => NewestAttemptRules
  BY DEF IInv
<1> QED
  BY <1>1, Invariance, PTL

(* A record that says Cancelling or FinishedAfterCancel was asked to       *)
(* cancel and its token is cancelled, through any number of retries.       *)
THEOREM CancelIsBacked == Spec => []CancelClaimsBacked
<1>1. IInv => CancelClaimsBacked
  BY DEF IInv
<1> QED
  BY <1>1, Invariance, PTL

(* No attempt is settled that never left Queued (lifecycle.rs:233-235).    *)
THEOREM NothingSettlesUntouched == Spec => []SettledWasTouched
<1>1. IInv => SettledWasTouched
  BY DEF IInv
<1> QED
  BY <1>1, Invariance, PTL

(* Terminal states are terminal, for every call in every order.            *)
THEOREM TerminalIsFinal == Spec => TerminalStaysTerminal
<1>1. [Next]_vars => [(status \in Terminal) => UNCHANGED <<status, attempt, cancel_reason>>]_vars
  BY DEF Next, StartAttempt, Mark, Settle, FinishAfterCancel, RequestCancel, TokenCancel,
         SyncObserverCount, TerminalEventAttempt, ActiveAttempt, IsTerminal, Terminal, vars
<1> QED
  BY <1>1, PTL DEF Spec, TerminalStaysTerminal
=============================================================================
