---------------------------- MODULE TaskValues_proofs ----------------------------
(***************************************************************************)
(* Proofs about the values that all other parts carry: cancellation tokens *)
(* (CancellationToken), for any callers, views and reasons, and names      *)
(* (TaskScope), for texts of any length and scopes of any segments.        *)
(*                                                                         *)
(* Tokens.  IInv is OneWinner with what ties the views to the stored       *)
(* reason: a view only knows a reason that is stored, and a stored reason  *)
(* leaves nobody with a store to make.                                     *)
(*                                                                         *)
(* Names.  What validation does to one text is a matter of where its first *)
(* and its last character are that are not white space (TrimProperties).   *)
(* ScopeInv says that the history of a scope agrees with the list, searched*)
(* from its end (NewestIsLast), and that no segment has a reserved         *)
(* namespace (Segments).                                                   *)
(***************************************************************************)
EXTENDS CancellationToken, TaskScope, FiniteSetTheorems, SequenceTheorems, TLAPS

(* What a view was told is what is stored, and what it observed holds.     *)
ViewsKnow ==
  \A v \in Views :
    /\ seen[v] # NoReason => seen[v] = reason
    /\ observed[v] => cancelled

IInv == TypeOK /\ OneWinner /\ ViewsKnow

-----------------------------------------------------------------------------
(* Every variable keeps its type: the flag, the reason and the views of    *)
(* cancel.rs.                                                              *)
THEOREM TypeCorrect == Spec => []TypeOK
<1>1. Init => TypeOK
  BY DEF Init, TypeOK, OptionalReason
<1>2. TypeOK /\ [Next]_vars => TypeOK'
  BY DEF TypeOK, OptionalReason, Next, vars, Swap, Store, ObserveCancelled, ReadReason
<1> QED
  BY <1>1, <1>2, PTL DEF Spec

LEMMA InitIInv == Init => IInv
  BY DEF Init, IInv, TypeOK, OptionalReason, OneWinner, Storing, ViewsKnow

LEMMA NextIInv == IInv /\ [Next]_vars => IInv'
<1> SUFFICES ASSUME IInv, [Next]_vars PROVE IInv'
  OBVIOUS
<1> USE NoReasonAssumption
<1>0. TypeOK'
  BY DEF IInv, TypeOK, OptionalReason, Next, vars, Swap, Store, ObserveCancelled, ReadReason
<1>1. ASSUME NEW c \in Callers, NEW r \in Reasons, Swap(c, r) PROVE (OneWinner /\ ViewsKnow)'
  <2>1. CASE cancelled
    BY <1>1, <2>1 DEF IInv, TypeOK, OneWinner, Storing, ViewsKnow, Swap
  <2>2. CASE ~cancelled
    <3>1. Storing' = {c}
      BY <1>1, <2>2 DEF IInv, TypeOK, OneWinner, Storing, Swap
    <3> QED
      BY <1>1, <2>2, <3>1 DEF IInv, TypeOK, OneWinner, ViewsKnow, Swap
  <2> QED
    BY <2>1, <2>2
<1>2. ASSUME NEW c \in Callers, Store(c) PROVE (OneWinner /\ ViewsKnow)'
  <2>1. /\ c \in Storing /\ cancelled
        /\ \A d \in Storing : d = c
        /\ reason = NoReason
    BY <1>2 DEF IInv, TypeOK, OneWinner, Storing, Store
  <2>2. Storing' = {}
    BY <1>2, <2>1 DEF IInv, TypeOK, Storing, Store
  <2>3. reason' # NoReason
    BY <1>2 DEF Store
  <2> QED
    BY <1>2, <2>1, <2>2, <2>3 DEF IInv, TypeOK, OneWinner, ViewsKnow, Store
<1>3. ASSUME NEW v \in Views, ObserveCancelled(v) PROVE (OneWinner /\ ViewsKnow)'
  BY <1>3 DEF IInv, TypeOK, OneWinner, Storing, ViewsKnow, ObserveCancelled
<1>4. ASSUME NEW v \in Views, ReadReason(v) PROVE (OneWinner /\ ViewsKnow)'
  BY <1>4 DEF IInv, TypeOK, OneWinner, Storing, ViewsKnow, ReadReason
<1>5. ASSUME UNCHANGED vars PROVE (OneWinner /\ ViewsKnow)'
  BY <1>5 DEF IInv, TypeOK, OneWinner, Storing, ViewsKnow, vars
<1> QED
  BY <1>0, <1>1, <1>2, <1>3, <1>4, <1>5 DEF IInv, Next

(* The inductive invariant holds in every behaviour of the token.          *)
THEOREM Invariance == Spec => []IInv
  BY InitIInv, NextIInv, PTL DEF Spec

(* For any number of racing callers exactly one is responsible for the     *)
(* reason (cancel.rs:27-36).                                               *)
THEOREM WinnerIsUnique == Spec => []OneWinner
<1>1. IInv => OneWinner
  BY DEF IInv
<1> QED
  BY <1>1, Invariance, PTL

(* For any number of views: none is given another reason than another      *)
(* view was, and an observed cancellation is never withdrawn               *)
(* (cancel.rs:60-71).                                                      *)
THEOREM ViewsNeverDisagree == Spec => []ViewsAgree
<1>1. IInv => ViewsAgree
  BY DEF IInv, ViewsKnow, ViewsAgree
<1> QED
  BY <1>1, Invariance, PTL

-----------------------------------------------------------------------------
(* While a store is pending the winning reason is the winner's.            *)
LEMMA PendingReason ==
  ASSUME IInv, NEW c \in Storing
  PROVE  WinningReason = storing[c]
  BY DEF IInv, OneWinner, WinningReason

LEMMA InitRefines == Init => Abstract!Init
  BY DEF Init, Abstract!Init, WinningReason, Storing

LEMMA StepRefines == IInv /\ [Next]_vars => [Abstract!Next]_WinningReason
<1> SUFFICES ASSUME IInv, [Next]_vars PROVE Abstract!Next \/ UNCHANGED WinningReason
  OBVIOUS
<1> USE NoReasonAssumption
<1>0. IInv'
  BY NextIInv
<1>1. ASSUME NEW c \in Callers, NEW r \in Reasons, Swap(c, r)
      PROVE Abstract!Next \/ UNCHANGED WinningReason
  <2>1. CASE cancelled
    BY <1>1, <2>1 DEF Swap, WinningReason, Storing
  <2>2. CASE ~cancelled
    <3>1. WinningReason = NoReason
      BY <2>2 DEF IInv, OneWinner, WinningReason
    <3>2. c \in Storing' /\ storing'[c] = r
      BY <1>1, <2>2 DEF IInv, TypeOK, Swap, Storing
    <3>3. Storing' = {c}
      BY <1>1, <2>2 DEF IInv, TypeOK, OneWinner, Storing, Swap
    <3>4. WinningReason' = r
      BY <3>2, <3>3 DEF WinningReason
    <3> QED
      BY <3>1, <3>4 DEF Abstract!Next, Abstract!Request
  <2> QED
    BY <2>1, <2>2
<1>2. ASSUME NEW c \in Callers, Store(c) PROVE UNCHANGED WinningReason
  <2>1. c \in Storing
    BY <1>2 DEF Store, Storing
  <2>2. WinningReason = storing[c]
    BY <2>1, PendingReason
  <2>3. Storing' = {}
    BY <1>2, <2>1 DEF IInv, TypeOK, OneWinner, Storing, Store
  <2> QED
    BY <1>2, <2>2, <2>3 DEF Store, WinningReason
<1>3. ASSUME NEW v \in Views, ObserveCancelled(v) \/ ReadReason(v) PROVE UNCHANGED WinningReason
  <2>1. CASE ObserveCancelled(v)
    BY <2>1 DEF ObserveCancelled, WinningReason, Storing
  <2>2. CASE ReadReason(v)
    BY <2>2 DEF ReadReason, WinningReason, Storing
  <2> QED
    BY <1>3, <2>1, <2>2
<1>4. ASSUME UNCHANGED vars PROVE UNCHANGED WinningReason
  BY <1>4 DEF vars, WinningReason, Storing
<1> QED
  BY <1>1, <1>2, <1>3, <1>4 DEF Next

(* The swap-then-store of cancel.rs implements an atomic place that takes  *)
(* the first reason and keeps it.                                          *)
THEOREM Refinement == Spec => ImplementsFirstReason
  BY InitRefines, StepRefines, Invariance, PTL
     DEF Spec, ImplementsFirstReason, Abstract!Spec
-----------------------------------------------------------------------------
(* A set of numbers has a least one. *)
LEMMA LeastOf ==
  ASSUME NEW S \in SUBSET Nat, S # {}
  PROVE  Least(S) \in S /\ \A j \in S : Least(S) <= j
<1> DEFINE R == {p \in Nat \X Nat : p[1] < p[2]}
<1>1. IsWellFoundedOn(R, Nat)
  BY NatLessThanWellFounded DEF OpToRel
<1> HIDE DEF R
<1>2. PICK i \in S : \A j \in S : ~ (<<j, i>> \in R)
  BY <1>1, WFMin
<1>3. ASSUME NEW j \in S PROVE i <= j
  <2>1. <<j, i>> \in R <=> j < i
    BY DEF R
  <2> QED
    BY <1>2, <2>1
<1> QED
  BY <1>3 DEF Least

(* A bounded set of numbers has a greatest: the least when counted down. *)
LEMMA GreatestOf ==
  ASSUME NEW n \in Nat, NEW S \in SUBSET (0..n), S # {}
  PROVE  Greatest(S) \in S /\ \A j \in S : j <= Greatest(S)
<1> DEFINE T == {n - i : i \in S}
<1>1. T \in SUBSET Nat /\ T # {}
  <2>1. \A i \in S : n - i \in Nat
    OBVIOUS
  <2> QED
    BY <2>1
<1>2. Least(T) \in T /\ \A j \in T : Least(T) <= j
  BY <1>1, LeastOf
<1>3. PICK i \in S : Least(T) = n - i
  BY <1>2
<1>4. \A j \in S : n - i <= n - j
  BY <1>2, <1>3
<1>5. \A j \in S : j <= i
  BY <1>4
<1> QED
  BY <1>5 DEF Greatest

LEMMA InnerBounds ==
  ASSUME NEW text \in Seq(Characters), Inner(text) # {}
  PROVE  /\ Least(Inner(text)) \in Inner(text) /\ Greatest(Inner(text)) \in Inner(text)
         /\ \A i \in Inner(text) : Least(Inner(text)) <= i /\ i <= Greatest(Inner(text))
         /\ Inner(text) \subseteq 1..Len(text) /\ Len(text) \in Nat
<1>1. DOMAIN text = 1..Len(text) /\ Len(text) \in Nat
  BY LenProperties
<1>2. Inner(text) \in SUBSET (0..Len(text)) /\ Inner(text) \in SUBSET Nat /\ Inner(text) \subseteq 1..Len(text)
  BY <1>1 DEF Inner
<1> QED
  BY <1>1, <1>2, LeastOf, GreatestOf

(* Trimming takes the part between the first and the last character that   *)
(* is not white space.                                                     *)
LEMMA TrimProperties ==
  ASSUME NEW text \in Seq(Characters)
  PROVE  /\ Trim(text) \in Seq(Characters)
         /\ Trim(text) = <<>> <=> Inner(text) = {}
         /\ Inner(text) # {} =>
              LET a == Least(Inner(text))
                  b == Greatest(Inner(text))
              IN /\ Trim(text) = SubSeq(text, a, b)
                 /\ Len(Trim(text)) = b - a + 1
                 /\ \A i \in 1..(b - a + 1) : Trim(text)[i] = text[a + i - 1]
<1>1. CASE Inner(text) = {}
  BY <1>1 DEF Trim
<1>2. CASE Inner(text) # {}
  <2> DEFINE a == Least(Inner(text))
             b == Greatest(Inner(text))
  <2>1. a \in 1..Len(text) /\ b \in 1..Len(text) /\ a <= b /\ Len(text) \in Nat
    BY <1>2, InnerBounds
  <2>2. Trim(text) = SubSeq(text, a, b)
    BY <1>2 DEF Trim
  <2> HIDE DEF a, b
  <2>3. \A i \in a..b : text[i] \in Characters
    BY <2>1, ElementOfSeq
  <2>4. /\ SubSeq(text, a, b) \in Seq(Characters)
        /\ Len(SubSeq(text, a, b)) = b - a + 1
        /\ \A i \in 1..(b - a + 1) : SubSeq(text, a, b)[i] = text[a + i - 1]
    BY <2>1, <2>3, SubSeqProperties
  <2>5. SubSeq(text, a, b) # <<>>
    BY <2>1, <2>4
  <2> QED
    BY <1>2, <2>2, <2>4, <2>5 DEF a, b
<1> QED
  BY <1>1, <1>2

(* A text with no white space at its edges is trimmed already. *)
LEMMA TrimmedAlready ==
  ASSUME NEW text \in Seq(Characters), text # <<>>,
         text[1] \notin Whitespace, text[Len(text)] \notin Whitespace
  PROVE  Trim(text) = text
<1>1. Len(text) \in Nat /\ Len(text) # 0 /\ DOMAIN text = 1..Len(text)
  BY LenProperties, EmptySeq
<1>2. 1 \in Inner(text) /\ Len(text) \in Inner(text)
  BY <1>1 DEF Inner
<1>3. Least(Inner(text)) = 1 /\ Greatest(Inner(text)) = Len(text)
  <2>1. /\ Least(Inner(text)) <= 1 /\ Len(text) <= Greatest(Inner(text))
        /\ Least(Inner(text)) \in 1..Len(text) /\ Greatest(Inner(text)) \in 1..Len(text)
    BY <1>2, InnerBounds
  <2> QED
    BY <1>1, <2>1
<1> QED
  BY <1>2, <1>3, SubSeqFull DEF Trim

(* What is left of a text that is not all white space: no white space at   *)
(* its edges, no control but those inside the text, nothing to trim.       *)
LEMMA TrimIsClean ==
  ASSUME NEW text \in Seq(Characters), Trim(text) # <<>>
  PROVE  /\ Trim(text)[1] \notin Whitespace /\ Trim(text)[Len(Trim(text))] \notin Whitespace
         /\ Head(Trim(text)) = Trim(text)[1]
         /\ HasControl(Trim(text)) => ControlInside(text)
         /\ Trim(Trim(text)) = Trim(text)
<1> DEFINE a == Least(Inner(text))
           b == Greatest(Inner(text))
<1>1. Inner(text) # {}
  BY TrimProperties
<1>2. /\ a \in Inner(text) /\ b \in Inner(text) /\ a <= b
      /\ a \in 1..Len(text) /\ b \in 1..Len(text) /\ Len(text) \in Nat
  BY <1>1, InnerBounds
<1>3. /\ Trim(text) \in Seq(Characters)
      /\ Len(Trim(text)) = b - a + 1
      /\ \A i \in 1..(b - a + 1) : Trim(text)[i] = text[a + i - 1]
  BY <1>1, TrimProperties
<1>4. text[a] \notin Whitespace /\ text[b] \notin Whitespace
  BY <1>2 DEF Inner
<1> HIDE DEF a, b
<1>5. Trim(text)[1] = text[a] /\ Trim(text)[b - a + 1] = text[b]
  BY <1>2, <1>3
<1>6. HasControl(Trim(text)) => ControlInside(text)
  <2>1. \A i \in DOMAIN Trim(text) :
          /\ a + i - 1 \in DOMAIN text /\ a <= a + i - 1 /\ a + i - 1 <= b
          /\ Trim(text)[i] = text[a + i - 1]
    BY <1>2, <1>3, LenProperties
  <2>2. a \in DOMAIN text /\ b \in DOMAIN text
    BY <1>2, LenProperties
  <2> QED
    BY <1>4, <2>1, <2>2 DEF HasControl, ControlInside
<1> QED
  BY <1>3, <1>4, <1>5, <1>6, TrimmedAlready

(* Outside of the part that is left there is only white space. *)
LEMMA TrimmedAwayIsWhite ==
  ASSUME NEW text \in Seq(Characters), Trim(text) # <<>>
  PROVE  \E i, j \in 0..Len(text) :
           /\ Trim(text) = SubSeq(text, i + 1, j)
           /\ \A n \in DOMAIN text : n <= i \/ n > j => text[n] \in Whitespace
<1> DEFINE a == Least(Inner(text))
           b == Greatest(Inner(text))
<1>1. Inner(text) # {}
  BY TrimProperties
<1>2. /\ \A n \in Inner(text) : a <= n /\ n <= b
      /\ a \in 1..Len(text) /\ b \in 1..Len(text) /\ Len(text) \in Nat
  BY <1>1, InnerBounds
<1>3. Trim(text) = SubSeq(text, a, b)
  BY <1>1 DEF Trim
<1> HIDE DEF a, b
<1>4. a - 1 \in 0..Len(text) /\ b \in 0..Len(text) /\ (a - 1) + 1 = a
  BY <1>2
<1>5. \A n \in DOMAIN text : n <= a - 1 \/ n > b => text[n] \in Whitespace
  <2>1. \A n \in DOMAIN text : n \in 1..Len(text)
    BY LenProperties
  <2> QED
    BY <1>2, <2>1 DEF Inner
<1> QED
  BY <1>3, <1>4, <1>5

(* The three answers of validate_string_id.                                *)
LEMMA ValidationAnswers ==
  ASSUME NEW text
  PROVE  /\ Trim(text) = <<>> => ValidateStringId(text).kind = "Empty"
         /\ Trim(text) # <<>> /\ HasControl(Trim(text)) =>
              ValidateStringId(text).kind = "InvalidCharacter"
         /\ Trim(text) # <<>> /\ ~HasControl(Trim(text)) =>
              ValidateStringId(text) = Ok(Trim(text)) /\ ValidateStringId(text).kind = "Ok"
<1>1. CASE Trim(text) = <<>>
  <2>1. ~HasControl(Trim(text))
    BY <1>1 DEF HasControl
  <2>2. ValidateStringId(text) = Err("Empty", text)
    BY <1>1, <2>1 DEF ValidateStringId
  <2> QED
    BY <1>1, <2>2 DEF Err
<1>2. CASE Trim(text) # <<>> /\ HasControl(Trim(text))
  BY <1>2 DEF ValidateStringId, Err
<1>3. CASE Trim(text) # <<>> /\ ~HasControl(Trim(text))
  <2>1. ValidateStringId(text) = Ok(Trim(text))
    BY <1>3 DEF ValidateStringId
  <2> QED
    BY <1>3, <2>1 DEF Ok
<1> QED
  BY <1>1, <1>2, <1>3

(* Validation lets a text through as its trimmed middle, which is clean    *)
(* and validates to itself, and turns down only blank texts and those with *)
(* a control inside (id.rs:127-149), for texts of any length.              *)
LEMMA ValidationIsCanonical ==
  ASSUME NEW text \in Seq(Characters)
  PROVE  LET result == ValidateStringId(text)
         IN IF result.kind = "Ok"
            THEN /\ Clean(result.value) /\ ValidateStringId(result.value) = result
                 /\ result.value = Trim(text) /\ Trim(text) # <<>>
            ELSE \/ result.kind = "Empty" /\ \A n \in DOMAIN text : text[n] \in Whitespace
                 \/ result.kind = "InvalidCharacter" /\ ControlInside(text)
<1>1. CASE Trim(text) = <<>>
  <2>1. \A n \in DOMAIN text : text[n] \in Whitespace
    BY <1>1, TrimProperties DEF Inner
  <2> QED
    BY <1>1, <2>1, ValidationAnswers
<1>2. CASE Trim(text) # <<>> /\ HasControl(Trim(text))
  BY <1>2, ValidationAnswers, TrimIsClean
<1>3. CASE Trim(text) # <<>> /\ ~HasControl(Trim(text))
  <2>1. ValidateStringId(text) = Ok(Trim(text)) /\ ValidateStringId(Trim(text)) = Ok(Trim(text))
    BY <1>3, TrimIsClean, ValidationAnswers
  <2>2. Clean(Trim(text))
    BY <1>3, TrimIsClean DEF Clean
  <2> QED
    BY <1>3, <2>1, <2>2 DEF Ok
<1> QED
  BY <1>1, <1>2, <1>3

(* Padding never matters: with white space before and after it, a text is  *)
(* trimmed to the same and validates to the same identifier.               *)
THEOREM PaddingIsIgnored ==
  ASSUME NEW before \in Seq(Whitespace), NEW after \in Seq(Whitespace),
         NEW text \in Seq(Characters)
  PROVE  /\ Trim((before \o text) \o after) = Trim(text)
         /\ ValidateStringId((before \o text) \o after).kind = ValidateStringId(text).kind
         /\ ValidateStringId(text).kind = "Ok" =>
              ValidateStringId((before \o text) \o after) = ValidateStringId(text)
<1> DEFINE padded == (before \o text) \o after
           m == Len(before)
           n == Len(text)
<1>1. before \in Seq(Characters) /\ after \in Seq(Characters)
  BY SeqMonotonic DEF Characters
<1>2. /\ m \in Nat /\ n \in Nat /\ Len(after) \in Nat
      /\ before \o text \in Seq(Characters) /\ Len(before \o text) = m + n
      /\ padded \in Seq(Characters) /\ Len(padded) = m + n + Len(after)
  BY <1>1, LenProperties, ConcatProperties
<1>3. ASSUME NEW i \in 1..(m + n + Len(after))
      PROVE  padded[i] = IF i <= m THEN before[i]
                         ELSE IF i <= m + n THEN text[i - m] ELSE after[i - (m + n)]
  <2>1. padded[i] = IF i <= m + n THEN (before \o text)[i] ELSE after[i - (m + n)]
    BY <1>1, <1>2, ConcatProperties
  <2>2. i <= m + n => (before \o text)[i] = IF i <= m THEN before[i] ELSE text[i - m]
    BY <1>1, <1>2, ConcatProperties
  <2> QED
    BY <1>2, <2>1, <2>2
<1> HIDE DEF padded
<1>4. /\ \A i \in 1..m : before[i] \in Whitespace
      /\ \A i \in 1..Len(after) : after[i] \in Whitespace
  BY ElementOfSeq
<1>5. DOMAIN padded = 1..(m + n + Len(after)) /\ DOMAIN text = 1..n
  BY <1>2, LenProperties
<1> HIDE DEF m, n
<1>6. \A i \in Inner(padded) : i - m \in Inner(text)
  <2> TAKE i \in Inner(padded)
  <2>1. i \in 1..(m + n + Len(after)) /\ padded[i] \notin Whitespace
    BY <1>5 DEF Inner
  <2>2. i > m
    <3> SUFFICES ASSUME i <= m PROVE FALSE
      BY <1>2, <2>1
    <3>1. padded[i] = before[i] /\ i \in 1..m
      BY <1>2, <1>3, <2>1
    <3> QED
      BY <1>4, <2>1, <3>1
  <2>3. i <= m + n
    <3> SUFFICES ASSUME i > m + n PROVE FALSE
      BY <1>2, <2>1
    <3>1. padded[i] = after[i - (m + n)] /\ i - (m + n) \in 1..Len(after)
      BY <1>2, <1>3, <2>1
    <3> QED
      BY <1>4, <2>1, <3>1
  <2>4. padded[i] = text[i - m] /\ i - m \in 1..n
    BY <1>2, <1>3, <2>1, <2>2, <2>3
  <2> QED
    BY <1>5, <2>1, <2>4 DEF Inner
<1>7. \A i \in Inner(text) : i + m \in Inner(padded)
  <2> TAKE i \in Inner(text)
  <2>1. i \in 1..n /\ text[i] \notin Whitespace
    BY <1>5 DEF Inner
  <2>2. /\ i + m \in 1..(m + n + Len(after)) /\ i + m > m /\ i + m <= m + n
        /\ (i + m) - m = i
    BY <1>2, <2>1
  <2>3. padded[i + m] = text[(i + m) - m]
    BY <1>2, <1>3, <2>2
  <2> QED
    BY <1>5, <2>1, <2>2, <2>3 DEF Inner
<1>8. Trim(padded) = Trim(text)
  <2>1. CASE Inner(text) = {}
    <3>1. Inner(padded) = {}
      BY <2>1, <1>6
    <3> QED
      BY <2>1, <3>1 DEF Trim
  <2>2. CASE Inner(text) # {}
    <3> DEFINE a == Least(Inner(text))
               b == Greatest(Inner(text))
               c == Least(Inner(padded))
               d == Greatest(Inner(padded))
    <3>1. /\ a \in Inner(text) /\ b \in Inner(text) /\ a \in 1..n /\ b \in 1..n /\ a <= b
          /\ \A i \in Inner(text) : a <= i /\ i <= b
      BY <2>2, InnerBounds DEF n
    <3>2. Inner(padded) # {}
      BY <2>2, <1>7
    <3>3. /\ c \in Inner(padded) /\ d \in Inner(padded) /\ c \in Nat /\ d \in Nat
          /\ \A i \in Inner(padded) : c <= i /\ i <= d
      BY <1>2, <3>2, InnerBounds
    <3>4. /\ Trim(text) \in Seq(Characters) /\ Len(Trim(text)) = b - a + 1
          /\ \A i \in 1..(b - a + 1) : Trim(text)[i] = text[a + i - 1]
      BY <2>2, TrimProperties
    <3>5. /\ Trim(padded) \in Seq(Characters) /\ Len(Trim(padded)) = d - c + 1
          /\ \A i \in 1..(d - c + 1) : Trim(padded)[i] = padded[c + i - 1]
      BY <1>2, <3>2, TrimProperties
    <3> HIDE DEF a, b, c, d
    <3>6. c = a + m /\ d = b + m
      <4>1. a <= c - m /\ d - m <= b
        BY <1>6, <3>1, <3>3
      <4>2. c <= a + m /\ b + m <= d
        BY <1>7, <3>1, <3>3
      <4> QED
        BY <1>2, <3>1, <3>3, <4>1, <4>2
    <3>7. \A i \in 1..(b - a + 1) : padded[c + i - 1] = text[a + i - 1]
      <4> TAKE i \in 1..(b - a + 1)
      <4>1. /\ c + i - 1 \in 1..(m + n + Len(after))
            /\ c + i - 1 > m /\ c + i - 1 <= m + n /\ (c + i - 1) - m = a + i - 1
        BY <1>2, <3>1, <3>6
      <4>2. padded[c + i - 1] = text[(c + i - 1) - m]
        BY <1>2, <1>3, <4>1
      <4> QED
        BY <4>1, <4>2
    <3>8. d - c + 1 = b - a + 1
      BY <1>2, <3>1, <3>6
    <3> QED
      BY <3>4, <3>5, <3>7, <3>8, SeqEqual
  <2> QED
    BY <2>1, <2>2
<1> QED
  BY <1>8, ValidationAnswers DEF padded
-----------------------------------------------------------------------------
(* What a segment is: its namespace is no reserved one. *)
Segments == [namespace : Seq(Characters) \ Reserved, value : Seq(Characters)]

(* The history agrees with the list searched from its end. *)
NewestIsLast ==
  /\ DOMAIN newest = {segments[i].namespace : i \in DOMAIN segments}
  /\ \A t \in DOMAIN newest : newest[t] = segments[Greatest(Hits(t))].value

AnswerIsValidation ==
  given # None => given \in Seq(Characters) /\ answer = ValidateStringId(given)

ScopeInv == segments \in Seq(Segments) /\ NewestIsLast /\ AnswerIsValidation

(* What try_new makes is a segment. *)
LEMMA SegmentType ==
  ASSUME NEW n \in Namespaces, NEW v \in Values, SegmentKind(n, v) = "Ok"
  PROVE  /\ Segment(n, v) \in Segments
         /\ Segment(n, v).namespace = Trim(n) /\ Segment(n, v).value = Trim(v)
<1>1. Trim(n) \in Seq(Characters) /\ Trim(v) \in Seq(Characters)
  BY TextsAssumption, TrimProperties
<1>2. Trim(n) \notin Reserved
  <2> SUFFICES ASSUME Trim(n) \in Reserved PROVE FALSE
    OBVIOUS
  <2>1. SegmentKind(n, v) \in {"EmptyNamespace", "EmptyValue", "InvalidCharacter", "ReservedNamespace"}
    BY DEF SegmentKind
  <2> QED
    BY <2>1
<1> QED
  BY <1>1, <1>2 DEF Segment, Segments

(* The list with one more segment: its namespace is answered with its      *)
(* value, and the others as before.                                        *)
LEMMA ThenKeepsNewest ==
  ASSUME segments \in Seq(Segments), NewestIsLast,
         NEW n \in Namespaces, NEW v \in Values, Then(n, v)
  PROVE  segments' \in Seq(Segments) /\ NewestIsLast'
<1> DEFINE l == Len(segments)
           s == Segment(n, v)
<1>1. s \in Segments /\ s.namespace = Trim(n) /\ s.value = Trim(v)
  BY SegmentType DEF Then
<1>2. l \in Nat /\ DOMAIN segments = 1..l
  BY LenProperties
<1>3. /\ segments' \in Seq(Segments) /\ Len(segments') = l + 1
      /\ \A i \in 1..l : segments'[i] = segments[i]
      /\ segments'[l + 1] = s
  BY <1>1, AppendProperties DEF Then
<1>4. DOMAIN segments' = 1..(l + 1) /\ 1..(l + 1) = DOMAIN segments \cup {l + 1}
  <2>1. DOMAIN segments' = 1..(l + 1)
    BY <1>3, LenProperties
  <2> QED
    BY <1>2, <2>1
<1>5. /\ DOMAIN newest' = DOMAIN newest \cup {Trim(n)}
      /\ newest'[Trim(n)] = Trim(v)
      /\ \A t \in DOMAIN newest \ {Trim(n)} : newest'[t] = newest[t]
  BY DEF Then, Note
<1> HIDE DEF l, s
<1>6. DOMAIN newest' = {segments'[i].namespace : i \in DOMAIN segments'}
  BY <1>1, <1>2, <1>3, <1>4, <1>5 DEF NewestIsLast
<1>7. ASSUME NEW t \in DOMAIN newest' PROVE newest'[t] = segments'[Greatest(Hits(t)')].value
  <2>1. CASE t = Trim(n)
    <3>1. l + 1 \in Hits(t)' /\ Hits(t)' \in SUBSET (0..(l + 1))
      BY <1>1, <1>2, <1>3, <1>4, <2>1 DEF Hits
    <3>2. Greatest(Hits(t)') \in Hits(t)' /\ l + 1 <= Greatest(Hits(t)')
      <4>1. l + 1 \in Nat /\ Hits(t)' # {}
        BY <1>2, <3>1
      <4> QED
        BY <3>1, <4>1, GreatestOf
    <3>3. Greatest(Hits(t)') = l + 1
      BY <1>2, <3>1, <3>2
    <3> QED
      BY <1>1, <1>3, <1>5, <2>1, <3>3
  <2>2. CASE t # Trim(n)
    <3>1. Hits(t)' = Hits(t)
      BY <1>1, <1>2, <1>3, <1>4, <2>2 DEF Hits
    <3>2. t \in DOMAIN newest /\ newest'[t] = newest[t]
      BY <1>5, <2>2
    <3>3. Hits(t) # {} /\ Hits(t) \in SUBSET (0..l)
      BY <1>2, <3>2 DEF Hits, NewestIsLast
    <3>4. Greatest(Hits(t)) \in 1..l
      BY <1>2, <3>3, GreatestOf DEF Hits
    <3> QED
      BY <1>3, <3>1, <3>2, <3>4 DEF NewestIsLast
  <2> QED
    BY <2>1, <2>2
<1> QED
  BY <1>3, <1>6, <1>7 DEF NewestIsLast

LEMMA TryCustomMakesNewest ==
  ASSUME NEW n \in Namespaces, NEW v \in Values, TryCustom(n, v)
  PROVE  segments' \in Seq(Segments) /\ NewestIsLast'
<1>1. /\ Segment(n, v) \in Segments
      /\ Segment(n, v).namespace = Trim(n) /\ Segment(n, v).value = Trim(v)
  BY SegmentType DEF TryCustom
<1>2. /\ segments' \in Seq(Segments) /\ DOMAIN segments' = {1} /\ segments'[1] = Segment(n, v)
  BY <1>1 DEF TryCustom
<1>3. DOMAIN newest' = {Trim(n)} /\ newest'[Trim(n)] = Trim(v)
  BY DEF TryCustom, Note
<1>4. Hits(Trim(n))' = {1}
  BY <1>1, <1>2 DEF Hits
<1>5. Greatest({1}) = 1
  BY DEF Greatest
<1> QED
  BY <1>1, <1>2, <1>3, <1>4, <1>5 DEF NewestIsLast

LEMMA ScopeInvariance == ScopeSpec => []ScopeInv
<1>1. ScopeInit => ScopeInv
  BY DEF ScopeInit, ScopeInv, NewestIsLast, AnswerIsValidation
<1>2. ScopeInv /\ [ScopeNext]_scope_vars => ScopeInv'
  <2> SUFFICES ASSUME ScopeInv, [ScopeNext]_scope_vars PROVE ScopeInv'
    OBVIOUS
  <2> USE DEF ScopeInv
  <2>1. CASE UNCHANGED scope_vars
    BY <2>1 DEF scope_vars, NewestIsLast, Hits, AnswerIsValidation
  <2>2. ASSUME NEW n \in Namespaces, NEW v \in Values, TryCustom(n, v) PROVE ScopeInv'
    BY <2>2, TryCustomMakesNewest DEF TryCustom, AnswerIsValidation
  <2>3. ASSUME NEW n \in Namespaces, NEW v \in Values, Then(n, v) PROVE ScopeInv'
    BY <2>3, ThenKeepsNewest DEF Then, AnswerIsValidation
  <2>4. ASSUME NEW n \in Namespaces, NEW v \in Values, Refused(n, v) PROVE ScopeInv'
    BY <2>4 DEF Refused, NewestIsLast, Hits, AnswerIsValidation
  <2>5. ASSUME NEW text \in Texts, TryNewId(text) PROVE ScopeInv'
    <3>1. text \in Seq(Characters)
      BY BoundsAssumption, SeqDef DEF Texts
    <3> QED
      BY <2>5, <3>1 DEF TryNewId, NewestIsLast, Hits, AnswerIsValidation
  <2> QED
    BY <2>1, <2>2, <2>3, <2>4, <2>5 DEF ScopeNext
<1> QED
  BY <1>1, <1>2, PTL DEF ScopeSpec

(* A scope of any segments in any order answers a query, however padded,   *)
(* with the value given last for that namespace, and with nothing for one  *)
(* never given or reserved (scope.rs:10-59, 97-122).                       *)
THEOREM ScopesAnswerLast == ScopeSpec => []ScopeAnswers
<1>1. ScopeInv => ScopeAnswers
  <2> SUFFICES ASSUME ScopeInv, NEW n \in Namespaces
               PROVE  LastValue(n) = IF Trim(n) \in DOMAIN newest \ Reserved
                                     THEN newest[Trim(n)] ELSE None
    BY DEF ScopeAnswers
  <2>1. Trim(n) \in DOMAIN newest <=> Hits(Trim(n)) # {}
    BY DEF ScopeInv, NewestIsLast, Hits
  <2>2. DOMAIN newest \cap Reserved = {}
    <3>1. \A i \in DOMAIN segments : segments[i] \in Segments
      BY ElementOfSeq, LenProperties DEF ScopeInv
    <3> QED
      BY <3>1 DEF ScopeInv, NewestIsLast, Segments
  <2> QED
    BY <2>1, <2>2 DEF LastValue, ScopeInv, NewestIsLast
<1> QED
  BY <1>1, ScopeInvariance, PTL

(* Identifiers are canonical, whatever text they are made of: see          *)
(* ValidationIsCanonical (id.rs:127-149).                                  *)
THEOREM IdentifiersAreCanonical == ScopeSpec => []IdentifiersCanonical
<1>1. ScopeInv => IdentifiersCanonical
  <2> SUFFICES ASSUME ScopeInv, given # None PROVE IdentifiersCanonical
    BY DEF IdentifiersCanonical
  <2>1. given \in Seq(Characters) /\ answer = ValidateStringId(given)
    BY DEF ScopeInv, AnswerIsValidation
  <2>2. CASE answer.kind = "Ok"
    <3>1. /\ Clean(answer.value) /\ ValidateStringId(answer.value) = answer
          /\ answer.value = Trim(given) /\ Trim(given) # <<>>
      BY <2>1, <2>2, ValidationIsCanonical
    <3> QED
      BY <2>1, <2>2, <3>1, TrimmedAwayIsWhite DEF IdentifiersCanonical
  <2>3. CASE answer.kind # "Ok"
    BY <2>1, <2>3, ValidationIsCanonical DEF IdentifiersCanonical
  <2> QED
    BY <2>2, <2>3
<1> QED
  BY <1>1, ScopeInvariance, PTL
=============================================================================
