-------------------------------- MODULE TaskScope --------------------------------
(***************************************************************************)
(* src/src/scope.rs and the validation of src/src/id.rs: texts from        *)
(* outside become identifiers, and segments of a scope, trimmed and        *)
(* checked; a scope grows segment by segment and is asked for the last     *)
(* value of a namespace.  A text is a sequence of characters, told apart   *)
(* as far as the checks do: letters, the space, the tab (white space and   *)
(* an ASCII control), and NUL (a control that is not white space).         *)
(***************************************************************************)
EXTENDS Naturals, Sequences

CONSTANTS
  Letters,     \* printable characters
  Reserved,    \* RESERVED_NAMESPACES, as texts
  Namespaces,  \* texts given as namespaces, in segments and queries
  Values,      \* texts given as values
  MaxSegments, \* bound on the segments of a scope
  MaxText      \* bound on the texts that identifiers are made of

Whitespace == {"space", "tab"}
Control == {"tab", "nul"}
Characters == Letters \cup Whitespace \cup Control

ASSUME TextsAssumption ==
  /\ Letters \cap (Whitespace \cup Control) = {}
  /\ Reserved \subseteq Seq(Letters)
  /\ Namespaces \cup Values \subseteq Seq(Characters)
ASSUME BoundsAssumption == MaxSegments \in Nat /\ MaxText \in Nat

VARIABLES
  segments,  \* TaskScope.segments
  answer,    \* what the last call returned
  given,     \* history: the text it was given, if it made an identifier
  newest     \* history: namespace -> the value given last for it

scope_vars == <<segments, answer, given, newest>>

Texts == UNION {[1..n -> Characters] : n \in 0..MaxText}

None == <<"none">>

HasControl(text) == \E i \in DOMAIN text : text[i] \in Control

Least(S) == CHOOSE i \in S : \A j \in S : i <= j

Greatest(S) == CHOOSE i \in S : \A j \in S : j <= i
-----------------------------------------------------------------------------
(* Where the text is not white space. *)
Inner(text) == {i \in DOMAIN text : text[i] \notin Whitespace}

(* str::trim *)
Trim(text) ==
  IF Inner(text) = {} THEN <<>>
  ELSE SubSeq(text, Least(Inner(text)), Greatest(Inner(text)))

Ok(value) == [kind |-> "Ok", value |-> value]

Err(kind, value) == [kind |-> kind, value |-> value]

(* Mutant: the characters of the untrimmed text are checked and returned. *)
ValidateUntrimmed(value) ==
  CASE Trim(value) = <<>> -> Err("Empty", value)
    [] HasControl(Trim(value)) -> Err("InvalidCharacter", value)
    [] OTHER -> Ok(value)

(* validate_string_id: TaskName, TaskKey, ObserverId, ResourceClassId and  *)
(* CoalescingKey alike.                                                    *)
ValidateStringId(value) ==
  LET trimmed == Trim(value)
  IN CASE trimmed = <<>> -> Err("Empty", value)
       [] HasControl(trimmed) -> Err("InvalidCharacter", value)
       [] OTHER -> Ok(trimmed)

(* Mutant: the namespace is compared before it is trimmed. *)
SegmentReservedUntrimmed(namespace, value) ==
  CASE Trim(namespace) = <<>> -> "EmptyNamespace"
    [] Trim(value) = <<>> -> "EmptyValue"
    [] HasControl(Trim(namespace)) \/ HasControl(Trim(value)) -> "InvalidCharacter"
    [] namespace \in Reserved -> "ReservedNamespace"
    [] OTHER -> "Ok"

(* The checks of TaskScopeSegment::try_new, in their order.                *)
SegmentKind(namespace, value) ==
  CASE Trim(namespace) = <<>> -> "EmptyNamespace"
    [] Trim(value) = <<>> -> "EmptyValue"
    [] HasControl(Trim(namespace)) \/ HasControl(Trim(value)) -> "InvalidCharacter"
    [] Trim(namespace) \in Reserved -> "ReservedNamespace"
    [] OTHER -> "Ok"

Segment(namespace, value) == [namespace |-> Trim(namespace), value |-> Trim(value)]

(* The segments of a namespace. *)
Hits(namespace) == {i \in DOMAIN segments : segments[i].namespace = namespace}

(* last_value: the search runs from the end.                               *)
LastValue(namespace) ==
  LET hits == Hits(Trim(namespace))
  IN IF hits = {} THEN None ELSE segments[Greatest(hits)].value

(* app *)
ScopeInit ==
  /\ segments = <<>>
  /\ answer = Ok(<<>>)
  /\ given = None
  /\ newest = << >>

Note(noted, namespace, value) ==
  [n \in DOMAIN noted \cup {Trim(namespace)} |->
     IF n = Trim(namespace) THEN Trim(value) ELSE noted[n]]

(* try_custom, of which try_workspace and try_resource are cases: a scope  *)
(* of one segment.                                                         *)
TryCustom(namespace, value) ==
  /\ SegmentKind(namespace, value) = "Ok"
  /\ segments' = <<Segment(namespace, value)>>
  /\ newest' = Note(<< >>, namespace, value)
  /\ answer' = Ok(<<>>)
  /\ given' = None

(* try_new and then, or try_then, which never fails.                       *)
Then(namespace, value) ==
  /\ Len(segments) < MaxSegments
  /\ SegmentKind(namespace, value) = "Ok"
  /\ segments' = Append(segments, Segment(namespace, value))
  /\ newest' = Note(newest, namespace, value)
  /\ answer' = Ok(<<>>)
  /\ given' = None

(* try_new fails: there is no segment to go on with.                       *)
Refused(namespace, value) ==
  /\ SegmentKind(namespace, value) # "Ok"
  /\ answer' = Err(SegmentKind(namespace, value), <<namespace, value>>)
  /\ given' = None
  /\ UNCHANGED <<segments, newest>>

(* try_new of the identifiers that are texts.                              *)
TryNewId(text) ==
  /\ answer' = ValidateStringId(text)
  /\ given' = text
  /\ UNCHANGED <<segments, newest>>

ScopeNext ==
  \/ \E n \in Namespaces, v \in Values : TryCustom(n, v) \/ Then(n, v) \/ Refused(n, v)
  \/ \E text \in Texts : TryNewId(text)

ScopeSpec == ScopeInit /\ [][ScopeNext]_scope_vars
-----------------------------------------------------------------------------
Clean(text) ==
  /\ text # <<>> /\ ~HasControl(text)
  /\ Head(text) \notin Whitespace /\ text[Len(text)] \notin Whitespace

(* A scope answers a query, padded or not, with the trimmed value given     *)
(* last for that namespace, whatever segments came in between, and with    *)
(* nothing for one never given or, however it was padded, reserved         *)
(* (scope.rs:10-59, 97-122).                                               *)
ScopeAnswers ==
  \A n \in Namespaces :
    LastValue(n) = IF Trim(n) \in DOMAIN newest \ Reserved THEN newest[Trim(n)] ELSE None

(* A control that no trimming removes: it is between, or is one of, two    *)
(* characters that are not white space.                                    *)
ControlInside(text) ==
  \E i, j, k \in DOMAIN text :
    /\ i <= j /\ j <= k
    /\ text[i] \notin Whitespace /\ text[k] \notin Whitespace
    /\ text[j] \in Control

(* Identifiers are canonical: what validation lets through is the middle   *)
(* of the text between white space, is clean, and validates to itself, so  *)
(* that keys are equal exactly if the texts are up to padding; and only    *)
(* blank texts and those with a control inside are turned down, not those  *)
(* with a tab at an edge that trimming removes (id.rs:127-149).            *)
IdentifiersCanonical ==
  given # None =>
    IF answer.kind = "Ok"
    THEN /\ Clean(answer.value) /\ ValidateStringId(answer.value) = answer
         /\ \E i, j \in 0..Len(given) :
              /\ answer.value = SubSeq(given, i + 1, j)
              /\ \A n \in DOMAIN given : n <= i \/ n > j => given[n] \in Whitespace
    ELSE \/ answer.kind = "Empty" /\ \A n \in DOMAIN given : given[n] \in Whitespace
         \/ answer.kind = "InvalidCharacter" /\ ControlInside(given)
=============================================================================
