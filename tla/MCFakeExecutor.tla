----------------------------- MODULE MCFakeExecutor -----------------------------
(***************************************************************************)
(* Instances of FakeExecutor for TLC: the requests its work may carry.     *)
(***************************************************************************)
EXTENDS FakeExecutor

CONSTANTS w1, w2, h1, h2, t1, t2

Request(h, t, j, b, s) ==
  [handle |-> h, token |-> t, job |-> j, blocking |-> b, sink |-> s]

(* Two requests under a handle each or one for both, with a token each:    *)
(* every job of the crate and an unknown one, reporting cancelling, on a   *)
(* sink that may refuse, and an unknown one on the recording sink.         *)
TwoRequests ==
  {[w \in Work |-> IF w = w1 THEN Request(h1, t1, j, "NonAbortableReportCancelling", "Fallible")
                   ELSE Request(h, t2, "Other", "Abortable", "Recording")] :
     h \in {h1, h2},
     j \in {"Recorded", "Cancelled", "Failing", "Other"}}
=============================================================================
