----------------------------- MODULE MCTokioExecutor -----------------------------
(***************************************************************************)
(* Instances of TokioExecutor for TLC: the requests its work may carry.    *)
(***************************************************************************)
EXTENDS TokioExecutor

CONSTANTS w1, w2, w3, h1, h2, t1, t2

Request(handle, token, runnable, blocking) ==
  [handle |-> handle, token |-> token, runnable |-> runnable, blocking |-> blocking]

(* A blocking and an async request with their own handles, and policies of *)
(* their own: how work is run does not say whether it reports cancelling.  *)
Pair(t, blocking, async) ==
  [w \in Work |-> IF w = w1 THEN Request(h1, t1, "Blocking", blocking)
                            ELSE Request(h2, t, "Async", async)]

(* The blocking one reports cancelling, under one token or one each; or    *)
(* the async one does, and the blocking one does not.                      *)
DistinctHandles ==
  {Pair(t, "NonAbortableReportCancelling", "Abortable") : t \in Tokens}
  \cup {Pair(t2, "Blocking", "NonAbortableReportCancelling")}

(* Three pieces of work under one token, two of them under one handle,     *)
(* for the order of completions and of reuses.                             *)
ThreeJobs ==
  {[w \in Work |-> CASE w = w1 -> Request(h1, t1, "Async", "NonAbortableReportCancelling")
                     [] w = w2 -> Request(h1, t1, "Async", "Abortable")
                     [] OTHER  -> Request(h2, t1, "Blocking", "Blocking")]}

(* Requests that all reuse one handle; they only differ in name.           *)
SharedHandle == {[w \in Work |-> Request(h1, t1, "Blocking", "NonAbortableReportCancelling")]}
=============================================================================
