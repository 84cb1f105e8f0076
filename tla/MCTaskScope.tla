------------------------------ MODULE MCTaskScope ------------------------------
(***************************************************************************)
(* Instances of TaskScope for TLC: the texts that callers give.            *)
(***************************************************************************)
EXTENDS TaskScope

MCReserved == {<<"u", "i">>}

(* Reserved, its prefix and another name, each also padded; blank; with a  *)
(* control inside and at the edge.                                         *)
MCNamespaces ==
  {<<"u", "i">>, <<"space", "u", "i">>, <<"u">>, <<"u", "tab">>, <<"i">>,
   <<"tab", "i", "space">>, <<"space">>, <<"i", "nul">>, <<"u", "tab", "i">>}

MCValues == {<<"u">>, <<"space", "i">>, <<"space">>, <<"nul", "i">>}
=============================================================================
