------------------------------ MODULE MCTopoOrder ------------------------------
(***************************************************************************)
(* TopoOrder over every CFG of N blocks that build_cfg can emit: a         *)
(* fall-through edge leads to the next block, a taken edge anywhere.       *)
(***************************************************************************)
EXTENDS TopoOrder

MCGraphs ==
  {g \in Graph : \A b \in Block : g.f[b] \in {None, b + 1}}

\* Every live block, one target, or two as a program with two exits gives.
MCTargets == {None} \cup {T \in SUBSET Block : Cardinality(T) \in 1..2}
=============================================================================
