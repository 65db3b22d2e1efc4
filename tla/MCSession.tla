------------------------------ MODULE MCSession ------------------------------
(***************************************************************************)
(* Two specifications: one that names a block and one that is decided at   *)
(* the exits.                                                              *)
(***************************************************************************)
EXTENDS Session

CONSTANTS s1, s2, tcp

MCSpecOf == [s \in {s1, s2} |->
    CASE s = s1 -> [targets |-> {1}, exits |-> FALSE, input |-> tcp]
      [] s = s2 -> [targets |-> {}, exits |-> TRUE, input |-> NONE]]
=============================================================================
