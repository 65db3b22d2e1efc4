--------------------------------- MODULE Oracle ---------------------------------
(***************************************************************************)
(* What a policy check promises: every question of the policy gets its one *)
(* right verdict, in the order of the policy, and none is left unanswered. *)
(* truth is the list of right verdicts, fixed from the start, and said the *)
(* verdicts given so far.                                                  *)
(***************************************************************************)
EXTENDS Naturals, Sequences

VARIABLES truth, said

Init == said = << >>

Answer ==
  /\ Len(said) < Len(truth)
  /\ said' = Append(said, truth[Len(said) + 1])
  /\ UNCHANGED truth

\* What is promised of the answers, and that all of them come.
SafeSpec == Init /\ [][Answer]_<<truth, said>>
Spec == Init /\ [][Answer]_<<truth, said>> /\ WF_<<truth, said>>(Answer)
=============================================================================
