------------------------------- MODULE MCChecker -------------------------------
(***************************************************************************)
(* Checker on two CFGs with two branches, two inputs, and policies of up   *)
(* to two conditions.                                                      *)
(***************************************************************************)
EXTENDS Checker

CONSTANTS i1, i2

Cfg(t, f, g0, g1) ==
  [t |-> [b \in Block |-> t[b + 1]], f |-> [b \in Block |-> f[b + 1]],
   go |-> [b \in Block |-> IF b = 0 THEN g0 ELSE IF b = 1 THEN g1 ELSE {}]]

\* 0 -> {1, 2}, 1 -> {2, 3}, where 3 jumps on to 2 or exits; block 4 is dead code that jumps to 3.
MCPrograms ==
  {Cfg(<<2, 3, None, x, 3>>, <<1, 2, None, None, None>>, g0, g1) :
     x \in {None, 2}, g0 \in {{}, {i1}, Input}, g1 \in SUBSET Input}

MCNoRet == {{}, {3}}

BC(b, md, body) == [block |-> b, mode |-> md, body |-> body]
Bodies == {{}, {i1}, Input}
MCPolicies ==
  {[bcs |-> <<BC(b, md, {i1}), BC(c, "all", body)>>, ecs |-> << >>, reach_all |-> FALSE] :
     b \in {1, 3}, md \in Mode, c \in {3, 4}, body \in Bodies}
  \cup
  {[bcs |-> bcs, ecs |-> <<[mode |-> md, body |-> [b \in Block |-> IF b = 2 THEN x ELSE y]]>>,
    reach_all |-> all] :
     bcs \in {<< >>, <<BC(2, "exists", {i2})>>}, md \in Mode, x \in {{}, {i1}}, y \in Bodies,
     all \in BOOLEAN}
=============================================================================
