------------------------------- MODULE MCForward -------------------------------
(***************************************************************************)
(* Forward on small CFGs: a diamond, and two branches in a row with an      *)
(* exit that is reached in two ways.                                        *)
(***************************************************************************)
EXTENDS Forward

Set(v) == [op |-> "set", v |-> v]
Load == [op |-> "load", c |-> "pkt"]
Store == [op |-> "store", c |-> "pkt"]
Lookup(k) == [op |-> "lookup", key |-> k]
Read(k) == [op |-> "read", key |-> k]
Delete(k) == [op |-> "delete", key |-> k]
Update(k, fl) == [op |-> "update", key |-> k, flags |-> fl]

Prog(ops, cond, t, f) ==
  [ops  |-> [b \in Block |-> ops[b + 1]], cond |-> [b \in Block |-> cond[b + 1]],
   t |-> [b \in Block |-> t[b + 1]], f |-> [b \in Block |-> f[b + 1]]]

\* 0 -> {1, 2}, 1 -> 3, 2 -> 3.
Diamond(c, o0, o1, o2, o3) ==
  Prog(<<o0, o1, o2, o3>>, <<c, None, None, None>>, <<2, 3, None, None>>, <<1, None, 3, None>>)
\* 0 -> {1, 2}, 1 -> {2, 3}: block 2 is an exit reached in two ways, 3 another.
TwoExits(c, d, o0, o1, o2, o3) ==
  Prog(<<o0, o1, o2, o3>>, <<c, d, None, None>>, <<2, 3, None, None>>, <<1, 2, None, None>>)

Writes == {<<Set(1), Store>>, <<Update(Reg, "NOEXIST")>>, <<Set(0), Update(1, "ANY")>>, <<Delete(1)>>}
Heads == {<<Load>>, <<Lookup(1)>>, <<Load, Update(Reg, "EXIST")>>}
Tails == {<<Load>>, <<Load, Lookup(Reg)>>, << >>}

MCDiamonds == {Diamond(c, o0, o1, o2, o3) :
                 c \in Cond, o0 \in Heads, o1 \in Writes, o2 \in Writes \cup {<< >>}, o3 \in Tails}

\* A map value is read where the lookup hit, then the entry or the packet is
\* written, perhaps under the key that was read.
MCHits == {Diamond("zero", <<Lookup(k)>>, <<Read(k)>> \o w, o2, o3) :
             k \in Key, w \in {<<Store>>, <<Delete(Reg)>>, <<Update(Reg, "ANY")>>},
             o2 \in {<<Load>>, <<Load, Update(Reg, "NOEXIST")>>},
             o3 \in {<<Store>>, <<Lookup(Reg)>>, <<Delete(1), Load>>}}

MCTwoExits == {TwoExits(c, d, o0, o1, o2, o3) :
                 c \in Cond, d \in Cond, o0 \in {<<Load>>, <<Load, Update(Reg, "EXIST")>>},
                 o1 \in {<<Lookup(1)>>, <<Set(0), Update(1, "ANY")>>, <<Set(1), Store>>},
                 o2 \in {<<Load>>, <<Store, Lookup(1)>>}, o3 \in {<<Delete(0), Load>>}}

MCPrograms == MCDiamonds \cup MCHits \cup MCTwoExits

MCInits == [cell : [Cell -> {0, 1}], present : SUBSET Key, value : {[k \in Key |-> 1 - k]}]

ASSUME Ordered

\* Everything at the exits, the return value alone, or one block's slice.
MCQueries == {[targets |-> None, regions |-> {}], [targets |-> None, regions |-> {"pkt", "map"}],
              [targets |-> {2}, regions |-> {"pkt"}]}
=============================================================================
