------------------------------- MODULE MCPktView -------------------------------
(***************************************************************************)
(* PktView on the programs of one shape: a test, two arms, a join that     *)
(* tests again, and two exits.  The arms and the blocks around them take   *)
(* every choice of a few instruction sequences.                            *)
(***************************************************************************)
EXTENDS PktView, TLC

data == [op |-> "data"]
end == [op |-> "end"]
add == [op |-> "add", d |-> 1]
adjust(kind, d) == [op |-> "adjust", kind |-> kind, d |-> d]
bound(code, left) == [on |-> "bound", code |-> code, left |-> left]
zero == [on |-> "ret", code |-> "JEQ"]
nonzero == [on |-> "ret", code |-> "JNE"]
free == [on |-> "free"]

Shape(o0, o1, o2, o3, o4, c0, c3, entry) ==
  [ops |-> (0 :> o0) @@ (1 :> o1) @@ (2 :> o2) @@ (3 :> o3) @@ (4 :> o4) @@ (5 :> << >>),
   cond |-> (0 :> c0) @@ (3 :> c3) @@ [b \in Block |-> free],
   t |-> (0 :> 1) @@ (1 :> 3) @@ (3 :> 4) @@ [b \in Block |-> None],
   f |-> (0 :> 2) @@ (2 :> 3) @@ (3 :> 5) @@ [b \in Block |-> None],
   entry |-> entry]

MCPrograms ==
  {Shape(o0, o1, o2, o3, << >>, c0, c3, None) :
     o0 \in {<<adjust("head", 1)>>, <<adjust("head", -1), data, end>>, <<data, add, end>>,
             <<adjust("tail", -1)>>, <<adjust("head", 1), adjust("head", 1)>>},
     o1 \in {<< >>, <<adjust("head", -1)>>, <<data, end, [op |-> "len"]>>, <<adjust("meta", -1)>>},
     o2 \in {<< >>, <<data, add, end>>, <<adjust("tail", 1)>>},
     o3 \in {<< >>, <<data, add, end>>, <<adjust("tail", -1), data, end, [op |-> "diff"]>>},
     c0 \in {zero, nonzero, bound("JGT", "p"), bound("JLT", "e")},
     c3 \in {zero, nonzero, bound("JGE", "p"), bound("JLE", "e"), bound("JGT", "e")}}
  \* Block 4 is a callee, tail-called from block 3 and from one of its arms.
  \cup {[Shape(o0, o1, << >>, o3, <<data, end>>, zero, [on |-> "tail"], 4)
         EXCEPT !.t[1] = again, !.f[1] = IF again = 3 THEN None ELSE 3, !.cond[1] = [on |-> "tail"]] :
         o0 \in {<<adjust("head", 1)>>, <<adjust("tail", 1)>>}, again \in {3, 4},
         o1 \in {<< >>, <<adjust("head", 1)>>}, o3 \in {<< >>, <<adjust("head", 1)>>}}

\* A byte is read after the head was moved and the result tested.
MCShifted ==
  {Shape(<<adjust("head", d)>>, << >>, << >>, <<data, add, end>>, <<[op |-> "read"]>>,
         zero, bound("JLT", "p"), None) : d \in {1, -1}}

ASSUME DistinctEdges
=============================================================================
