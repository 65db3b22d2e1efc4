---------------------------- MODULE ForwardRunProofs ----------------------------
(***************************************************************************)
(* What ForwardProofs rests on, for every program whose edges go to later   *)
(* blocks: the expressions Tracker records for r are those of the run, and  *)
(* the memory of the run is what its last writes left.                      *)
(***************************************************************************)
EXTENDS Forward, SequenceTheorems, TLAPS

-----------------------------------------------------------------------------
(* Programs and graphs. *)

LEMMA AppendFacts ==
  ASSUME NEW S, NEW s \in Seq(S), NEW x \in S
  PROVE  /\ Append(s, x) \in Seq(S) /\ Len(Append(s, x)) = Len(s) + 1 /\ Len(s) \in Nat
         /\ \A i \in 1..Len(s) : Append(s, x)[i] = s[i]
         /\ Append(s, x)[Len(s) + 1] = x
         /\ Append(s, x) # << >>
  OBVIOUS

LEMMA LenFacts ==
  ASSUME NEW S, NEW s \in Seq(S)
  PROVE  Len(s) \in Nat /\ (s # << >> <=> Len(s) >= 1) /\ \A i \in 1..Len(s) : s[i] \in S
  OBVIOUS

\* The tables of a program.
LEMMA ProgFacts ==
  ASSUME prog \in Programs, NEW b \in Block
  PROVE  /\ prog.ops[b] \in Seq(Op) /\ size(b) \in Nat
         /\ \A i \in 1..size(b) : prog.ops[b][i] \in Op
         /\ prog.t[b] \in Block \cup {None} /\ prog.f[b] \in Block \cup {None}
         /\ successors(b) \subseteq Block
         /\ b \in Int /\ 0 <= b /\ 0 \in Block
<1>1. prog \in Program
  BY ProgramsAssumption
<1>2. /\ prog.ops[b] \in Seq(Op)
      /\ prog.t[b] \in Block \cup {None} /\ prog.f[b] \in Block \cup {None}
  BY <1>1 DEF Program
<1> QED
  BY <1>2, NAssumption DEF size, successors, Block

\* Every edge goes up, and the two edges of a branch part.
LEMMA EdgeFacts ==
  ASSUME Ordered, prog \in Programs, NEW b \in Block
  PROVE  /\ prog.t[b] # None => prog.t[b] \in Block /\ b < prog.t[b] /\ prog.t[b] \in successors(b)
         /\ prog.f[b] # None => prog.f[b] \in Block /\ b < prog.f[b] /\ prog.f[b] \in successors(b)
         /\ prog.t[b] = prog.f[b] => prog.t[b] = None
         /\ \A p \in preds(b) : p \in Block /\ p < b /\ (prog.t[p] = b \/ prog.f[p] = b)
         /\ \A c \in successors(b) : b \in preds(c)
<1>1. \A c \in Block : /\ prog.t[c] # None => prog.t[c] \in Block /\ c < prog.t[c] /\ prog.t[c] \in successors(c)
                       /\ prog.f[c] # None => prog.f[c] \in Block /\ c < prog.f[c] /\ prog.f[c] \in successors(c)
                       /\ prog.t[c] = prog.f[c] => prog.t[c] = None
  BY ProgFacts DEF Ordered, successors
<1>2. \A p \in preds(b) : p \in Block /\ p < b /\ (prog.t[p] = b \/ prog.f[p] = b)
  BY <1>1, NamesAssumption DEF preds, successors
<1> QED
  BY <1>1, <1>2 DEF preds

\* What the fields of an instruction are.
LEMMA OpFacts ==
  ASSUME NEW o \in Op
  PROVE  /\ o.op \in {"set", "load", "store", "lookup", "read", "delete", "update"}
         /\ o.op = "set" => o.v \in Val
         /\ o.op \in {"load", "store"} => o.c \in Cell
         /\ o.op \in {"lookup", "read", "delete", "update"} => o.key \in KeyArg
         /\ o.op = "update" => o.flags \in Flags
  BY DEF Op

\* live is closed under successors.
LEMMA LiveFacts ==
  ASSUME prog \in Programs
  PROVE  0 \in live /\ \A b \in live : successors(b) \subseteq live
<1>1. 0 \in live
  BY NAssumption DEF live, Block
<1>2. ASSUME NEW b \in live, NEW c \in successors(b) PROVE c \in live
  <2>1. b \in Block
    BY <1>2 DEF live
  <2>2. c \in Block
    BY <1>2, <2>1, ProgFacts
  <2> SUFFICES ASSUME NEW S \in SUBSET Block, 0 \in S, \A x \in S : successors(x) \subseteq S
               PROVE  c \in S
    BY <2>2 DEF live
  <2> QED
    BY <1>2 DEF live
<1> QED
  BY <1>1, <1>2

\* before(T) is the least set that holds T and the predecessors of its members.
LEMMA BeforeFacts ==
  ASSUME NEW T \in SUBSET Block
  PROVE  /\ T \subseteq before(T) /\ before(T) \subseteq Block
         /\ \A b \in before(T) : preds(b) \subseteq before(T)
         /\ \A S \in SUBSET Block : T \subseteq S /\ (\A c \in S : preds(c) \subseteq S) => before(T) \subseteq S
<1>1. \A b \in Block : preds(b) \subseteq Block
  BY DEF preds
<1>2. T \subseteq before(T) /\ before(T) \subseteq Block
  BY DEF before
<1>3. ASSUME NEW b \in before(T), NEW p \in preds(b) PROVE p \in before(T)
  <2>1. p \in Block
    BY <1>1, <1>2, <1>3
  <2> SUFFICES ASSUME NEW S \in SUBSET Block, T \subseteq S, \A c \in S : preds(c) \subseteq S
               PROVE  p \in S
    BY <2>1 DEF before
  <2> QED
    BY <1>3 DEF before
<1>4. \A S \in SUBSET Block : T \subseteq S /\ (\A c \in S : preds(c) \subseteq S) => before(T) \subseteq S
  BY DEF before
<1> QED
  BY <1>2, <1>3, <1>4

\* Whatever comes before one of T's blocks comes before T.
LEMMA BeforeTrans ==
  ASSUME NEW T \in SUBSET Block, NEW b \in before(T)
  PROVE  before(preds(b)) \subseteq before(T)
<1>1. preds(b) \subseteq before(T) /\ preds(b) \subseteq Block
  BY BeforeFacts DEF preds
<1> QED
  BY <1>1, BeforeFacts

\* Everything before b has a smaller number.
LEMMA BeforeBelow ==
  ASSUME Ordered, prog \in Programs, NEW b \in Block, NEW c \in before(preds(b))
  PROVE  c \in Block /\ c < b
<1> DEFINE S == {x \in Block : x < b}
<1>1. preds(b) \subseteq S
  BY EdgeFacts
<1>2. \A x \in S : preds(x) \subseteq S
  <2> SUFFICES ASSUME NEW x \in S, NEW p \in preds(x) PROVE p \in S
    OBVIOUS
  <2>1. p \in Block /\ p < x
    BY EdgeFacts
  <2> QED
    BY <2>1 DEF Block
<1>3. preds(b) \in SUBSET Block /\ S \in SUBSET Block
  BY DEF preds
<1> QED
  BY <1>1, <1>2, <1>3, BeforeFacts

-----------------------------------------------------------------------------
(* The machine. *)

Machine == [reg : Val, cell : [Cell -> Val], present : SUBSET Key, value : [Key -> Val]]
Input == [cell : [Cell -> Val], present : SUBSET Key, value : [Key -> Val], free : SUBSET Block]

\* A location of the memory: what it holds, whether instruction o of state mc
\* writes it, and what it writes there.
Loc == ({"cell"} \X Cell) \cup ({"value", "present"} \X Key)
content(l, mc) == CASE l[1] = "cell" -> mc.cell[l[2]]
                    [] l[1] = "value" -> mc.value[l[2]]
                    [] l[1] = "present" -> IF l[2] \in mc.present THEN 1 ELSE 0
hits(l, mc, o) ==
  \/ l[1] = "cell" /\ o.op = "store" /\ o.c = l[2]
  \/ /\ l[1] \in {"value", "present"} /\ o.op = "update"
     /\ keyof(mc, o) = l[2] /\ applies(o.flags, l[2] \in mc.present)
  \/ l[1] = "present" /\ o.op = "delete" /\ keyof(mc, o) = l[2]
wrote(l, mc, o) == IF l[1] = "present" THEN IF o.op = "update" THEN 1 ELSE 0 ELSE mc.reg

\* One instruction of the machine.
LEMMA ExecFacts ==
  ASSUME NEW mc \in Machine, NEW o \in Op
  PROVE  /\ exec(mc, o) \in Machine
         /\ o.op = "set" => exec(mc, o).reg = o.v
         /\ is_write(o) => exec(mc, o).reg = mc.reg
         /\ o.op = "load" => exec(mc, o).reg = mc.cell[o.c]
         /\ o.op = "lookup" => exec(mc, o).reg = IF keyof(mc, o) \in mc.present THEN 1 ELSE 0
         /\ o.op = "read" => exec(mc, o).reg = mc.value[keyof(mc, o)]
         /\ o.op # "set" /\ ~is_source(o) => is_write(o)
         /\ o.op \in {"lookup", "read", "delete", "update"} => keyof(mc, o) \in Key
<1>1. o.op \in {"lookup", "read", "delete", "update"} => keyof(mc, o) \in Key
  BY OpFacts, ValAssumption DEF keyof, KeyArg, Machine
<1>2. o.op # "set" /\ ~is_source(o) => is_write(o)
  BY OpFacts DEF is_source, is_write
<1>3. CASE o.op = "set"
  BY <1>1, <1>2, <1>3, OpFacts DEF exec, Machine, is_write
<1>4. CASE o.op = "load"
  BY <1>1, <1>2, <1>4, OpFacts DEF exec, Machine, is_write
<1>5. CASE o.op = "store"
  BY <1>1, <1>2, <1>5, OpFacts DEF exec, Machine, is_write
<1>6. CASE o.op = "lookup"
  BY <1>1, <1>2, <1>6, OpFacts, ValAssumption DEF exec, Machine, is_write
<1>7. CASE o.op = "read"
  BY <1>1, <1>2, <1>7, OpFacts DEF exec, Machine, is_write
<1>8. CASE o.op = "delete"
  BY <1>1, <1>2, <1>8, OpFacts DEF exec, Machine, is_write
<1>9. CASE o.op = "update"
  BY <1>1, <1>2, <1>9, OpFacts DEF exec, Machine, is_write
<1> QED
  BY <1>3, <1>4, <1>5, <1>6, <1>7, <1>8, <1>9, OpFacts

\* A location changes only where it is written, and to what is written.
LEMMA ExecLoc ==
  ASSUME NEW mc \in Machine, NEW o \in Op, NEW l \in Loc
  PROVE  /\ hits(l, mc, o) => content(l, exec(mc, o)) = wrote(l, mc, o)
         /\ ~hits(l, mc, o) => content(l, exec(mc, o)) = content(l, mc)
<1> DEFINE k == keyof(mc, o)
           ok == applies(o.flags, k \in mc.present)
<1>1. \/ l[1] = "cell" /\ l[2] \in Cell
      \/ l[1] = "value" /\ l[2] \in Key
      \/ l[1] = "present" /\ l[2] \in Key
  BY DEF Loc
<1>2. o.op \in {"lookup", "read", "delete", "update"} => k \in Key
  BY ExecFacts
<1>3. CASE o.op \in {"set", "load", "lookup", "read"}
  <2>1. /\ exec(mc, o).cell = mc.cell /\ exec(mc, o).present = mc.present
        /\ exec(mc, o).value = mc.value
    BY <1>3 DEF exec, Machine
  <2>2. ~hits(l, mc, o)
    BY <1>3 DEF hits
  <2> QED
    BY <2>1, <2>2 DEF content
<1>4. CASE o.op = "store"
  <2>1. /\ exec(mc, o).cell = [mc.cell EXCEPT ![o.c] = mc.reg]
        /\ exec(mc, o).present = mc.present /\ exec(mc, o).value = mc.value
    BY <1>4 DEF exec, Machine
  <2>2. hits(l, mc, o) <=> l[1] = "cell" /\ o.c = l[2]
    BY <1>4 DEF hits
  <2>3. mc.cell \in [Cell -> Val] /\ o.c \in Cell
    BY <1>4, OpFacts DEF Machine
  <2> QED
    BY <1>1, <2>1, <2>2, <2>3 DEF content, wrote
<1>5. CASE o.op = "delete"
  <2>1. /\ exec(mc, o).cell = mc.cell /\ exec(mc, o).value = mc.value
        /\ exec(mc, o).present = mc.present \ {k}
    BY <1>5 DEF exec, Machine
  <2>2. hits(l, mc, o) <=> l[1] = "present" /\ k = l[2]
    BY <1>5 DEF hits
  <2> HIDE DEF k
  <2> QED
    BY <1>1, <1>5, <2>1, <2>2 DEF content, wrote
<1>6. CASE o.op = "update" /\ ok
  <2>1. /\ exec(mc, o).cell = mc.cell /\ exec(mc, o).value = [mc.value EXCEPT ![k] = mc.reg]
        /\ exec(mc, o).present = mc.present \cup {k}
    BY <1>6 DEF exec, Machine
  <2>2. hits(l, mc, o) <=> l[1] \in {"value", "present"} /\ k = l[2]
    BY <1>6, Zenon DEF hits
  <2>3. mc.value \in [Key -> Val] /\ k \in Key
    BY <1>2, <1>6 DEF Machine
  <2> HIDE DEF k
  <2> QED
    BY <1>1, <1>6, <2>1, <2>2, <2>3 DEF content, wrote
<1>7. CASE o.op = "update" /\ ~ok
  <2>1. exec(mc, o) = mc
    BY <1>7 DEF exec
  <2>2. ~hits(l, mc, o)
    BY <1>7, Zenon DEF hits
  <2> QED
    BY <2>1, <2>2
<1> QED
  BY <1>3, <1>4, <1>5, <1>6, <1>7, OpFacts

-----------------------------------------------------------------------------
(* Tracking. *)

Expr == [is : {"num"}, v : Val, uses : {{}}]
        \cup [is : {"leaf"}, b : Block, i : Nat, uses : SUBSET Region]
        \cup [is : {"phi"}, b : Block, uses : SUBSET Region]
Edge == Block \X {"taken", "fall"}
Group == [value : Expr, edges : SUBSET Edge]
Tracked == [at : Seq(Expr), groups : SUBSET Group]

TrackType ==
  /\ prog \in Programs
  /\ blk \in [Block -> Tracked]
  /\ \A b \in Block : Len(blk[b].at) <= size(b) + 1
  /\ phase # "track" => \A b \in Block : tracked(b)

\* Each expression is the one track_op gives.
TrackSteps ==
  \A b \in Block : \A i \in 1..size(b) : i + 1 <= Len(blk[b].at) =>
    blk[b].at[i + 1] = track_op(prog.ops[b][i], blk[b].at[i], b, i)

\* What a block started from is still what its predecessors leave.
TrackJoins ==
  \A b \in Block : started(b) =>
    /\ b = 0 \/ preds(b) # {}
    /\ \A p \in preds(b) : tracked(p)
    /\ merge_entry(b) = [at |-> <<blk[b].at[1]>>, groups |-> blk[b].groups]

\* A leaf or a JoinValue in an expression of block b, before instruction i, was
\* recorded before.
recorded(e, b, i) ==
  CASE e.is = "num"  -> TRUE
    [] e.is = "leaf" -> /\ e.b < b \/ (e.b = b /\ e.i < i)
                        /\ e.i \in 1..size(e.b) /\ e.i + 1 <= Len(blk[e.b].at)
                        /\ is_source(prog.ops[e.b][e.i])
                        /\ blk[e.b].at[e.i + 1] = e
    [] e.is = "phi"  -> /\ e.b <= b
                        /\ started(e.b) /\ blk[e.b].groups # {}
                        /\ blk[e.b].at[1] = e
TrackLeaves ==
  \A b \in Block : \A i \in 1..Len(blk[b].at) : recorded(blk[b].at[i], b, i)

TrackInv == TrackType /\ TrackSteps /\ TrackJoins /\ TrackLeaves

\* What an instruction leaves in r.
LEMMA TrackOpFacts ==
  ASSUME NEW e \in Expr, NEW o \in Op, NEW b \in Block, NEW i \in Nat
  PROVE  /\ track_op(o, e, b, i) \in Expr
         /\ o.op = "set" => track_op(o, e, b, i) = Num(o.v)
         /\ is_write(o) => track_op(o, e, b, i) = e
         /\ is_source(o) => /\ track_op(o, e, b, i).is = "leaf"
                            /\ track_op(o, e, b, i).b = b /\ track_op(o, e, b, i).i = i
                            /\ region(o) \in track_op(o, e, b, i).uses
         /\ o.op \in {"lookup", "read"} => key_expr(o, e).uses \subseteq track_op(o, e, b, i).uses
<1>1. e.uses \subseteq Region
  BY DEF Expr
<1>2. CASE o.op = "set"
  BY <1>2, OpFacts DEF track_op, Num, Expr, is_write, is_source
<1>3. CASE o.op = "load"
  BY <1>3, OpFacts DEF track_op, Leaf, Expr, Region, is_write, is_source, region
<1>4. CASE o.op \in {"lookup", "read"}
  <2>1. key_expr(o, e).uses \subseteq Region
    BY <1>1 DEF key_expr, Num
  <2>2. track_op(o, e, b, i) = Leaf(b, i, {"map"} \cup key_expr(o, e).uses)
    BY <1>4 DEF track_op
  <2> QED
    BY <1>4, <2>1, <2>2 DEF Leaf, Expr, Region, is_write, is_source, region
<1>5. CASE is_write(o)
  BY <1>5 DEF track_op, is_write, is_source
<1> QED
  BY <1>2, <1>3, <1>4, <1>5, OpFacts DEF is_write

\* An entry whose predecessors agree, and one with a JoinValue.
LEMMA MergeFacts ==
  ASSUME Ordered, TrackType, NEW b \in Block, b # 0, preds(b) # {}, \A p \in preds(b) : tracked(p)
  PROVE  /\ merge_entry(b) \in Tracked /\ Len(merge_entry(b).at) = 1
         /\ \A p \in preds(b) : out(p) \in Expr
         /\ \/ /\ \A p \in preds(b) : merge_entry(b).at[1] = out(p)
               /\ merge_entry(b).groups = {}
            \/ /\ merge_entry(b).at[1].is = "phi" /\ merge_entry(b).at[1].b = b
               /\ \A p \in preds(b) : out(p).uses \subseteq merge_entry(b).at[1].uses
               /\ merge_entry(b).groups # {}
               /\ merge_entry(b).groups =
                    {[value |-> e, edges |-> {d \in pred_edges(b) : out(d[1]) = e}] : e \in entries(b)}
<1>1. \A p \in preds(b) : out(p) \in Expr /\ p \in Block
  <2> SUFFICES ASSUME NEW p \in preds(b) PROVE out(p) \in Expr /\ p \in Block
    OBVIOUS
  <2>1. p \in Block /\ blk[p].at \in Seq(Expr) /\ Len(blk[p].at) = size(p) + 1 /\ size(p) \in Nat
    BY ProgFacts DEF preds, TrackType, Tracked, tracked
  <2> QED
    BY <2>1 DEF out
<1>2. entries(b) \subseteq Expr /\ entries(b) # {}
  BY <1>1 DEF entries
<1>3. CASE \E e \in entries(b) : entries(b) = {e}
  <2>1. PICK e \in entries(b) : entries(b) = {e}
    BY <1>3
  <2>2. (CHOOSE x \in entries(b) : TRUE) = e
    BY <2>1
  <2>3. merge_entry(b) = [at |-> <<e>>, groups |-> {}]
    BY <1>3, <2>2 DEF merge_entry
  <2>4. \A p \in preds(b) : e = out(p)
    BY <2>1 DEF entries
  <2>5. e \in Expr
    BY <1>2
  <2> QED
    BY <1>1, <2>3, <2>4, <2>5 DEF Tracked
<1>4. CASE ~ \E e \in entries(b) : entries(b) = {e}
  <2> DEFINE U == UNION {e.uses : e \in entries(b)}
             G == {[value |-> e, edges |-> {d \in pred_edges(b) : out(d[1]) = e}] : e \in entries(b)}
  <2>1. merge_entry(b) = [at |-> <<JoinValue(b, U)>>, groups |-> G]
    BY <1>4 DEF merge_entry
  <2>2. U \subseteq Region
    BY <1>2 DEF Expr
  <2>3. \A p \in preds(b) : out(p).uses \subseteq U
    BY DEF entries
  <2>4. pred_edges(b) \subseteq Edge
    BY <1>1 DEF pred_edges, Edge
  <2>5. G \subseteq Group /\ G # {}
    <3>1. \A e \in entries(b) : {d \in pred_edges(b) : out(d[1]) = e} \in SUBSET Edge
      BY <2>4
    <3>2. \A e \in entries(b) : [value |-> e, edges |-> {d \in pred_edges(b) : out(d[1]) = e}] \in Group
      BY <1>2, <3>1 DEF Group
    <3> QED
      BY <1>2, <3>2
  <2>6. JoinValue(b, U) \in Expr /\ JoinValue(b, U).is = "phi" /\ JoinValue(b, U).b = b /\ JoinValue(b, U).uses = U
    BY <2>2 DEF JoinValue, Expr
  <2> HIDE DEF U, G
  <2>7. merge_entry(b) \in Tracked /\ Len(merge_entry(b).at) = 1 /\ merge_entry(b).at[1] = JoinValue(b, U)
        /\ merge_entry(b).groups = G
    BY <2>1, <2>5, <2>6 DEF Tracked
  <2> QED
    BY <1>1, <2>3, <2>5, <2>6, <2>7 DEF G
<1> QED
  BY <1>3, <1>4

\* What the recorded leaves and entries stand on does not change while tracking goes on.
LEMMA GrowFacts ==
  ASSUME TrackInv, prog' = prog, blk' \in [Block -> Tracked],
         \A c \in Block : /\ Len(blk[c].at) <= Len(blk'[c].at)
                          /\ \A i \in 1..Len(blk[c].at) : blk'[c].at[i] = blk[c].at[i]
                          /\ started(c) => blk'[c].groups = blk[c].groups
                          /\ tracked(c) => blk'[c] = blk[c]
  PROVE  /\ \A c \in Block : \A e \in Expr : \A i \in Nat : recorded(e, c, i) => recorded(e, c, i)'
         /\ \A c \in Block : (\A p \in preds(c) : tracked(p)) =>
              (\A p \in preds(c) : tracked(p)') /\ merge_entry(c)' = merge_entry(c)
<1>1. \A c \in Block : size(c)' = size(c) /\ preds(c)' = preds(c) /\ preds(c) \subseteq Block /\ size(c) \in Nat
  BY ProgFacts DEF size, preds, successors, TrackInv, TrackType
<1>2. \A c \in Block : /\ blk[c].at \in Seq(Expr) /\ blk'[c].at \in Seq(Expr)
                       /\ Len(blk[c].at) \in Nat /\ Len(blk'[c].at) \in Nat
  BY DEF TrackInv, TrackType, Tracked
<1>3. \A c \in Block : started(c) => started(c)' /\ Len(blk[c].at) >= 1
  <2> SUFFICES ASSUME NEW c \in Block, started(c) PROVE started(c)' /\ Len(blk[c].at) >= 1
    OBVIOUS
  <2>1. Len(blk[c].at) >= 1
    BY <1>2 DEF started
  <2> QED
    BY <1>2, <2>1 DEF started
<1>4. ASSUME NEW c \in Block, NEW e \in Expr, NEW i \in Nat, recorded(e, c, i) PROVE recorded(e, c, i)'
  <2>1. CASE e.is = "num"
    BY <2>1 DEF recorded
  <2>2. CASE e.is = "leaf"
    <3>1. e.b \in Block
      BY <2>2 DEF Expr
    <3>2. /\ e.b < c \/ (e.b = c /\ e.i < i)
          /\ e.i \in 1..size(e.b) /\ e.i + 1 <= Len(blk[e.b].at)
          /\ is_source(prog.ops[e.b][e.i])
          /\ blk[e.b].at[e.i + 1] = e
      BY <1>4, <2>2 DEF recorded
    <3>3. e.i \in 1..size(e.b)' /\ is_source(prog'.ops[e.b][e.i])
      BY <1>1, <3>1, <3>2 DEF is_source
    <3>4. e.i + 1 \in 1..Len(blk[e.b].at)
      BY <1>1, <1>2, <3>1, <3>2
    <3>5. e.i + 1 <= Len(blk'[e.b].at) /\ blk'[e.b].at[e.i + 1] = e
      BY <1>2, <3>1, <3>2, <3>4
    <3> QED
      BY <2>2, <3>2, <3>3, <3>5 DEF recorded
  <2>3. CASE e.is = "phi"
    <3>1. e.b \in Block
      BY <2>3 DEF Expr
    <3>2. e.b <= c /\ started(e.b) /\ blk[e.b].groups # {} /\ blk[e.b].at[1] = e
      BY <1>4, <2>3 DEF recorded
    <3>3. started(e.b)' /\ blk'[e.b].groups # {} /\ blk'[e.b].at[1] = e
      BY <1>2, <1>3, <3>1, <3>2
    <3> QED
      BY <2>3, <3>2, <3>3 DEF recorded
  <2> QED
    BY <2>1, <2>2, <2>3 DEF Expr
<1>5. ASSUME NEW c \in Block, \A p \in preds(c) : tracked(p)
      PROVE  (\A p \in preds(c) : tracked(p)') /\ merge_entry(c)' = merge_entry(c)
  <2>1. \A p \in preds(c) : out(p)' = out(p) /\ tracked(p)'
    BY <1>1, <1>5 DEF out, tracked
  <2>2. entries(c)' = entries(c)
    BY <1>1, <2>1 DEF entries
  <2>3. pred_edges(c)' = pred_edges(c) /\ \A d \in pred_edges(c) : out(d[1])' = out(d[1])
    BY <1>1, <2>1 DEF pred_edges
  <2>4. \A e : {d \in pred_edges(c) : out(d[1]) = e}' = {d \in pred_edges(c) : out(d[1]) = e}
    BY <2>3
  <2>5. \A e : [value |-> e, edges |-> {d \in pred_edges(c) : out(d[1]) = e}]'
              = [value |-> e, edges |-> {d \in pred_edges(c) : out(d[1]) = e}]
    BY <2>4
  <2>6. {[value |-> e, edges |-> {d \in pred_edges(c) : out(d[1]) = e}] : e \in entries(c)}'
        = {[value |-> e, edges |-> {d \in pred_edges(c) : out(d[1]) = e}] : e \in entries(c)}
    BY <2>2, <2>5
  <2>7. merge_entry(c)' = merge_entry(c)
    BY <2>2, <2>6, Zenon DEF merge_entry
  <2> QED
    BY <2>1, <2>7
<1> QED
  BY <1>1, <1>4, <1>5

\* What is recorded at a point is recorded at every later one.
LEMMA RecordedLater ==
  ASSUME NEW e \in Expr, NEW b \in Block, NEW c \in Block, NEW i \in Nat, NEW j \in Nat,
         b < c \/ (b = c /\ i <= j), recorded(e, b, i)
  PROVE  recorded(e, c, j)
<1>1. b \in Int /\ c \in Int /\ (e.is \in {"leaf", "phi"} => e.b \in Int) /\ (e.is = "leaf" => e.i \in Nat)
  BY DEF Expr, Block
<1>2. CASE e.is = "leaf"
  <2>1. e.b < c \/ (e.b = c /\ e.i < j)
    BY <1>1, <1>2 DEF recorded
  <2> QED
    BY <1>2, <2>1 DEF recorded
<1>3. CASE e.is = "phi"
  BY <1>1, <1>3 DEF recorded
<1>4. CASE e.is = "num"
  BY <1>4 DEF recorded
<1> QED
  BY <1>2, <1>3, <1>4 DEF Expr

\* A block is entered with what its predecessors leave.
LEMMA TrackEntryStep ==
  ASSUME Ordered, TrackInv, NEW b \in Block, TrackEntry(b)
  PROVE  TrackInv'
<1>1. /\ prog' = prog /\ phase' = phase /\ phase = "track" /\ ~started(b)
      /\ \A p \in preds(b) : tracked(p)
      /\ b = 0 \/ preds(b) # {}
      /\ blk' = [blk EXCEPT ![b] = merge_entry(b)]
  BY DEF TrackEntry, ready
<1>2. TrackType
  BY DEF TrackInv
<1>3. \A c \in Block : size(c)' = size(c) /\ preds(c)' = preds(c) /\ size(c) \in Nat
  BY <1>1, <1>2, ProgFacts DEF size, preds, successors, TrackType
<1>4. /\ merge_entry(b) \in Tracked /\ Len(merge_entry(b).at) = 1
      /\ b # 0 => /\ \A p \in preds(b) : out(p) \in Expr
                  /\ \/ \A p \in preds(b) : merge_entry(b).at[1] = out(p)
                     \/ /\ merge_entry(b).at[1].is = "phi" /\ merge_entry(b).at[1].b = b
                        /\ merge_entry(b).groups # {}
  <2>1. CASE b = 0
    <3>1. merge_entry(b) = [at |-> <<Num(0)>>, groups |-> {}]
      BY <2>1 DEF merge_entry
    <3>2. Num(0) \in Expr
      BY ValAssumption DEF Num, Expr
    <3>3. <<Num(0)>> \in Seq(Expr) /\ Len(<<Num(0)>>) = 1 /\ {} \in SUBSET Group
      BY <3>2
    <3>4. merge_entry(b) \in Tracked /\ Len(merge_entry(b).at) = 1
      BY <3>1, <3>3 DEF Tracked
    <3> QED
      BY <2>1, <3>4
  <2>2. CASE b # 0
    BY <1>1, <1>2, <2>2, MergeFacts
  <2> QED
    BY <2>1, <2>2
<1>5. blk[b].at = << >>
  BY <1>1 DEF started
<1>6. blk' \in [Block -> Tracked] /\ blk'[b] = merge_entry(b) /\ \A c \in Block \ {b} : blk'[c] = blk[c]
  BY <1>1, <1>2, <1>4 DEF TrackType
<1>7. \A c \in Block : /\ Len(blk[c].at) <= Len(blk'[c].at)
                       /\ \A i \in 1..Len(blk[c].at) : blk'[c].at[i] = blk[c].at[i]
                       /\ started(c) => blk'[c].groups = blk[c].groups
                       /\ tracked(c) => blk'[c] = blk[c]
  <2>1. ~started(b) /\ ~tracked(b)
    BY <1>1, <1>3, <1>5 DEF tracked
  <2>2. \A c \in Block : Len(blk[c].at) \in Nat
    BY <1>2 DEF TrackType, Tracked
  <2> QED
    BY <1>4, <1>5, <1>6, <2>1, <2>2
<1>8. /\ \A c \in Block : \A e \in Expr : \A i \in Nat : recorded(e, c, i) => recorded(e, c, i)'
      /\ \A c \in Block : (\A p \in preds(c) : tracked(p)) =>
           (\A p \in preds(c) : tracked(p)') /\ merge_entry(c)' = merge_entry(c)
  BY <1>1, <1>6, <1>7, GrowFacts
<1>9. TrackType'
  <2>1. \A c \in Block : Len(blk'[c].at) <= size(c)' + 1
    <3> SUFFICES ASSUME NEW c \in Block PROVE Len(blk'[c].at) <= size(c) + 1
      BY <1>3
    <3>1. CASE c = b
      <4>1. Len(blk'[b].at) = 1 /\ size(b) \in Nat
        BY <1>3, <1>4, <1>6
      <4> QED
        BY <3>1, <4>1
    <3>2. CASE c # b
      BY <1>2, <1>6, <3>2 DEF TrackType
    <3> QED
      BY <3>1, <3>2
  <2> QED
    BY <1>1, <1>2, <1>6, <2>1 DEF TrackType
<1>10. TrackSteps'
  <2> SUFFICES ASSUME NEW c \in Block, NEW i \in 1..size(c), i + 1 <= Len(blk'[c].at)
               PROVE  blk'[c].at[i + 1] = track_op(prog.ops[c][i], blk'[c].at[i], c, i)
    BY <1>1, <1>3 DEF TrackSteps
  <2>1. c # b
    BY <1>3, <1>4, <1>6
  <2> QED
    BY <1>6, <2>1 DEF TrackInv, TrackSteps
<1>11. TrackJoins'
  <2> SUFFICES ASSUME NEW c \in Block, started(c)'
               PROVE  /\ c = 0 \/ preds(c) # {}
                      /\ \A p \in preds(c) : tracked(p)'
                      /\ merge_entry(c)' = [at |-> <<blk'[c].at[1]>>, groups |-> blk'[c].groups]
    BY <1>3 DEF TrackJoins
  <2>1. CASE c = b
    <3>1. merge_entry(b) = [at |-> <<merge_entry(b).at[1]>>, groups |-> merge_entry(b).groups]
      BY <1>4 DEF Tracked
    <3> QED
      BY <1>1, <1>6, <1>8, <2>1, <3>1
  <2>2. CASE c # b
    <3>1. started(c)
      BY <1>6, <2>2 DEF started
    <3> QED
      BY <1>6, <1>8, <2>2, <3>1 DEF TrackInv, TrackJoins
  <2> QED
    BY <2>1, <2>2
<1>12. TrackLeaves'
  <2> SUFFICES ASSUME NEW c \in Block, NEW i \in 1..Len(blk'[c].at), NEW y, y = blk'[c].at[i]
               PROVE  recorded(y, c, i)'
    BY DEF TrackLeaves
  <2>1. blk'[c].at \in Seq(Expr) /\ i \in Nat /\ y \in Expr
    BY <1>6 DEF Tracked
  <2>2. CASE c # b
    BY <1>6, <1>8, <2>1, <2>2 DEF TrackInv, TrackLeaves
  <2>3. CASE c = b
    <3>1. i = 1 /\ y = merge_entry(b).at[1]
      BY <1>4, <1>6, <2>3
    <3>2. CASE b = 0
      <4>1. merge_entry(b).at[1] = Num(0)
        BY <3>2 DEF merge_entry
      <4>2. y.is = "num"
        BY <3>1, <4>1 DEF Num
      <4> QED
        BY <4>2 DEF recorded
    <3>3. CASE b # 0 /\ \A p \in preds(b) : merge_entry(b).at[1] = out(p)
      <4>1. PICK p \in preds(b) : TRUE
        BY <1>1, <3>3
      <4>2. p \in Block /\ p < b /\ tracked(p) /\ out(p) \in Expr /\ size(p) \in Nat
        BY <1>1, <1>2, <1>3, <1>4, <3>3, EdgeFacts DEF TrackType
      <4>3. recorded(out(p), p, size(p) + 1)
        <5>1. size(p) + 1 \in 1..Len(blk[p].at)
          BY <4>2 DEF tracked
        <5> QED
          BY <4>2, <5>1 DEF TrackInv, TrackLeaves, out
      <4>4. recorded(y, b, i)
        BY <2>1, <3>1, <3>3, <4>2, <4>3, RecordedLater
      <4> QED
        BY <1>8, <2>1, <2>3, <4>4
    <3>4. CASE y.is = "phi" /\ y.b = b /\ merge_entry(b).groups # {}
      <4>1. started(b)'
        <5>1. Len(blk'[b].at) = 1
          BY <1>4, <1>6
        <5>2. blk'[b].at \in Seq(Expr)
          BY <1>6 DEF Tracked
        <5>3. blk'[b].at # << >>
          BY ONLY <5>1, <5>2, LenFacts
        <5> QED
          BY <5>3 DEF started
      <4>2. b <= b
        BY DEF Block
      <4> QED
        BY <1>6, <2>3, <3>1, <3>4, <4>1, <4>2 DEF recorded
    <3> QED
      BY <1>4, <3>1, <3>2, <3>3, <3>4
  <2> QED
    BY <2>2, <2>3
<1> QED
  BY <1>9, <1>10, <1>11, <1>12 DEF TrackInv

\* An instruction records a leaf, or leaves r as it was.
LEMMA TrackOpStep ==
  ASSUME Ordered, TrackInv, NEW b \in Block, TrackOp(b)
  PROVE  TrackInv'
<1> DEFINE n == Len(blk[b].at)
           e == blk[b].at[n]
           o == prog.ops[b][n]
           x == track_op(o, e, b, n)
<1>1. /\ prog' = prog /\ phase' = phase /\ phase = "track" /\ started(b) /\ ~tracked(b)
      /\ blk' = [blk EXCEPT ![b].at = Append(@, x)]
  BY DEF TrackOp
<1>2. TrackType
  BY DEF TrackInv
<1>3. \A c \in Block : size(c)' = size(c) /\ preds(c)' = preds(c) /\ size(c) \in Nat
  BY <1>1, <1>2, ProgFacts DEF size, preds, successors, TrackType
<1>4. blk[b].at \in Seq(Expr) /\ n \in Nat /\ n >= 1 /\ n <= size(b)
  <2>1. blk[b].at \in Seq(Expr) /\ Len(blk[b].at) <= size(b) + 1
    BY <1>2 DEF TrackType, Tracked
  <2> QED
    BY <1>1, <1>3, <2>1 DEF started, tracked
<1>5. e \in Expr /\ o \in Op
  BY <1>2, <1>4, ProgFacts DEF TrackType
<1>6. /\ x \in Expr
      /\ o.op = "set" => x = Num(o.v)
      /\ is_write(o) => x = e
      /\ is_source(o) => x.is = "leaf" /\ x.b = b /\ x.i = n
  <2> HIDE DEF n, e, o
  <2> QED
    BY <1>4, <1>5, TrackOpFacts
<1> HIDE DEF x
<1>7. /\ Append(blk[b].at, x) \in Seq(Expr) /\ Len(Append(blk[b].at, x)) = n + 1
      /\ \A i \in 1..n : Append(blk[b].at, x)[i] = blk[b].at[i]
      /\ Append(blk[b].at, x)[n + 1] = x
  BY <1>4, <1>6, AppendFacts
<1>8. /\ blk' \in [Block -> Tracked] /\ \A c \in Block \ {b} : blk'[c] = blk[c]
      /\ blk'[b].at = Append(blk[b].at, x) /\ blk'[b].groups = blk[b].groups
  BY <1>1, <1>2, <1>7 DEF TrackType, Tracked
<1>9. \A c \in Block : /\ Len(blk[c].at) <= Len(blk'[c].at)
                       /\ \A i \in 1..Len(blk[c].at) : blk'[c].at[i] = blk[c].at[i]
                       /\ started(c) => blk'[c].groups = blk[c].groups
                       /\ tracked(c) => blk'[c] = blk[c]
  <2>1. \A c \in Block : Len(blk[c].at) \in Nat
    BY <1>2 DEF TrackType, Tracked
  <2> QED
    BY <1>1, <1>4, <1>7, <1>8, <2>1
<1>10. /\ \A c \in Block : \A d \in Expr : \A i \in Nat : recorded(d, c, i) => recorded(d, c, i)'
       /\ \A c \in Block : (\A p \in preds(c) : tracked(p)) =>
            (\A p \in preds(c) : tracked(p)') /\ merge_entry(c)' = merge_entry(c)
  BY <1>1, <1>8, <1>9, GrowFacts
<1>11. TrackType'
  <2>1. \A c \in Block : Len(blk'[c].at) <= size(c)' + 1
    BY <1>2, <1>3, <1>4, <1>7, <1>8 DEF TrackType
  <2> QED
    BY <1>1, <1>2, <1>8, <2>1 DEF TrackType
<1>12. TrackSteps'
  <2> SUFFICES ASSUME NEW c \in Block, NEW i \in 1..size(c), i + 1 <= Len(blk'[c].at)
               PROVE  blk'[c].at[i + 1] = track_op(prog.ops[c][i], blk'[c].at[i], c, i)
    BY <1>1, <1>3 DEF TrackSteps
  <2>1. CASE c # b
    BY <1>8, <2>1 DEF TrackInv, TrackSteps
  <2>2. CASE c = b /\ i < n
    <3>1. i + 1 \in 1..n /\ i \in 1..n /\ i \in 1..size(b)
      BY <1>3, <1>4, <2>2
    <3>2. blk[b].at[i + 1] = track_op(prog.ops[b][i], blk[b].at[i], b, i)
      BY <3>1 DEF TrackInv, TrackSteps
    <3> QED
      BY <1>7, <1>8, <2>2, <3>1, <3>2
  <2>3. CASE c = b /\ i = n
    <3>1. blk'[b].at[n + 1] = x /\ blk'[b].at[n] = e
      BY <1>4, <1>7, <1>8
    <3> QED
      BY <2>3, <3>1 DEF x
  <2>4. i <= n \/ c # b
    BY <1>3, <1>4, <1>7, <1>8
  <2> QED
    BY <1>3, <1>4, <2>1, <2>2, <2>3, <2>4
<1>13. TrackJoins'
  <2> SUFFICES ASSUME NEW c \in Block, started(c)'
               PROVE  /\ c = 0 \/ preds(c) # {}
                      /\ \A p \in preds(c) : tracked(p)'
                      /\ merge_entry(c)' = [at |-> <<blk'[c].at[1]>>, groups |-> blk'[c].groups]
    BY <1>3 DEF TrackJoins
  <2>1. started(c)
    BY <1>1, <1>8 DEF started
  <2>2. blk'[c].at[1] = blk[c].at[1] /\ blk'[c].groups = blk[c].groups
    BY <1>4, <1>7, <1>8
  <2> QED
    BY <1>10, <2>1, <2>2 DEF TrackInv, TrackJoins
<1>14. TrackLeaves'
  <2> SUFFICES ASSUME NEW c \in Block, NEW i \in 1..Len(blk'[c].at), NEW y, y = blk'[c].at[i]
               PROVE  recorded(y, c, i)'
    BY DEF TrackLeaves
  <2>1. blk'[c].at \in Seq(Expr) /\ i \in Nat /\ y \in Expr
    BY <1>8 DEF Tracked
  <2>2. CASE c # b
    BY <1>8, <1>10, <2>1, <2>2 DEF TrackInv, TrackLeaves
  <2>3. CASE c = b /\ i \in 1..n
    BY <1>7, <1>8, <1>10, <2>1, <2>3 DEF TrackInv, TrackLeaves
  <2>4. CASE c = b /\ i = n + 1
    <3>1. y = x
      BY <1>7, <1>8, <2>4
    <3>2. CASE o.op = "set"
      <4>1. x = Num(o.v)
        BY <1>6, <3>2
      <4>2. y.is = "num"
        BY <3>1, <4>1 DEF Num
      <4> QED
        BY <4>2 DEF recorded
    <3>3. CASE is_source(o)
      <4>1. y.is = "leaf" /\ y.b = b /\ y.i = n
        BY <1>6, <3>1, <3>3
      <4>2. n < i /\ n \in 1..size(b)' /\ n + 1 <= Len(blk'[b].at)
        BY <1>3, <1>4, <1>7, <1>8, <2>4
      <4>3. blk'[b].at[n + 1] = y /\ is_source(prog'.ops[b][n])
        BY <1>1, <1>7, <1>8, <3>1, <3>3
      <4> QED
        BY <2>4, <3>1, <4>1, <4>2, <4>3 DEF recorded
    <3>4. CASE is_write(o)
      <4>1. y = e
        BY <1>6, <3>1, <3>4
      <4>2. recorded(y, b, n)
        BY <1>4, <4>1 DEF TrackInv, TrackLeaves
      <4>3. n \in Nat /\ n <= i
        BY <1>4, <2>4
      <4> HIDE DEF n
      <4>4. recorded(y, b, i)
        BY <2>1, <4>2, <4>3, RecordedLater
      <4> QED
        BY <1>10, <2>1, <2>4, <4>4
    <3> QED
      BY <1>5, <3>2, <3>3, <3>4, OpFacts DEF is_source, is_write
  <2> QED
    BY <1>4, <1>7, <1>8, <2>2, <2>3, <2>4
<1> QED
  BY <1>11, <1>12, <1>13, <1>14 DEF TrackInv

\* Nothing else touches the tracked program.
LEMMA TrackFrame ==
  ASSUME TrackInv, UNCHANGED trackVars, phase' # "track" => \A b \in Block : tracked(b)
  PROVE  TrackInv'
<1>1. prog' = prog /\ blk' = blk
  BY DEF trackVars
<1>2. \A b \in Block : size(b)' = size(b) /\ preds(b)' = preds(b) /\ (tracked(b)' <=> tracked(b)) /\ (started(b)' <=> started(b))
  BY <1>1 DEF size, preds, successors, tracked, started
<1>3. TrackType'
  BY <1>1, <1>2 DEF TrackInv, TrackType
<1>4. TrackSteps'
  BY <1>1, <1>2 DEF TrackInv, TrackSteps
<1>5. /\ \A c \in Block : \A e \in Expr : \A i \in Nat : recorded(e, c, i) => recorded(e, c, i)'
      /\ \A c \in Block : (\A p \in preds(c) : tracked(p)) =>
           (\A p \in preds(c) : tracked(p)') /\ merge_entry(c)' = merge_entry(c)
  <2>1. /\ blk' \in [Block -> Tracked]
        /\ \A c \in Block : /\ Len(blk[c].at) <= Len(blk'[c].at)
                            /\ \A i \in 1..Len(blk[c].at) : blk'[c].at[i] = blk[c].at[i]
                            /\ started(c) => blk'[c].groups = blk[c].groups
                            /\ tracked(c) => blk'[c] = blk[c]
    BY <1>1 DEF TrackInv, TrackType, Tracked
  <2> QED
    BY <1>1, <2>1, GrowFacts
<1>6. TrackJoins'
  BY <1>1, <1>2, <1>5 DEF TrackInv, TrackJoins
<1>7. TrackLeaves'
  <2> SUFFICES ASSUME NEW c \in Block, NEW i \in 1..Len(blk[c].at), NEW y, y = blk[c].at[i]
               PROVE  recorded(y, c, i)'
    BY <1>1 DEF TrackLeaves
  <2>1. i \in Nat /\ y \in Expr
    BY DEF TrackInv, TrackType, Tracked
  <2> QED
    BY <1>1, <1>5, <2>1 DEF TrackInv, TrackLeaves
<1> QED
  BY <1>3, <1>4, <1>6, <1>7 DEF TrackInv

\* Tracking records, in order, what each instruction and each join leaves in r.
LEMMA TrackInvariant ==
  ASSUME Ordered
  PROVE  Spec => []TrackInv
<1>1. Init => TrackInv
  <2> SUFFICES ASSUME Init PROVE TrackInv
    OBVIOUS
  <2>1. /\ prog \in Programs /\ phase = "track" /\ blk \in [Block -> Tracked]
        /\ \A b \in Block : blk[b].at = << >>
    BY DEF Init, Tracked
  <2>2. \A b \in Block : size(b) \in Nat
    BY <2>1, ProgFacts
  <2> QED
    BY <2>1, <2>2 DEF TrackInv, TrackType, TrackSteps, TrackJoins, TrackLeaves, started
<1>2. TrackInv /\ [Next]_vars => TrackInv'
  <2> SUFFICES ASSUME TrackInv, [Next]_vars PROVE TrackInv'
    OBVIOUS
  <2>1. ASSUME NEW b \in Block, TrackEntry(b) PROVE TrackInv'
    BY <2>1, TrackEntryStep
  <2>2. ASSUME NEW b \in Block, TrackOp(b) PROVE TrackInv'
    BY <2>2, TrackOpStep
  <2>3. phase # "track" => \A b \in Block : tracked(b)
    BY DEF TrackInv, TrackType
  <2>4. CASE Feed
    BY <2>4, TrackFrame DEF Feed
  <2>5. CASE RunOp \/ RunEdge \/ StartWalk
    BY <2>3, <2>5, TrackFrame DEF RunOp, RunEdge, StartWalk
  <2>6. ASSUME NEW b \in Block, WalkEntry(b) \/ WalkItem(b) \/ WalkExit(b) PROVE TrackInv'
    BY <2>3, <2>6, TrackFrame DEF WalkEntry, WalkItem, WalkExit
  <2>7. CASE UNCHANGED vars
    BY <2>3, <2>7, TrackFrame DEF vars
  <2> QED
    BY <2>1, <2>2, <2>4, <2>5, <2>6, <2>7 DEF Next, Ended
<1> QED
  BY <1>1, <1>2, PTL DEF Spec

-----------------------------------------------------------------------------
(* The run. *)

complete(b) == Len(trace[b]) = size(b) + 1

RunType ==
  /\ phase \in {"track", "run", "slice", "walk", "done"}
  /\ cur \in Block
  /\ trace \in [Block -> Seq(Machine)]
  /\ \A b \in Block : Len(trace[b]) <= size(b) + 1
  /\ phase = "track" => cur = 0 /\ \A b \in Block : ~Ran(b)
  /\ phase # "track" =>
       /\ init \in Input
       /\ Ran(0) /\ Ran(cur)
       /\ trace[0][1] = [reg |-> 0, cell |-> init.cell, present |-> init.present, value |-> init.value]
  /\ phase \in {"slice", "walk", "done"} => complete(cur) /\ cur \in exits

\* The run goes up, each block to the next one that ran.
RunPath ==
  \A b \in Block : Ran(b) =>
    /\ b <= cur /\ b \in live
    /\ b < cur => /\ complete(b) /\ b \notin exits
                  /\ Ran(goes(b)) /\ trace[goes(b)][1] = end(b)
                  /\ \A c \in Block : Ran(c) => c <= b \/ goes(b) <= c
    /\ b # 0 => \E p \in Block : p < b /\ Ran(p) /\ goes(p) = b
    /\ \A c \in Block : Ran(c) /\ c < b => c \in before(preds(b))

RunSteps ==
  \A b \in Block : \A i \in 1..size(b) : i + 1 <= Len(trace[b]) =>
    trace[b][i + 1] = exec(trace[b][i], prog.ops[b][i])

\* The run has met the leaf or JoinValue e, with value v.
met(e, v) ==
  CASE e.is = "num"  -> e.v = v
    [] e.is = "leaf" -> Ran(e.b) /\ e.i + 1 <= Len(trace[e.b]) /\ trace[e.b][e.i + 1].reg = v
    [] e.is = "phi"  -> Ran(e.b) /\ trace[e.b][1].reg = v
RunSound ==
  \A b \in Block : \A i \in 1..Len(trace[b]) : met(blk[b].at[i], trace[b][i].reg)

earlier(w, b, i) == w[1] < b \/ (w[1] = b /\ w[2] < i)
\* The run wrote location l at w.
written(l, w) == Ran(w[1]) /\ hits(l, trace[w[1]][w[2]], op(w))

\* At instruction i of b a location holds its initial content or that of the
\* last write to it.
remembers(l, b, i) ==
  \/ /\ content(l, trace[b][i]) = content(l, init)
     /\ \A w \in Site : earlier(w, b, i) => ~written(l, w)
  \/ \E w \in Site : /\ earlier(w, b, i) /\ written(l, w)
                     /\ content(l, trace[b][i]) = wrote(l, trace[w[1]][w[2]], op(w))
                     /\ \A v \in Site : earlier(v, b, i) /\ written(l, v) => v = w \/ earlier(v, w[1], w[2])
RunMemory ==
  \A b \in Block : \A i \in 1..Len(trace[b]) : \A l \in Loc : remembers(l, b, i)

RunInv == RunType /\ RunPath /\ RunSteps /\ RunSound /\ RunMemory

\* Where the run goes.
LEMMA GoesFacts ==
  ASSUME Ordered, prog \in Programs, NEW b \in Block, b \notin exits
  PROVE  goes(b) \in Block /\ b < goes(b) /\ goes(b) \in successors(b) /\ b \in preds(goes(b))
<1>1. prog.t[b] # None \/ prog.f[b] # None
  BY DEF exits, successors
<1>2. goes(b) \in {prog.t[b], prog.f[b]} /\ goes(b) # None
  <2>1. CASE branch(b)
    BY <2>1 DEF goes, branch
  <2>2. CASE ~branch(b)
    BY <1>1, <2>2 DEF goes, branch, takes
  <2> QED
    BY <2>1, <2>2
<1> QED
  BY <1>2, EdgeFacts

\* The graph does not change, nor does the way a block that is done is left.
LEMMA GraphFrame ==
  ASSUME prog' = prog
  PROVE  /\ live' = live /\ exits' = exits /\ Site' = Site
         /\ \A b \in Block : /\ size(b)' = size(b) /\ preds(b)' = preds(b) /\ successors(b)' = successors(b)
                             /\ before(preds(b))' = before(preds(b))
         /\ \A w \in Site : op(w)' = op(w)
  BY DEF live, exits, Site, size, preds, successors, before, op

LEMMA GoesFrame ==
  ASSUME prog' = prog, init' = init, NEW b \in Block, trace'[b] = trace[b]
  PROVE  goes(b)' = goes(b) /\ end(b)' = end(b) /\ (takes(b)' <=> takes(b)) /\ (complete(b)' <=> complete(b))
<1>1. end(b)' = end(b) /\ (complete(b)' <=> complete(b))
  BY DEF end, complete, size
<1>2. takes(b)' <=> takes(b)
  BY <1>1 DEF takes, branch
<1> QED
  BY <1>1, <1>2 DEF goes

\* The points of the run, and the writes before a point.
LEMMA SiteFacts ==
  ASSUME prog \in Programs
  PROVE  /\ \A w \in Site : /\ w[1] \in Block /\ w[2] \in 1..size(w[1]) /\ w = <<w[1], w[2]>>
                            /\ w[1] \in Int /\ w[2] \in Int /\ op(w) \in Op
         /\ \A b \in Block : \A i \in 1..size(b) : <<b, i>> \in Site
<1>1. \A b \in Block : size(b) \in Nat /\ b \in Int /\ \A i \in 1..size(b) : prog.ops[b][i] \in Op
  BY ProgFacts
<1> QED
  BY <1>1 DEF Site, op

\* Points that have been passed keep their writes.
LEMMA WrittenFrame ==
  ASSUME Ordered, TrackInv, RunInv, prog' = prog,
         \A c \in Block : c < cur => trace'[c] = trace[c],
         \A c \in Block : \A i \in 1..Len(trace[c]) : trace'[c][i] = trace[c][i],
         \A c \in Block : Ran(c) => Ran(c)',
         NEW b \in Block, NEW i \in 1..Len(trace[b]), NEW l, NEW w \in Site, earlier(w, b, i)
  PROVE  /\ written(l, w)' <=> written(l, w)
         /\ Ran(w[1]) => trace'[w[1]][w[2]] = trace[w[1]][w[2]]
<1>1. /\ w[1] \in Block /\ w[2] \in 1..size(w[1]) /\ w[1] \in Int /\ w[2] \in Int
      /\ b \in Int /\ cur \in Int /\ size(w[1]) \in Nat /\ op(w)' = op(w)
  BY SiteFacts, GraphFrame, ProgFacts DEF TrackInv, TrackType, RunInv, RunType, Block
<1>2. trace[b] \in Seq(Machine) /\ Len(trace[b]) \in Nat /\ Ran(b)
  <2>1. trace[b] \in Seq(Machine)
    BY DEF RunInv, RunType
  <2> QED
    BY <2>1, LenFacts DEF Ran
<1>3. b <= cur
  BY <1>2 DEF RunInv, RunPath
<1>4. CASE w[1] < b
  <2>1. trace'[w[1]] = trace[w[1]]
    BY <1>1, <1>3, <1>4
  <2> QED
    BY <1>1, <2>1 DEF written, Ran
<1>5. CASE w[1] = b /\ w[2] < i
  <2>1. w[2] \in 1..Len(trace[b])
    BY <1>1, <1>2, <1>5
  <2>2. trace'[b][w[2]] = trace[b][w[2]] /\ Ran(b)'
    BY <1>2, <2>1
  <2> QED
    BY <1>1, <1>2, <1>5, <2>2 DEF written
<1> QED
  BY <1>4, <1>5 DEF earlier

\* ... and so does what a location held there.
LEMMA RemembersFrame ==
  ASSUME Ordered, TrackInv, RunInv, prog' = prog, init' = init,
         \A c \in Block : c < cur => trace'[c] = trace[c],
         \A c \in Block : \A i \in 1..Len(trace[c]) : trace'[c][i] = trace[c][i],
         \A c \in Block : Ran(c) => Ran(c)',
         NEW b \in Block, NEW i \in 1..Len(trace[b]), NEW l \in Loc
  PROVE  remembers(l, b, i)'
<1>1. \A w \in Site : earlier(w, b, i) => /\ written(l, w)' <=> written(l, w)
                                          /\ Ran(w[1]) => trace'[w[1]][w[2]] = trace[w[1]][w[2]]
  BY WrittenFrame
<1>2. trace'[b][i] = trace[b][i] /\ Site' = Site /\ \A w \in Site : op(w)' = op(w)
  BY GraphFrame
<1>3. remembers(l, b, i)
  BY DEF RunInv, RunMemory
<1>4. CASE /\ content(l, trace[b][i]) = content(l, init)
           /\ \A w \in Site : earlier(w, b, i) => ~written(l, w)
  BY <1>1, <1>2, <1>4 DEF remembers
<1>5. CASE \E w \in Site : /\ earlier(w, b, i) /\ written(l, w)
                           /\ content(l, trace[b][i]) = wrote(l, trace[w[1]][w[2]], op(w))
                           /\ \A v \in Site : earlier(v, b, i) /\ written(l, v) => v = w \/ earlier(v, w[1], w[2])
  <2>1. PICK w \in Site : /\ earlier(w, b, i) /\ written(l, w)
                          /\ content(l, trace[b][i]) = wrote(l, trace[w[1]][w[2]], op(w))
                          /\ \A v \in Site : earlier(v, b, i) /\ written(l, v) => v = w \/ earlier(v, w[1], w[2])
    BY <1>5
  <2>2. written(l, w)' /\ trace'[w[1]][w[2]] = trace[w[1]][w[2]] /\ op(w)' = op(w)
    BY <1>1, <1>2, <2>1 DEF written
  <2>3. content(l, trace'[b][i]) = wrote(l, trace'[w[1]][w[2]], op(w)')
    BY <1>2, <2>1, <2>2
  <2>4. \A v \in Site : earlier(v, b, i) /\ written(l, v)' => v = w \/ earlier(v, w[1], w[2])
    BY <1>1, <2>1
  <2> QED
    BY <1>2, <2>1, <2>2, <2>3, <2>4 DEF remembers
<1> QED
  BY <1>3, <1>4, <1>5 DEF remembers

\* The memory after one instruction.
LEMMA RemembersOp ==
  ASSUME Ordered, TrackInv, RunInv, prog' = prog, init' = init,
         \A c \in Block : c < cur => trace'[c] = trace[c],
         \A c \in Block : \A i \in 1..Len(trace[c]) : trace'[c][i] = trace[c][i],
         \A c \in Block : Ran(c) => Ran(c)',
         NEW n \in 1..Len(trace[cur]), n <= size(cur), NEW l \in Loc,
         trace'[cur][n + 1] = exec(trace[cur][n], prog.ops[cur][n]),
         NEW b, b = cur
  PROVE  remembers(l, b, n + 1)'
<1> DEFINE mc == trace[b][n]
           o == prog.ops[b][n]
<1>1. b \in Block /\ b \in Int /\ n \in Int /\ n \in 1..size(b) /\ mc \in Machine /\ o \in Op
  <2>1. b \in Block /\ trace[b] \in Seq(Machine)
    BY DEF RunInv, RunType
  <2>2. size(b) \in Nat /\ Len(trace[b]) \in Nat
    BY <2>1, ProgFacts, LenFacts DEF TrackInv, TrackType
  <2>3. n \in 1..size(b)
    BY <2>2
  <2> QED
    BY <2>1, <2>3, ProgFacts, LenFacts DEF TrackInv, TrackType
<1>2. <<b, n>> \in Site /\ op(<<b, n>>) = o /\ Ran(b)
  <2>1. <<b, n>> \in Site
    BY <1>1, SiteFacts DEF TrackInv, TrackType
  <2>2. Ran(b)
    <3>1. trace[b] \in Seq(Machine)
      BY <1>1 DEF RunInv, RunType
    <3> QED
      BY <3>1, LenFacts DEF Ran
  <2> QED
    BY <2>1, <2>2 DEF op
<1>3. \A w \in Site : earlier(w, b, n + 1) <=> earlier(w, b, n) \/ w = <<b, n>>
  <2> SUFFICES ASSUME NEW w \in Site PROVE earlier(w, b, n + 1) <=> earlier(w, b, n) \/ w = <<b, n>>
    OBVIOUS
  <2>1. w[1] \in Int /\ w[2] \in Int /\ w = <<w[1], w[2]>>
    BY SiteFacts DEF TrackInv, TrackType
  <2> QED
    BY <1>1, <2>1 DEF earlier
<1>4. Site' = Site /\ \A w \in Site : op(w)' = op(w)
  BY GraphFrame
<1>5. \A w \in Site : earlier(w, b, n) => /\ written(l, w)' <=> written(l, w)
                                          /\ Ran(w[1]) => trace'[w[1]][w[2]] = trace[w[1]][w[2]]
  BY <1>1, WrittenFrame
<1>6. trace'[b][n] = mc /\ trace'[b][n + 1] = exec(mc, o) /\ Ran(b)'
  BY <1>1, <1>2
<1>7. written(l, <<b, n>>)' <=> hits(l, mc, o)
  BY <1>2, <1>4, <1>6 DEF written
<1>8. /\ hits(l, mc, o) => content(l, exec(mc, o)) = wrote(l, mc, o)
      /\ ~hits(l, mc, o) => content(l, exec(mc, o)) = content(l, mc)
  BY <1>1, ExecLoc
<1> HIDE DEF mc, o
<1>9. CASE hits(l, mc, o)
  <2> DEFINE w == <<b, n>>
  <2>1. w \in Site /\ earlier(w, b, n + 1) /\ written(l, w)' /\ w[1] = b /\ w[2] = n
    BY <1>2, <1>3, <1>7, <1>9
  <2>2. content(l, trace'[b][n + 1]) = wrote(l, trace'[w[1]][w[2]], op(w)')
    BY <1>2, <1>4, <1>6, <1>8, <1>9
  <2>3. \A v \in Site : earlier(v, b, n + 1) => v = w \/ earlier(v, w[1], w[2])
    BY <1>3
  <2> HIDE DEF w
  <2> QED
    BY <1>4, <2>1, <2>2, <2>3 DEF remembers
<1>10. CASE ~hits(l, mc, o)
  <2>1. remembers(l, b, n)
    BY <1>1 DEF RunInv, RunMemory
  <2>2. content(l, trace'[b][n + 1]) = content(l, trace[b][n])
    BY <1>6, <1>8, <1>10 DEF mc
  <2>3. CASE /\ content(l, trace[b][n]) = content(l, init)
             /\ \A w \in Site : earlier(w, b, n) => ~written(l, w)
    <3>1. \A w \in Site : earlier(w, b, n + 1) => ~written(l, w)'
      BY <1>3, <1>5, <1>7, <1>10, <2>3
    <3> QED
      BY <1>4, <2>2, <2>3, <3>1 DEF remembers
  <2>4. CASE \E w \in Site : /\ earlier(w, b, n) /\ written(l, w)
                             /\ content(l, trace[b][n]) = wrote(l, trace[w[1]][w[2]], op(w))
                             /\ \A v \in Site : earlier(v, b, n) /\ written(l, v) => v = w \/ earlier(v, w[1], w[2])
    <3>1. PICK w \in Site : /\ earlier(w, b, n) /\ written(l, w)
                            /\ content(l, trace[b][n]) = wrote(l, trace[w[1]][w[2]], op(w))
                            /\ \A v \in Site : earlier(v, b, n) /\ written(l, v) => v = w \/ earlier(v, w[1], w[2])
      BY <2>4
    <3>2. /\ earlier(w, b, n + 1) /\ written(l, w)' /\ op(w)' = op(w)
          /\ trace'[w[1]][w[2]] = trace[w[1]][w[2]]
      BY <1>3, <1>4, <1>5, <3>1 DEF written
    <3>3. \A v \in Site : earlier(v, b, n + 1) /\ written(l, v)' => v = w \/ earlier(v, w[1], w[2])
      BY <1>3, <1>5, <1>7, <1>10, <3>1
    <3>4. content(l, trace'[b][n + 1]) = wrote(l, trace'[w[1]][w[2]], op(w)')
      BY <2>2, <3>1, <3>2
    <3> QED
      BY <1>4, <3>2, <3>3, <3>4 DEF remembers
  <2> QED
    BY <2>1, <2>3, <2>4 DEF remembers
<1> QED
  BY <1>9, <1>10

\* The memory where a block is entered is the one its predecessor left.
LEMMA RemembersEdge ==
  ASSUME Ordered, TrackInv, RunInv, prog' = prog, init' = init,
         \A c \in Block : c < cur => trace'[c] = trace[c],
         \A c \in Block : \A i \in 1..Len(trace[c]) : trace'[c][i] = trace[c][i],
         \A c \in Block : Ran(c) => Ran(c)',
         NEW p, p = cur, complete(p), NEW b \in Block, p < b,
         \A c \in Block : Ran(c)' => Ran(c) \/ c = b,
         trace'[b][1] = end(p), NEW l \in Loc
  PROVE  remembers(l, b, 1)'
<1> DEFINE n == size(p) + 1
<1>1. p \in Block /\ p \in Int /\ b \in Int /\ size(p) \in Nat /\ n \in 1..Len(trace[p])
  <2>1. p \in Block
    BY DEF RunInv, RunType
  <2>2. size(p) \in Nat /\ p \in Int /\ b \in Int
    BY <2>1, ProgFacts DEF TrackInv, TrackType
  <2> QED
    BY <2>1, <2>2 DEF complete
<1>2. Site' = Site /\ \A w \in Site : op(w)' = op(w)
  BY GraphFrame
<1>3. \A w \in Site : earlier(w, p, n) => /\ written(l, w)' <=> written(l, w)
                                          /\ Ran(w[1]) => trace'[w[1]][w[2]] = trace[w[1]][w[2]]
  BY <1>1, WrittenFrame
<1>4. \A w \in Site : earlier(w, p, n) => earlier(w, b, 1)
  <2> SUFFICES ASSUME NEW w \in Site, earlier(w, p, n) PROVE earlier(w, b, 1)
    OBVIOUS
  <2>1. w[1] \in Int
    BY SiteFacts DEF TrackInv, TrackType
  <2> QED
    BY <1>1, <2>1 DEF earlier
<1>5. \A w \in Site : earlier(w, b, 1) /\ written(l, w)' => earlier(w, p, n) /\ written(l, w)
  <2> SUFFICES ASSUME NEW w \in Site, earlier(w, b, 1), written(l, w)' PROVE earlier(w, p, n) /\ written(l, w)
    OBVIOUS
  <2>1. w[1] \in Block /\ w[1] \in Int /\ w[2] \in Int /\ w[2] \in 1..size(w[1])
    BY SiteFacts DEF TrackInv, TrackType
  <2>2. w[1] < b
    BY <2>1 DEF earlier
  <2>3. Ran(w[1])
    BY <1>1, <2>1, <2>2 DEF written
  <2>4. w[1] <= p
    BY <2>1, <2>3 DEF RunInv, RunPath
  <2>5. earlier(w, p, n)
    BY <1>1, <2>1, <2>4 DEF earlier
  <2> QED
    BY <1>3, <2>5
<1>6. remembers(l, p, n) /\ trace'[b][1] = trace[p][n]
  BY <1>1 DEF RunInv, RunMemory, end
<1> HIDE DEF n
<1>7. CASE /\ content(l, trace[p][n]) = content(l, init)
           /\ \A w \in Site : earlier(w, p, n) => ~written(l, w)
  <2>1. \A w \in Site : earlier(w, b, 1) => ~written(l, w)'
    BY <1>5, <1>7
  <2> QED
    BY <1>2, <1>6, <1>7, <2>1 DEF remembers
<1>8. CASE \E w \in Site : /\ earlier(w, p, n) /\ written(l, w)
                           /\ content(l, trace[p][n]) = wrote(l, trace[w[1]][w[2]], op(w))
                           /\ \A v \in Site : earlier(v, p, n) /\ written(l, v) => v = w \/ earlier(v, w[1], w[2])
  <2>1. PICK w \in Site : /\ earlier(w, p, n) /\ written(l, w)
                          /\ content(l, trace[p][n]) = wrote(l, trace[w[1]][w[2]], op(w))
                          /\ \A v \in Site : earlier(v, p, n) /\ written(l, v) => v = w \/ earlier(v, w[1], w[2])
    BY <1>8
  <2>2. /\ earlier(w, b, 1) /\ written(l, w)' /\ op(w)' = op(w)
        /\ trace'[w[1]][w[2]] = trace[w[1]][w[2]]
    BY <1>2, <1>3, <1>4, <2>1 DEF written
  <2>3. \A v \in Site : earlier(v, b, 1) /\ written(l, v)' => v = w \/ earlier(v, w[1], w[2])
    BY <1>5, <2>1
  <2>4. content(l, trace'[b][1]) = wrote(l, trace'[w[1]][w[2]], op(w)')
    BY <1>6, <2>1, <2>2
  <2> QED
    BY <1>2, <2>2, <2>3, <2>4 DEF remembers
<1> QED
  BY <1>6, <1>7, <1>8 DEF remembers

\* What the run has met it has met.
LEMMA MetFrame ==
  ASSUME RunInv, NEW e \in Expr, NEW v, met(e, v),
         \A c \in Block : \A i \in 1..Len(trace[c]) : trace'[c][i] = trace[c][i],
         \A c \in Block : Ran(c) => Ran(c)',
         \A c \in Block : Len(trace[c]) <= Len(trace'[c]) /\ Len(trace'[c]) \in Nat
  PROVE  met(e, v)'
<1>1. \A c \in Block : Len(trace[c]) \in Nat /\ (Ran(c) => Len(trace[c]) >= 1)
  <2> SUFFICES ASSUME NEW c \in Block PROVE Len(trace[c]) \in Nat /\ (Ran(c) => Len(trace[c]) >= 1)
    OBVIOUS
  <2>1. trace[c] \in Seq(Machine)
    BY DEF RunInv, RunType
  <2> QED
    BY <2>1, LenFacts DEF Ran
<1>2. CASE e.is = "num"
  BY <1>2 DEF met
<1>3. CASE e.is = "leaf"
  <2>1. e.b \in Block /\ e.i \in Nat
    BY <1>3 DEF Expr
  <2>2. Ran(e.b) /\ e.i + 1 <= Len(trace[e.b]) /\ trace[e.b][e.i + 1].reg = v
    BY <1>3 DEF met
  <2>3. e.i + 1 \in 1..Len(trace[e.b])
    BY <1>1, <2>1, <2>2
  <2>4. Ran(e.b)' /\ e.i + 1 <= Len(trace'[e.b]) /\ trace'[e.b][e.i + 1].reg = v
    BY <1>1, <2>1, <2>2, <2>3
  <2> QED
    BY <1>3, <2>4 DEF met
<1>4. CASE e.is = "phi"
  <2>1. e.b \in Block
    BY <1>4 DEF Expr
  <2>2. Ran(e.b) /\ trace[e.b][1].reg = v
    BY <1>4 DEF met
  <2>3. Ran(e.b)' /\ trace'[e.b][1].reg = v
    BY <1>1, <2>1, <2>2
  <2> QED
    BY <1>4, <2>3 DEF met
<1> QED
  BY <1>2, <1>3, <1>4 DEF Expr

\* The run starts.
LEMMA FeedStep ==
  ASSUME Ordered, TrackInv, RunInv, Feed
  PROVE  RunInv'
<1>1. /\ prog' = prog /\ blk' = blk /\ phase = "track" /\ phase' = "run" /\ cur' = cur
      /\ \A b \in Block : tracked(b)
  BY DEF Feed, trackVars
<1>3. init' \in Input
  <2>1. PICK mem \in Inits, fr \in SUBSET Block :
          init' = [cell |-> mem.cell, present |-> mem.present, value |-> mem.value, free |-> fr]
    BY DEF Feed
  <2>2. mem \in Memory
    BY InitsAssumption
  <2> QED
    BY <2>1, <2>2 DEF Memory, Input
<1>4. cur = 0 /\ 0 \in Block /\ \A b \in Block : trace[b] = << >>
  BY <1>1, NAssumption DEF RunInv, RunType, Ran, Block
<1> DEFINE m0 == [reg |-> 0, cell |-> init'.cell, present |-> init'.present, value |-> init'.value]
<1>5. m0 \in Machine
  BY <1>3, ValAssumption DEF Input, Machine
<1>6. trace' = [trace EXCEPT ![0] = <<m0>>] /\ trace \in [Block -> Seq(Machine)]
  BY DEF Feed, RunInv, RunType
<1>7. /\ trace' \in [Block -> Seq(Machine)] /\ trace'[0] = <<m0>>
      /\ \A b \in Block \ {0} : trace'[b] = << >>
  <2> HIDE DEF m0
  <2>1. <<m0>> \in Seq(Machine)
    BY <1>5
  <2> QED
    BY <1>4, <1>6, <2>1
<1>8. /\ Len(trace'[0]) = 1 /\ trace'[0][1] = m0 /\ Ran(0)'
      /\ \A b \in Block \ {0} : Len(trace'[b]) = 0 /\ ~Ran(b)'
  <2> HIDE DEF m0
  <2>1. <<m0>> # << >>
    OBVIOUS
  <2> QED
    BY <1>7, <2>1 DEF Ran
<1>16. \A b \in Block : Len(trace'[b]) = 1 \/ (Len(trace'[b]) = 0 /\ b # 0)
  BY ONLY <1>8
<1>17. /\ trace'[0][1].cell = init'.cell /\ trace'[0][1].present = init'.present
       /\ trace'[0][1].value = init'.value /\ trace'[0][1].reg = 0
  BY <1>8
<1> HIDE DEF m0
<1>9. \A b \in Block : size(b) \in Nat /\ size(b)' = size(b) /\ preds(b)' = preds(b)
  BY <1>1, ProgFacts, GraphFrame DEF TrackInv, TrackType
<1>10. RunType'
  <2>1. \A b \in Block : Len(trace'[b]) <= size(b)' + 1
    <3> SUFFICES ASSUME NEW b \in Block PROVE Len(trace'[b]) <= size(b) + 1
      BY <1>9
    <3>1. size(b) \in Nat
      BY <1>9
    <3>2. CASE Len(trace'[b]) = 1
      BY <3>1, <3>2
    <3>3. CASE Len(trace'[b]) = 0
      BY <3>1, <3>3
    <3> QED
      BY <1>16, <3>2, <3>3
  <2>2. cur' \in Block /\ Ran(0)' /\ Ran(cur)'
    BY <1>1, <1>4, <1>8
  <2> QED
    BY <1>1, <1>3, <1>7, <1>8, <2>1, <2>2 DEF RunType, m0
<1>11. RunPath'
  <2>1. live' = live /\ 0 \in live
    BY <1>1, LiveFacts, GraphFrame DEF TrackInv, TrackType
  <2>2. 0 <= cur' /\ ~(0 < cur') /\ \A c \in Block : ~(c < 0)
    BY <1>1, <1>4 DEF Block
  <2> QED
    BY <1>8, <2>1, <2>2 DEF RunPath
<1>12. RunSteps'
  <2> SUFFICES ASSUME NEW b \in Block, NEW i \in 1..size(b), i + 1 <= Len(trace'[b]) PROVE FALSE
    BY <1>9 DEF RunSteps
  <2>1. i \in Nat /\ i >= 1
    BY <1>9
  <2>2. CASE Len(trace'[b]) = 1
    BY <2>1, <2>2
  <2>3. CASE Len(trace'[b]) = 0
    BY <2>1, <2>3
  <2> QED
    BY <1>16, <2>2, <2>3
<1>13. \A b \in Block : \A i \in 1..Len(trace'[b]) : b = 0 /\ i = 1
  <2> SUFFICES ASSUME NEW b \in Block, NEW i \in 1..Len(trace'[b]) PROVE b = 0 /\ i = 1
    OBVIOUS
  <2>1. Len(trace'[b]) = 1
    BY <1>16
  <2>2. b = 0
    BY <1>8, <2>1
  <2> QED
    BY <2>1, <2>2
<1>14. RunSound'
  <2>1. blk[0].at[1] = Num(0)
    <3>1. started(0)
      <4>1. blk[0].at \in Seq(Expr) /\ Len(blk[0].at) = size(0) + 1 /\ size(0) \in Nat
        BY <1>1, <1>4, <1>9 DEF TrackInv, TrackType, Tracked, tracked
      <4> QED
        BY <4>1, LenFacts DEF started
    <3>2. merge_entry(0) = [at |-> <<blk[0].at[1]>>, groups |-> blk[0].groups]
      BY <1>4, <3>1 DEF TrackInv, TrackJoins
    <3>3. merge_entry(0).at = <<Num(0)>> /\ merge_entry(0).at = <<blk[0].at[1]>>
      BY <3>2 DEF merge_entry
    <3> QED
      BY <3>3
  <2>2. blk'[0].at[1].is = "num" /\ blk'[0].at[1].v = trace'[0][1].reg
    BY <1>1, <1>17, <2>1 DEF Num
  <2>3. met(blk[0].at[1], trace[0][1].reg)'
    BY <2>2 DEF met
  <2> QED
    BY <1>13, <2>3 DEF RunSound
<1>15. RunMemory'
  <2> SUFFICES ASSUME NEW l \in Loc PROVE remembers(l, 0, 1)'
    BY <1>13 DEF RunMemory
  <2>1. content(l, trace'[0][1]) = content(l, init')
    BY <1>17 DEF content
  <2>2. \A w \in Site' : ~earlier(w, 0, 1)
    <3>1. Site' = Site
      BY <1>1, GraphFrame
    <3> SUFFICES ASSUME NEW w \in Site PROVE ~earlier(w, 0, 1)
      BY <3>1
    <3>2. w[1] \in Block /\ w[2] \in 1..size(w[1]) /\ size(w[1]) \in Nat
      BY <1>9, SiteFacts DEF TrackInv, TrackType
    <3> QED
      BY <3>2 DEF earlier, Block
  <2> QED
    BY <2>1, <2>2 DEF remembers
<1> QED
  BY <1>10, <1>11, <1>12, <1>14, <1>15 DEF RunInv

\* Both steps of the run only add to the trace.
LEMMA RunGrow ==
  ASSUME TrackInv, RunInv, phase = "run"
  PROVE  /\ prog \in Programs /\ cur \in Block /\ cur \in Int /\ Ran(cur) /\ size(cur) \in Nat
         /\ trace[cur] \in Seq(Machine) /\ Len(trace[cur]) \in Nat /\ Len(trace[cur]) >= 1
         /\ Len(trace[cur]) <= size(cur) + 1 /\ init \in Input /\ trace \in [Block -> Seq(Machine)]
         /\ \A c \in Block : /\ Len(trace[c]) \in Nat /\ (Ran(c) <=> Len(trace[c]) >= 1)
                             /\ size(c) \in Nat /\ c \in Int /\ Len(trace[c]) <= size(c) + 1
         /\ \A c \in Block : tracked(c) /\ Len(blk[c].at) = size(c) + 1 /\ blk[c].at \in Seq(Expr)
         /\ \A c \in Block : \A i \in 1..Len(trace[c]) : trace[c][i] \in Machine /\ i \in 1..Len(blk[c].at) /\ blk[c].at[i] \in Expr
<1>1. /\ prog \in Programs /\ cur \in Block /\ Ran(cur) /\ init \in Input /\ trace \in [Block -> Seq(Machine)]
      /\ \A c \in Block : Len(trace[c]) <= size(c) + 1
      /\ \A c \in Block : tracked(c) /\ blk[c].at \in Seq(Expr)
  BY DEF TrackInv, TrackType, RunInv, RunType, Tracked
<1>2. \A c \in Block : Len(trace[c]) \in Nat /\ (Ran(c) <=> Len(trace[c]) >= 1)
  BY <1>1, LenFacts DEF Ran
<1>3. \A c \in Block : size(c) \in Nat /\ c \in Int
  BY <1>1, ProgFacts
<1>4. ASSUME NEW c \in Block, NEW i \in 1..Len(trace[c])
      PROVE  trace[c][i] \in Machine /\ i \in 1..Len(blk[c].at) /\ blk[c].at[i] \in Expr
  <2>1. trace[c][i] \in Machine
    BY <1>1, LenFacts
  <2>2. Len(blk[c].at) = size(c) + 1 /\ Len(trace[c]) <= size(c) + 1
    BY <1>1 DEF tracked
  <2>3. i \in 1..Len(blk[c].at)
    BY <1>2, <1>3, <2>2
  <2> QED
    BY <1>1, <2>1, <2>3, LenFacts
<1>5. \A c \in Block : Len(blk[c].at) = size(c) + 1
  BY <1>1 DEF tracked
<1> QED
  BY <1>1, <1>2, <1>3, <1>4, <1>5

\* One instruction: its expression is met with the value the machine gets.
LEMMA RunOpStep ==
  ASSUME Ordered, TrackInv, RunInv, RunOp
  PROVE  RunInv'
<1>1. /\ prog' = prog /\ blk' = blk /\ init' = init /\ cur' = cur /\ phase = "run" /\ phase' = "run"
      /\ Len(trace[cur]) <= size(cur)
      /\ trace' = [trace EXCEPT ![cur] = Append(@, exec(@[Len(trace[cur])], prog.ops[cur][Len(trace[cur])]))]
  BY DEF RunOp, trackVars
<1>2. PICK b : b = cur
  OBVIOUS
<1>3. PICK n : n = Len(trace[b])
  OBVIOUS
<1>4. PICK mc : mc = trace[b][n]
  OBVIOUS
<1>5. PICK o : o = prog.ops[b][n]
  OBVIOUS
<1>6. /\ b \in Block /\ b \in Int /\ Ran(b) /\ size(b) \in Nat /\ n \in Nat /\ n >= 1 /\ n <= size(b)
      /\ trace[b] \in Seq(Machine) /\ mc \in Machine /\ o \in Op
  <2>1. /\ b \in Block /\ b \in Int /\ Ran(b) /\ size(b) \in Nat /\ n \in Nat /\ n >= 1 /\ n <= size(b)
        /\ trace[b] \in Seq(Machine) /\ prog \in Programs
    BY <1>1, <1>2, <1>3, RunGrow
  <2>2. mc \in Machine
    BY <1>3, <1>4, <2>1, LenFacts
  <2>3. o \in Op
    BY <1>5, <2>1, ProgFacts
  <2> QED
    BY <2>1, <2>2, <2>3
<1>7. PICK x : x = exec(mc, o)
  OBVIOUS
<1>8. x \in Machine
  BY <1>6, <1>7, ExecFacts
<1>9. /\ Append(trace[b], x) \in Seq(Machine) /\ Len(Append(trace[b], x)) = n + 1
      /\ \A i \in 1..n : Append(trace[b], x)[i] = trace[b][i]
      /\ Append(trace[b], x)[n + 1] = x /\ Append(trace[b], x) # << >>
  BY <1>3, <1>6, <1>8, AppendFacts
<1>10. /\ trace' \in [Block -> Seq(Machine)] /\ trace'[b] = Append(trace[b], x)
       /\ \A c \in Block \ {b} : trace'[c] = trace[c]
  <2>1. trace' = [trace EXCEPT ![b] = Append(trace[b], x)]
    BY <1>1, <1>2, <1>3, <1>4, <1>5, <1>7
  <2>2. trace \in [Block -> Seq(Machine)]
    BY <1>1, RunGrow
  <2> QED
    BY <1>6, <1>9, <2>1, <2>2
<1>11. /\ \A c \in Block : c < cur => trace'[c] = trace[c]
       /\ \A c \in Block : \A i \in 1..Len(trace[c]) : trace'[c][i] = trace[c][i]
       /\ \A c \in Block : (Ran(c)' <=> Ran(c))
       /\ \A c \in Block : Len(trace[c]) <= Len(trace'[c]) /\ Len(trace'[c]) \in Nat
  <2>1. \A c \in Block : c < cur => c # b
    BY <1>2, <1>6 DEF Block
  <2>2. \A c \in Block : Len(trace[c]) \in Nat
    BY <1>1, RunGrow
  <2>3. trace'[b] # << >> /\ trace[b] # << >>
    BY <1>6, <1>9, <1>10 DEF Ran
  <2>4. ASSUME NEW c \in Block
        PROVE  /\ \A i \in 1..Len(trace[c]) : trace'[c][i] = trace[c][i]
               /\ Ran(c)' <=> Ran(c)
               /\ Len(trace[c]) <= Len(trace'[c]) /\ Len(trace'[c]) \in Nat
    <3>1. CASE c = b
      <4>1. \A i \in 1..Len(trace[c]) : trace'[c][i] = trace[c][i]
        BY <1>3, <1>9, <1>10, <3>1
      <4>2. Ran(c)' <=> Ran(c)
        BY <2>3, <3>1 DEF Ran
      <4>3. Len(trace[c]) = n /\ Len(trace'[c]) = n + 1
        BY <1>3, <1>9, <1>10, <3>1
      <4> QED
        BY <1>6, <4>1, <4>2, <4>3
    <3>2. CASE c # b
      <4>1. trace'[c] = trace[c]
        BY <1>10, <3>2
      <4> QED
        BY <2>2, <4>1 DEF Ran
    <3> QED
      BY <3>1, <3>2
  <2> QED
    BY <1>10, <2>1, <2>4
<1>12. \A c \in Block : size(c)' = size(c) /\ size(c) \in Nat /\ c \in Int
  BY <1>1, GraphFrame, RunGrow
<1>13. RunType'
  <2>1. \A c \in Block : Len(trace'[c]) <= size(c)' + 1
    <3> SUFFICES ASSUME NEW c \in Block PROVE Len(trace'[c]) <= size(c) + 1
      BY <1>12
    <3>1. CASE c = b
      BY <1>6, <1>9, <1>10, <3>1
    <3>2. CASE c # b
      BY <1>10, <3>2 DEF RunInv, RunType
    <3> QED
      BY <3>1, <3>2
  <2>2. 0 \in Block /\ Ran(0) /\ Ran(cur) /\ cur \in Block /\ init \in Input
    BY <1>1, NAssumption DEF RunInv, RunType, Block
  <2>3. trace'[0][1] = trace[0][1]
    <3>1. 1 \in 1..Len(trace[0])
      BY <1>1, <2>2, RunGrow
    <3> QED
      BY <1>11, <2>2, <3>1
  <2>4. trace[0][1] = [reg |-> 0, cell |-> init.cell, present |-> init.present, value |-> init.value]
    BY <1>1 DEF RunInv, RunType
  <2> QED
    BY <1>1, <1>10, <1>11, <2>1, <2>2, <2>3, <2>4 DEF RunType
<1>14. \A c \in Block : c < cur => goes(c)' = goes(c) /\ end(c)' = end(c) /\ (complete(c)' <=> complete(c))
  BY <1>1, <1>11, GoesFrame
<1>15. RunPath'
  <2> SUFFICES ASSUME NEW c \in Block, Ran(c)'
               PROVE  /\ c <= cur /\ c \in live'
                      /\ c < cur => /\ complete(c)' /\ c \notin exits'
                                    /\ Ran(goes(c))' /\ trace'[goes(c)'][1] = end(c)'
                                    /\ \A d \in Block : Ran(d)' => d <= c \/ goes(c)' <= d
                      /\ c # 0 => \E p \in Block : p < c /\ Ran(p)' /\ goes(p)' = c
                      /\ \A d \in Block : Ran(d)' /\ d < c => d \in before(preds(c))'
    BY <1>1 DEF RunPath
  <2>1. Ran(c) /\ c <= cur /\ c \in live
    BY <1>11 DEF RunInv, RunPath
  <2>2. live' = live /\ exits' = exits /\ before(preds(c))' = before(preds(c))
    BY <1>1, GraphFrame
  <2>3. ASSUME c < cur
        PROVE  /\ complete(c)' /\ c \notin exits'
               /\ Ran(goes(c))' /\ trace'[goes(c)'][1] = end(c)'
               /\ \A d \in Block : Ran(d)' => d <= c \/ goes(c)' <= d
    <3>1. /\ complete(c) /\ c \notin exits /\ Ran(goes(c)) /\ trace[goes(c)][1] = end(c)
          /\ \A d \in Block : Ran(d) => d <= c \/ goes(c) <= d
      BY <2>1, <2>3 DEF RunInv, RunPath
    <3>2. PICK g : g = goes(c)
      OBVIOUS
    <3>3. g \in Block
      BY <1>1, <3>1, <3>2, GoesFacts DEF TrackInv, TrackType
    <3>4. goes(c)' = g /\ end(c)' = end(c) /\ complete(c)'
      BY <1>14, <2>3, <3>1, <3>2
    <3>5. Ran(g) /\ Ran(g)' /\ trace'[g][1] = trace[g][1]
      <4>1. Ran(g) /\ 1 \in 1..Len(trace[g])
        BY <1>1, <3>1, <3>2, <3>3, RunGrow
      <4> QED
        BY <1>11, <3>3, <4>1
    <3>6. Ran(goes(c))'
      BY <3>4, <3>5 DEF Ran
    <3> QED
      BY <1>11, <2>2, <3>1, <3>2, <3>4, <3>5, <3>6
  <2>4. c # 0 => \E p \in Block : p < c /\ Ran(p)' /\ goes(p)' = c
    <3> SUFFICES ASSUME c # 0 PROVE \E p \in Block : p < c /\ Ran(p)' /\ goes(p)' = c
      OBVIOUS
    <3>1. PICK p \in Block : p < c /\ Ran(p) /\ goes(p) = c
      BY <2>1 DEF RunInv, RunPath
    <3>2. p < cur
      BY <1>2, <1>6, <1>12, <2>1, <3>1
    <3> QED
      BY <1>11, <1>14, <3>1, <3>2
  <2>5. \A d \in Block : Ran(d)' /\ d < c => d \in before(preds(c))'
    BY <1>11, <2>1, <2>2 DEF RunInv, RunPath
  <2> QED
    BY <2>1, <2>2, <2>3, <2>4, <2>5
<1>16. RunSteps'
  <2> SUFFICES ASSUME NEW c \in Block, NEW i \in 1..size(c), i + 1 <= Len(trace'[c])
               PROVE  trace'[c][i + 1] = exec(trace'[c][i], prog.ops[c][i])
    BY <1>1, <1>12 DEF RunSteps
  <2>1. CASE c # b
    BY <1>10, <2>1 DEF RunInv, RunSteps
  <2>2. CASE c = b /\ i < n
    <3>1. i + 1 \in 1..n /\ i \in 1..n /\ i \in 1..size(b) /\ i + 1 <= Len(trace[b])
      BY <1>3, <1>6, <2>2
    <3>2. trace[b][i + 1] = exec(trace[b][i], prog.ops[b][i])
      BY <1>6, <3>1 DEF RunInv, RunSteps
    <3> QED
      BY <1>9, <1>10, <2>2, <3>1, <3>2
  <2>3. CASE c = b /\ i = n
    <3>1. trace'[b][n + 1] = x /\ trace'[b][n] = mc
      BY <1>4, <1>6, <1>9, <1>10
    <3> QED
      BY <1>5, <1>7, <2>3, <3>1
  <2>4. i <= n \/ c # b
    BY <1>6, <1>9, <1>10
  <2> QED
    BY <1>6, <2>1, <2>2, <2>3, <2>4
<1>17. ASSUME NEW c \in Block, NEW i \in 1..Len(trace'[c])
       PROVE  i \in 1..Len(trace[c]) \/ (c = b /\ i = n + 1)
  <2>1. CASE c # b
    BY <1>10, <2>1
  <2>2. CASE c = b
    BY <1>3, <1>6, <1>9, <1>10, <2>2
  <2> QED
    BY <2>1, <2>2
<1>18. RunSound'
  <2> SUFFICES ASSUME NEW c \in Block, NEW i \in 1..Len(trace'[c]),
                      NEW e, e = blk[c].at[i], NEW v, v = trace'[c][i].reg
               PROVE  met(e, v)'
    BY <1>1 DEF RunSound
  <2>1. CASE i \in 1..Len(trace[c])
    <3>1. met(e, v)
      BY <1>11, <2>1 DEF RunInv, RunSound
    <3>2. e \in Expr
      BY <1>1, <2>1, RunGrow
    <3> QED
      BY <1>11, <3>1, <3>2, MetFrame
  <2>2. CASE c = b /\ i = n + 1
    <3>1. v = x.reg
      BY <1>9, <1>10, <2>2
    <3>2. PICK d : d = blk[b].at[n]
      OBVIOUS
    <3>3. d \in Expr /\ met(d, mc.reg)
      <4>1. n \in 1..Len(trace[b])
        BY <1>3, <1>6
      <4> QED
        BY <1>1, <1>4, <1>6, <3>2, <4>1, RunGrow DEF RunInv, RunSound
    <3>4. e = track_op(o, d, b, n)
      <4>1. n \in 1..size(b) /\ n + 1 <= Len(blk[b].at)
        BY <1>1, <1>6, RunGrow
      <4> QED
        BY <1>5, <1>6, <2>2, <3>2, <4>1 DEF TrackInv, TrackSteps
    <3>5. CASE o.op = "set"
      <4>1. e = Num(o.v) /\ x.reg = o.v
        BY <1>6, <1>7, <3>3, <3>4, <3>5, TrackOpFacts, ExecFacts
      <4>2. e.is = "num" /\ e.v = v
        BY <3>1, <4>1 DEF Num
      <4> QED
        BY <4>2 DEF met
    <3>6. CASE is_source(o)
      <4>1. e.is = "leaf" /\ e.b = b /\ e.i = n
        BY <1>6, <3>3, <3>4, <3>6, TrackOpFacts
      <4>2. Ran(b)' /\ n + 1 <= Len(trace'[b]) /\ trace'[b][n + 1].reg = v
        BY <1>6, <1>9, <1>10, <1>11, <3>1
      <4> QED
        BY <4>1, <4>2 DEF met
    <3>7. CASE is_write(o)
      <4>1. e = d /\ x.reg = mc.reg
        BY <1>6, <1>7, <3>3, <3>4, <3>7, TrackOpFacts, ExecFacts
      <4>2. met(e, v)
        BY <3>1, <3>3, <4>1
      <4> QED
        BY <1>11, <3>3, <4>1, <4>2, MetFrame
    <3> QED
      BY <1>6, <3>5, <3>6, <3>7, ExecFacts
  <2> QED
    BY <1>17, <2>1, <2>2
<1>19. RunMemory'
  <2> SUFFICES ASSUME NEW c \in Block, NEW i \in 1..Len(trace'[c]), NEW l \in Loc
               PROVE  remembers(l, c, i)'
    BY DEF RunMemory
  <2>1. CASE i \in 1..Len(trace[c])
    BY <1>1, <1>11, <2>1, RemembersFrame
  <2>2. CASE c = b /\ i = n + 1
    <3>1. /\ n \in 1..Len(trace[cur]) /\ n <= size(cur)
          /\ trace'[cur][n + 1] = exec(trace[cur][n], prog.ops[cur][n])
      BY <1>2, <1>3, <1>4, <1>5, <1>6, <1>7, <1>9, <1>10
    <3>2. remembers(l, b, n + 1)'
      BY <1>1, <1>2, <1>11, <3>1, RemembersOp
    <3> QED
      BY <2>2, <3>2
  <2> QED
    BY <1>17, <2>1, <2>2
<1> QED
  BY <1>13, <1>15, <1>16, <1>18, <1>19 DEF RunInv

\* The run, once it has started, keeps what it knows while it stands still.
LEMMA RunFrame ==
  ASSUME RunInv, prog' = prog, blk' = blk, init' = init, cur' = cur, trace' = trace
  PROVE  RunPath' /\ RunSteps' /\ RunSound' /\ RunMemory'
<1>1. /\ live' = live /\ exits' = exits /\ Site' = Site
      /\ \A b \in Block : /\ size(b)' = size(b) /\ before(preds(b))' = before(preds(b))
                          /\ goes(b)' = goes(b) /\ end(b)' = end(b)
                          /\ (complete(b)' <=> complete(b)) /\ (Ran(b)' <=> Ran(b))
  BY GraphFrame, GoesFrame DEF Ran
<1>2. RunPath'
  <2> SUFFICES ASSUME NEW b \in Block, Ran(b)
               PROVE  /\ b <= cur /\ b \in live
                      /\ b < cur => /\ complete(b) /\ b \notin exits
                                    /\ Ran(goes(b))' /\ trace[goes(b)][1] = end(b)
                                    /\ \A c \in Block : Ran(c) => c <= b \/ goes(b) <= c
                      /\ b # 0 => \E p \in Block : p < b /\ Ran(p) /\ goes(p) = b
                      /\ \A c \in Block : Ran(c) /\ c < b => c \in before(preds(b))
    BY <1>1 DEF RunPath
  <2>1. b < cur => Ran(goes(b))'
    BY <1>1 DEF RunInv, RunPath, Ran
  <2> QED
    BY <2>1 DEF RunInv, RunPath
<1>3. RunSteps'
  BY <1>1 DEF RunInv, RunSteps
<1>4. RunSound'
  BY DEF RunInv, RunSound, met, Ran
<1>5. RunMemory'
  BY <1>1 DEF RunInv, RunMemory, remembers, written, Ran, op
<1> QED
  BY <1>2, <1>3, <1>4, <1>5

\* While the program is tracked nothing has run.
LEMMA RunIdle ==
  ASSUME RunInv, phase = "track", phase' = "track", prog \in Programs, prog' = prog, UNCHANGED runVars
  PROVE  RunInv'
<1>1. cur' = cur /\ trace' = trace /\ cur = 0 /\ \A b \in Block : trace[b] = << >>
  BY DEF RunInv, RunType, runVars, Ran
<1>2. \A b \in Block : Len(trace'[b]) = 0 /\ ~Ran(b)' /\ size(b)' = size(b) /\ size(b) \in Nat
  BY <1>1, GraphFrame, ProgFacts DEF Ran
<1>3. RunType'
  <2>1. trace' \in [Block -> Seq(Machine)] /\ cur' \in Block /\ cur' = 0
    BY <1>1 DEF RunInv, RunType
  <2>2. \A b \in Block : Len(trace'[b]) <= size(b)' + 1
    BY <1>2
  <2> QED
    BY <1>2, <2>1, <2>2 DEF RunType
<1>4. RunPath'
  BY <1>2 DEF RunPath
<1>5. RunSteps'
  <2> SUFFICES ASSUME NEW b \in Block, NEW i \in 1..size(b), i + 1 <= Len(trace'[b]) PROVE FALSE
    BY <1>2 DEF RunSteps
  <2> QED
    BY <1>2
<1>6. \A b \in Block : 1..Len(trace'[b]) = {}
  BY <1>2
<1>7. RunSound' /\ RunMemory'
  BY <1>6 DEF RunSound, RunMemory
<1> QED
  BY <1>3, <1>4, <1>5, <1>7 DEF RunInv

\* Once it has stopped it stays where it stopped.
LEMMA RunStopped ==
  ASSUME RunInv, phase \in {"slice", "walk", "done"}, phase' \in {"slice", "walk", "done"},
         prog \in Programs, UNCHANGED trackVars, UNCHANGED runVars
  PROVE  RunInv'
<1>1. prog' = prog /\ blk' = blk /\ init' = init /\ cur' = cur /\ trace' = trace
  BY DEF trackVars, runVars
<1>2. exits' = exits /\ \A b \in Block : size(b)' = size(b)
  BY <1>1, GraphFrame
<1>3. RunType'
  BY <1>1, <1>2 DEF RunInv, RunType, complete, Ran
<1> QED
  BY <1>1, <1>3, RunFrame DEF RunInv

\* The run leaves a block: it stops, or enters the next one with the value that
\* the merge of the expressions has there.
LEMMA RunEdgeStep ==
  ASSUME Ordered, TrackInv, RunInv, RunEdge
  PROVE  RunInv'
<1>1. /\ prog' = prog /\ blk' = blk /\ init' = init /\ phase = "run"
      /\ Len(trace[cur]) > size(cur)
  BY DEF RunEdge, trackVars
<1>2. /\ prog \in Programs /\ cur \in Block /\ cur \in Int /\ Ran(cur) /\ size(cur) \in Nat
      /\ Len(trace[cur]) \in Nat /\ Len(trace[cur]) <= size(cur) + 1 /\ init \in Input
      /\ trace \in [Block -> Seq(Machine)]
  BY <1>1, RunGrow
<1>3. complete(cur)
  BY <1>1, <1>2 DEF complete
<1>4. CASE cur \in exits /\ phase' = "slice" /\ cur' = cur /\ trace' = trace
  <2>1. exits' = exits /\ \A b \in Block : size(b)' = size(b)
    BY <1>1, GraphFrame
  <2>2. RunType'
    BY <1>1, <1>3, <1>4, <2>1 DEF RunInv, RunType, complete, Ran
  <2> QED
    BY <1>1, <1>4, <2>2, RunFrame DEF RunInv
<1>5. CASE /\ cur \notin exits /\ cur' = goes(cur) /\ phase' = phase
           /\ trace' = [trace EXCEPT ![goes(cur)] = <<end(cur)>>]
  <2>1. PICK p : p = cur
    OBVIOUS
  <2>2. PICK b : b = goes(p)
    OBVIOUS
  <2>3. PICK x : x = end(p)
    OBVIOUS
  <2>4. /\ p \in Block /\ p \in Int /\ b \in Block /\ b \in Int /\ p < b /\ b \in successors(p)
        /\ p \in preds(b) /\ b # 0 /\ p \notin exits /\ complete(p) /\ Ran(p) /\ cur' = b
    <3>1. /\ p \in Block /\ b \in Block /\ p < b /\ b \in successors(p) /\ p \in preds(b)
          /\ p \notin exits /\ complete(p) /\ Ran(p) /\ cur' = b
      BY <1>2, <1>3, <1>5, <2>1, <2>2, GoesFacts
    <3> QED
      BY <3>1 DEF Block
  <2>5. x \in Machine /\ size(p) + 1 \in 1..Len(trace[p]) /\ x = trace[p][size(p) + 1]
    <3>1. size(p) + 1 \in 1..Len(trace[p])
      BY <1>2, <2>1, <2>4 DEF complete
    <3> QED
      BY <1>1, <2>3, <2>4, <3>1, RunGrow DEF end
  <2>6. /\ trace' \in [Block -> Seq(Machine)] /\ trace'[b] = <<x>>
        /\ \A c \in Block \ {b} : trace'[c] = trace[c]
    <3>1. trace' = [trace EXCEPT ![b] = <<x>>]
      BY <1>5, <2>1, <2>2, <2>3
    <3>2. <<x>> \in Seq(Machine)
      BY <2>5
    <3> QED
      BY <1>2, <2>4, <3>1, <3>2
  <2>7. Len(trace'[b]) = 1 /\ trace'[b][1] = x /\ Ran(b)'
    <3>1. Len(<<x>>) = 1 /\ <<x>>[1] = x /\ <<x>> # << >>
      OBVIOUS
    <3> QED
      BY <2>6, <3>1 DEF Ran
  <2>8. ~Ran(b) /\ Len(trace[b]) = 0
    <3>1. ~Ran(b)
      BY <2>1, <2>4 DEF RunInv, RunPath
    <3>2. Len(trace[b]) \in Nat /\ (Ran(b) <=> Len(trace[b]) >= 1)
      BY <1>1, <2>4, RunGrow
    <3> QED
      BY <3>1, <3>2
  <2>9. \A c \in Block : Len(trace[c]) \in Nat /\ size(c)' = size(c) /\ size(c) \in Nat /\ c \in Int
    BY <1>1, RunGrow, GraphFrame
  <2>10. ASSUME NEW c \in Block
         PROVE  /\ c < cur => trace'[c] = trace[c]
                /\ \A i \in 1..Len(trace[c]) : trace'[c][i] = trace[c][i]
                /\ Ran(c)' <=> Ran(c) \/ c = b
                /\ Len(trace[c]) <= Len(trace'[c]) /\ Len(trace'[c]) \in Nat
    <3>1. CASE c = b
      <4>1. \A i \in 1..Len(trace[c]) : FALSE
        BY <2>8, <3>1
      <4>2. ~(c < cur)
        BY <2>1, <2>4, <3>1
      <4> QED
        BY <2>7, <2>8, <3>1, <4>1, <4>2
    <3>2. CASE c # b
      <4>1. trace'[c] = trace[c]
        BY <2>6, <3>2
      <4> QED
        BY <2>9, <3>2, <4>1 DEF Ran
    <3> QED
      BY <3>1, <3>2
  <2>11. RunType'
    <3>1. \A c \in Block : Len(trace'[c]) <= size(c)' + 1
      <4> SUFFICES ASSUME NEW c \in Block PROVE Len(trace'[c]) <= size(c) + 1
        BY <2>9
      <4>1. CASE c = b
        <5>1. Len(trace'[c]) = 1 /\ size(c) \in Nat
          BY <2>7, <2>9, <4>1
        <5> QED
          BY ONLY <5>1
      <4>2. CASE c # b
        BY <2>6, <4>2 DEF RunInv, RunType
      <4> QED
        BY <4>1, <4>2
    <3>2. 0 \in Block /\ Ran(0) /\ 0 # b
      BY <1>1, <2>4, NAssumption DEF RunInv, RunType, Block
    <3>3. trace'[0] = trace[0] /\ Ran(0)'
      BY <2>6, <2>10, <3>2
    <3>4. trace[0][1] = [reg |-> 0, cell |-> init.cell, present |-> init.present, value |-> init.value]
      BY <1>1 DEF RunInv, RunType
    <3>5. Ran(cur)'
      BY <2>4, <2>7 DEF Ran
    <3> QED
      BY <1>1, <1>2, <1>5, <2>4, <2>6, <3>1, <3>3, <3>4, <3>5 DEF RunType
  <2>12. \A c \in Block : Ran(c) => c <= p
    BY <2>1 DEF RunInv, RunPath
  <2>13. \A c \in Block : c # b => goes(c)' = goes(c) /\ end(c)' = end(c) /\ (complete(c)' <=> complete(c))
    BY <1>1, <2>6, GoesFrame
  <2>14. RunPath'
    <3> SUFFICES ASSUME NEW c \in Block, Ran(c)'
                 PROVE  /\ c <= b /\ c \in live'
                        /\ c < b => /\ complete(c)' /\ c \notin exits'
                                    /\ Ran(goes(c))' /\ trace'[goes(c)'][1] = end(c)'
                                    /\ \A d \in Block : Ran(d)' => d <= c \/ goes(c)' <= d
                        /\ c # 0 => \E q \in Block : q < c /\ Ran(q)' /\ goes(q)' = c
                        /\ \A d \in Block : Ran(d)' /\ d < c => d \in before(preds(c))'
      BY <2>4 DEF RunPath
    <3>1. live' = live /\ exits' = exits /\ before(preds(c))' = before(preds(c))
      BY <1>1, GraphFrame
    <3>2. c = b \/ (c # b /\ Ran(c) /\ c <= p)
      BY <2>10, <2>12
    <3>3. c <= b
      BY <2>4, <2>9, <3>2
    <3>4. c \in live
      <4>1. p \in live
        BY <2>4 DEF RunInv, RunPath
      <4>2. b \in live
        BY <1>2, <2>4, <4>1, LiveFacts
      <4>3. Ran(c) => c \in live
        BY DEF RunInv, RunPath
      <4> QED
        BY <3>2, <4>2, <4>3
    <3>5. ASSUME c < b
          PROVE  /\ complete(c)' /\ c \notin exits
                 /\ Ran(goes(c))' /\ trace'[goes(c)'][1] = end(c)'
                 /\ \A d \in Block : Ran(d)' => d <= c \/ goes(c)' <= d
      <4>1. c # b /\ Ran(c) /\ c <= p
        BY <2>4, <2>9, <3>2, <3>5
      <4>2. goes(c)' = goes(c) /\ end(c)' = end(c) /\ (complete(c)' <=> complete(c))
        BY <2>13, <4>1
      <4>3. CASE c = p
        <5>1. goes(c)' = b /\ end(c)' = x /\ complete(c)'
          BY <2>2, <2>3, <2>4, <4>2, <4>3
        <5>2. Ran(goes(c))'
          BY <2>7, <5>1 DEF Ran
        <5>3. \A d \in Block : Ran(d)' => d <= c \/ b <= d
          BY <2>4, <2>9, <2>10, <2>12, <4>3
        <5> QED
          BY <2>4, <2>7, <4>3, <5>1, <5>2, <5>3
      <4>4. CASE c # p
        <5>0. c < cur
          BY <2>1, <2>4, <2>9, <4>1, <4>4
        <5>1. /\ complete(c) /\ c \notin exits /\ Ran(goes(c)) /\ trace[goes(c)][1] = end(c)
              /\ \A d \in Block : Ran(d) => d <= c \/ goes(c) <= d
          BY <4>1, <5>0 DEF RunInv, RunPath
        <5>2. PICK g : g = goes(c)
          OBVIOUS
        <5>3. g \in Block /\ Ran(g) /\ g <= p /\ g # b
          <6>1. g \in Block /\ Ran(g)
            BY <1>2, <5>1, <5>2, GoesFacts
          <6> QED
            BY <2>8, <2>12, <6>1
        <5>4. trace'[g] = trace[g] /\ Ran(g)'
          BY <2>6, <2>10, <5>3
        <5>5. Ran(goes(c))'
          BY <4>2, <5>2, <5>4 DEF Ran
        <5>6. \A d \in Block : Ran(d)' => d <= c \/ g <= d
          <6> SUFFICES ASSUME NEW d \in Block, Ran(d)' PROVE d <= c \/ g <= d
            OBVIOUS
          <6>1. CASE Ran(d)
            BY <5>1, <5>2, <6>1
          <6>2. CASE d = b
            BY <2>4, <2>9, <5>3, <6>2
          <6> QED
            BY <2>10, <6>1, <6>2
        <5> QED
          BY <4>2, <5>1, <5>2, <5>4, <5>5, <5>6
      <4> QED
        BY <4>3, <4>4
    <3>6. ASSUME c # 0 PROVE \E q \in Block : q < c /\ Ran(q)' /\ goes(q)' = c
      <4>1. CASE c = b
        <5>1. p # b
          BY <2>4
        <5>2. goes(p)' = b /\ Ran(p)'
          BY <2>2, <2>4, <2>10, <2>13, <5>1
        <5> QED
          BY <2>4, <4>1, <5>2
      <4>2. CASE Ran(c)
        <5>1. PICK q \in Block : q < c /\ Ran(q) /\ goes(q) = c
          BY <3>6, <4>2 DEF RunInv, RunPath
        <5>2. q # b
          BY <2>8, <5>1
        <5> QED
          BY <2>10, <2>13, <5>1, <5>2
      <4> QED
        BY <3>2, <4>1, <4>2
    <3>7. ASSUME NEW d \in Block, Ran(d)', d < c PROVE d \in before(preds(c))
      <4>1. Ran(d)
        BY <2>4, <2>8, <2>9, <2>10, <2>12, <3>3, <3>7
      <4>2. CASE c = b
        <5>1. preds(b) \in SUBSET Block
          BY DEF preds
        <5>2. p \in before(preds(b))
          BY <2>4, <5>1, BeforeFacts
        <5>3. CASE d = p
          BY <4>2, <5>2, <5>3
        <5>4. CASE d # p
          <6>1. d < p
            BY <2>4, <2>9, <2>12, <4>1, <5>4
          <6>2. d \in before(preds(p))
            BY <2>4, <4>1, <6>1 DEF RunInv, RunPath
          <6> QED
            BY <4>2, <5>1, <5>2, <6>2, BeforeTrans
        <5> QED
          BY <5>3, <5>4
      <4>3. CASE Ran(c)
        BY <3>7, <4>1, <4>3 DEF RunInv, RunPath
      <4> QED
        BY <3>2, <4>2, <4>3
    <3> QED
      BY <3>1, <3>3, <3>4, <3>5, <3>6, <3>7
  <2>15. RunSteps'
    <3> SUFFICES ASSUME NEW c \in Block, NEW i \in 1..size(c), i + 1 <= Len(trace'[c])
                 PROVE  trace'[c][i + 1] = exec(trace'[c][i], prog.ops[c][i])
      BY <1>1, <2>9 DEF RunSteps
    <3>1. CASE c # b
      BY <2>6, <3>1 DEF RunInv, RunSteps
    <3>2. CASE c = b
      BY <2>7, <2>9, <3>2
    <3> QED
      BY <3>1, <3>2
  <2>16. ASSUME NEW c \in Block, NEW i \in 1..Len(trace'[c])
         PROVE  i \in 1..Len(trace[c]) \/ (c = b /\ i = 1)
    <3>1. CASE c # b
      BY <2>6, <3>1
    <3>2. CASE c = b
      <4>1. Len(trace'[c]) = 1
        BY <2>7, <3>2
      <4>2. i \in 1..1
        BY <4>1
      <4> QED
        BY ONLY <3>2, <4>2
    <3> QED
      BY <3>1, <3>2
  <2>17. RunSound'
    <3> SUFFICES ASSUME NEW c \in Block, NEW i \in 1..Len(trace'[c]),
                        NEW e, e = blk[c].at[i], NEW v, v = trace'[c][i].reg
                 PROVE  met(e, v)'
      BY <1>1 DEF RunSound
    <3>1. CASE i \in 1..Len(trace[c])
      <4>1. met(e, v)
        BY <2>10, <3>1 DEF RunInv, RunSound
      <4>2. e \in Expr
        BY <1>1, <3>1, RunGrow
      <4> QED
        BY <2>10, <4>1, <4>2, MetFrame
    <3>2. CASE c = b /\ i = 1
      <4>1. v = x.reg
        BY <2>7, <3>2
      <4>2. started(b)
        <5>1. blk[b].at \in Seq(Expr) /\ Len(blk[b].at) = size(b) + 1 /\ size(b) \in Nat
          BY <1>1, <2>4, RunGrow
        <5> QED
          BY <5>1, LenFacts DEF started
      <4>3. /\ preds(b) # {} /\ \A q \in preds(b) : tracked(q)
            /\ merge_entry(b) = [at |-> <<blk[b].at[1]>>, groups |-> blk[b].groups]
        BY <2>4, <4>2 DEF TrackInv, TrackJoins
      <4>4. merge_entry(b).at[1] = e
        BY <3>2, <4>3
      <4>5. \/ \A q \in preds(b) : merge_entry(b).at[1] = out(q)
            \/ merge_entry(b).at[1].is = "phi" /\ merge_entry(b).at[1].b = b
        BY <2>4, <4>3, MergeFacts DEF TrackInv
      <4>6. CASE e = out(p)
        <5>1. out(p) = blk[p].at[size(p) + 1] /\ out(p) \in Expr
          BY <1>1, <2>4, <2>5, RunGrow DEF out
        <5>2. met(out(p), x.reg)
          BY <2>4, <2>5, <5>1 DEF RunInv, RunSound
        <5> QED
          BY <2>10, <4>1, <4>6, <5>1, <5>2, MetFrame
      <4>7. CASE e.is = "phi" /\ e.b = b
        BY <2>7, <4>1, <4>7 DEF met
      <4> QED
        BY <2>4, <4>4, <4>5, <4>6, <4>7
    <3> QED
      BY <2>16, <3>1, <3>2
  <2>18. RunMemory'
    <3> SUFFICES ASSUME NEW c \in Block, NEW i \in 1..Len(trace'[c]), NEW l \in Loc
                 PROVE  remembers(l, c, i)'
      BY DEF RunMemory
    <3>1. CASE i \in 1..Len(trace[c])
      BY <1>1, <2>10, <3>1, RemembersFrame
    <3>2. CASE c = b /\ i = 1
      <4>1. remembers(l, b, 1)'
        BY <1>1, <2>1, <2>3, <2>4, <2>7, <2>10, RemembersEdge
      <4> QED
        BY <3>2, <4>1
    <3> QED
      BY <2>16, <3>1, <3>2
  <2> QED
    BY <2>11, <2>14, <2>15, <2>17, <2>18 DEF RunInv
<1> QED
  BY <1>4, <1>5 DEF RunEdge

\* The run agrees with the expressions, and its memory with its writes.
LEMMA RunInvariant ==
  ASSUME Ordered
  PROVE  Spec => []RunInv
<1>1. Init => RunInv
  <2> SUFFICES ASSUME Init PROVE RunInv
    OBVIOUS
  <2>1. /\ prog \in Programs /\ phase = "track" /\ cur = 0 /\ 0 \in Block
        /\ trace = [b \in Block |-> << >>]
    BY NAssumption DEF Init, Block
  <2>2. \A b \in Block : Len(trace[b]) = 0 /\ ~Ran(b) /\ size(b) \in Nat
    BY <2>1, ProgFacts DEF Ran
  <2>3. trace \in [Block -> Seq(Machine)]
    BY <2>1
  <2>4. RunType
    BY <2>1, <2>2, <2>3 DEF RunType
  <2>5. RunPath
    BY <2>2 DEF RunPath
  <2>6. RunSteps
    <3> SUFFICES ASSUME NEW b \in Block, NEW i \in 1..size(b), i + 1 <= Len(trace[b]) PROVE FALSE
      BY DEF RunSteps
    <3> QED
      BY <2>2
  <2>7. \A b \in Block : 1..Len(trace[b]) = {}
    BY <2>2
  <2>8. RunSound /\ RunMemory
    BY <2>7 DEF RunSound, RunMemory
  <2> QED
    BY <2>4, <2>5, <2>6, <2>8 DEF RunInv
<1>2. ASSUME TrackInv, RunInv, [Next]_vars PROVE RunInv'
  <2>1. prog \in Programs
    BY <1>2 DEF TrackInv, TrackType
  <2>2. ASSUME NEW b \in Block, TrackEntry(b) \/ TrackOp(b) PROVE RunInv'
    <3>1. phase = "track" /\ phase' = "track" /\ prog' = prog /\ UNCHANGED runVars
      BY <2>2 DEF TrackEntry, TrackOp
    <3> QED
      BY <1>2, <2>1, <3>1, RunIdle
  <2>3. CASE Feed
    BY <1>2, <2>3, FeedStep
  <2>4. CASE RunOp
    BY <1>2, <2>4, RunOpStep
  <2>5. CASE RunEdge
    BY <1>2, <2>5, RunEdgeStep
  <2>6. CASE StartWalk
    <3>1. /\ phase \in {"slice", "walk", "done"} /\ phase' \in {"slice", "walk", "done"}
          /\ UNCHANGED trackVars /\ UNCHANGED runVars
      BY <2>6 DEF StartWalk
    <3> QED
      BY <1>2, <2>1, <3>1, RunStopped
  <2>7. ASSUME NEW b \in Block, WalkEntry(b) \/ WalkItem(b) \/ WalkExit(b) PROVE RunInv'
    <3>1. /\ phase \in {"slice", "walk", "done"} /\ phase' \in {"slice", "walk", "done"}
          /\ UNCHANGED trackVars /\ UNCHANGED runVars
      BY <2>7 DEF WalkEntry, WalkItem, WalkExit
    <3> QED
      BY <1>2, <2>1, <3>1, RunStopped
  <2>8. CASE UNCHANGED vars
    <3>1. UNCHANGED trackVars /\ UNCHANGED runVars /\ phase' = phase
      BY <2>8 DEF vars
    <3>2. prog' = prog /\ blk' = blk /\ init' = init /\ cur' = cur /\ trace' = trace
      BY <3>1 DEF trackVars, runVars
    <3>3. exits' = exits /\ \A b \in Block : size(b)' = size(b)
      BY <3>2, GraphFrame
    <3>4. RunType'
      BY <1>2, <3>1, <3>2, <3>3 DEF RunInv, RunType, complete, Ran
    <3> QED
      BY <1>2, <3>2, <3>4, RunFrame DEF RunInv
  <2> QED
    BY <1>2, <2>2, <2>3, <2>4, <2>5, <2>6, <2>7, <2>8 DEF Next, Ended
<1>3. Spec => []TrackInv
  BY TrackInvariant
<1> QED
  BY <1>1, <1>2, <1>3, PTL DEF Spec
=============================================================================
