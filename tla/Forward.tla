-------------------------------- MODULE Forward --------------------------------
(***************************************************************************)
(* The symbolic encoding of verify/forward.py and verify/slice.py: the     *)
(* walk of ForwardContext over the sliced blocks in topological order,     *)
(* with reach conditions, edge guards, merged states (sigma), the          *)
(* write-fold of Memory and the JoinValues of Phis, on the expressions     *)
(* Tracker leaves for one scalar register.                                 *)
(*                                                                         *)
(* A z3 term is modelled by its value under one valuation of the free      *)
(* variables: the initial memory and a Boolean for each branch whose       *)
(* condition was not recorded.  Once the program is tracked, a valuation   *)
(* is chosen and the program is run on it; an encoding that is right       *)
(* agrees with that run for every valuation.  Whether z3's simplify turns  *)
(* a guard into a Python True or False is a choice, limited to the value   *)
(* the guard has.                                                          *)
(*                                                                         *)
(* Memory is a set of one-value cells (packet, globals) and one hash map.  *)
(* A lookup's pointer is represented by its nullity, lookup_hit.           *)
(***************************************************************************)
EXTENDS Integers, Sequences

CONSTANTS N,         \* number of blocks
          Cell,      \* the regions other than the map
          Key, Val,  \* map keys and values
          Reg,       \* the register, as the key of a map operation
          None,      \* Python's None
          Programs,  \* programs: records [ops, cond, t, f], see Op below
          Inits,     \* initial memories
          Queries    \* what is asked: records [targets, regions]

Block == 0 .. N - 1
Region == Cell \cup {"map"}

\* The instructions of a block; a key is a constant or Reg, the register r.
KeyArg == Key \cup {Reg}
Flags == {"ANY", "NOEXIST", "EXIST"}
Op == [op : {"set"}, v : Val] \cup [op : {"load", "store"}, c : Cell]
      \cup [op : {"lookup", "read", "delete"}, key : KeyArg]
      \cup [op : {"update"}, key : KeyArg, flags : Flags]
\* How a block with two successors branches: when r = 0, or on a condition the
\* tracker did not record.
Cond == {"zero", "free"}

Program == [ops : [Block -> Seq(Op)], cond : [Block -> Cond \cup {None}],
            t : [Block -> Block \cup {None}], f : [Block -> Block \cup {None}]]
Memory == [cell : [Cell -> Val], present : SUBSET Key, value : [Key -> Val]]
Query == [targets : (SUBSET Block) \cup {None}, regions : SUBSET Region]

ASSUME NAssumption == N \in Nat \ {0}
\* A register may be stored, looked up by, and tested.
ASSUME ValAssumption == {0, 1} \subseteq Val /\ Val \subseteq Key
ASSUME NamesAssumption == /\ Reg \notin Key /\ "map" \notin Cell
                          /\ None \notin Block /\ None \notin Region
ASSUME ProgramsAssumption == \A p \in Programs : p \in Program
ASSUME InitsAssumption == Inits \subseteq Memory
ASSUME QueriesAssumption == Queries \subseteq Query

\* What the encoding needs of the CFG.  Memory lists the writes by block number,
\* so no edge may go back to a smaller number; merge_predecessors labels the edges
\* of a predecessor by `succ_f == self.num`, so the two edges of a branch may not
\* meet.  Code with no jump backwards and no jump to the next instruction has both.
Ordered ==
  \A p \in Programs : \A b \in Block :
    /\ p.t[b] # None => b < p.t[b]
    /\ p.f[b] # None => b < p.f[b]
    /\ p.t[b] = p.f[b] => p.t[b] = None

VARIABLES
  prog,          \* the program; read only
  blk,           \* blk[b]: at[i] is the expression of r before instruction i of b,
                 \* groups the values and edges of b's JoinValue
  init,          \* the valuation: the initial memory, and free, the unrecorded
                 \* branches that are taken
  cur, trace,    \* the run: its block, and the machine states it had in each block
  query,         \* the targets and regions asked about
  slice, relevant, fold, anc,        \* attributes of ForwardContext
  rest,          \* the blocks of the slice the walk has not done
  cur_block, cur_reach, cur_sigma,   \* attributes of ForwardContext
  info,          \* ForwardContext.info
  reads, phival, \* values of the leaves of each block, and of its JoinValue
  phase          \* "track", "run", "slice", "walk", then "done"

trackVars == <<prog, blk>>
runVars == <<init, cur, trace>>
ctxVars == <<query, slice, relevant, fold, anc>>
walkVars == <<rest, cur_block, cur_reach, cur_sigma, info, reads, phival>>
vars == <<trackVars, runVars, ctxVars, walkVars, phase>>

successors(b) == {prog.t[b], prog.f[b]} \ {None}
preds(b) == {p \in Block : b \in successors(p)}
branch(b) == prog.t[b] # None /\ prog.f[b] # None
exits == {b \in Block : successors(b) = {}}
size(b) == Len(prog.ops[b])

\* The region an instruction reads or writes.
region(o) == IF o.op = "set" THEN None ELSE IF o.op \in {"load", "store"} THEN o.c ELSE "map"
is_write(o) == o.op \in {"store", "update", "delete"}
is_source(o) == o.op \in {"load", "lookup", "read"}
-----------------------------------------------------------------------------
(* Tracking: r as an expression.  uses is the set of regions it depends on, *)
(* as _expr_regions finds it.                                               *)

Num(v) == [is |-> "num", v |-> v, uses |-> {}]
Leaf(b, i, uses) == [is |-> "leaf", b |-> b, i |-> i, uses |-> uses]
JoinValue(b, uses) == [is |-> "phi", b |-> b, uses |-> uses]

started(b) == blk[b].at # << >>
tracked(b) == Len(blk[b].at) = size(b) + 1
out(b) == blk[b].at[size(b) + 1]

\* The key an instruction records when r is e.
key_expr(o, e) == IF o.key = Reg THEN e ELSE Num(o.key)

\* r after the i-th instruction o of b, from r = e.
track_op(o, e, b, i) ==
  CASE o.op = "set" -> Num(o.v)
    [] o.op = "load" -> Leaf(b, i, {o.c})
    [] o.op \in {"lookup", "read"} -> Leaf(b, i, {"map"} \cup key_expr(o, e).uses)
    [] OTHER -> e

\* merge_predecessors labels the edges.
pred_edges(b) == {<<p, IF prog.f[p] = b THEN "fall" ELSE "taken">> : p \in preds(b)}

\* merge_entry on scalars: one expression, or a JoinValue with the edges of
\* each distinct expression.
entries(b) == {out(p) : p \in preds(b)}
merge_entry(b) ==
  IF b = 0 THEN [at |-> <<Num(0)>>, groups |-> {}]
  ELSE IF \E e \in entries(b) : entries(b) = {e}
  THEN [at |-> <<CHOOSE e \in entries(b) : TRUE>>, groups |-> {}]
  ELSE [at |-> <<JoinValue(b, UNION {e.uses : e \in entries(b)})>>,
        groups |-> {[value |-> e, edges |-> {d \in pred_edges(b) : out(d[1]) = e}] : e \in entries(b)}]

\* Tracker.track: the smallest block whose predecessors are tracked is next;
\* merge_predecessors raises if it has none.
ready(b) == ~started(b) /\ \A p \in preds(b) : tracked(p)
TrackEntry(b) ==
  /\ phase = "track"
  /\ \A c \in Block : started(c) => tracked(c)
  /\ ready(b)
  /\ \A c \in Block : ready(c) => b <= c
  /\ b = 0 \/ preds(b) # {}
  /\ blk' = [blk EXCEPT ![b] = merge_entry(b)]
  /\ UNCHANGED <<prog, runVars, ctxVars, walkVars, phase>>

\* One instruction of track_block.
TrackOp(b) ==
  /\ phase = "track"
  /\ started(b) /\ ~tracked(b)
  /\ LET i == Len(blk[b].at)
     IN  blk' = [blk EXCEPT ![b].at = Append(@, track_op(prog.ops[b][i], @[i], b, i))]
  /\ UNCHANGED <<prog, runVars, ctxVars, walkVars, phase>>

-----------------------------------------------------------------------------
(* The concrete machine: r and the memory.  trace[b][i] is its state before *)
(* the i-th instruction of b.                                               *)

memory == [cell |-> init.cell, present |-> init.present, value |-> init.value]
keyof(mc, o) == IF o.key = Reg THEN mc.reg ELSE o.key
applies(flags, present) ==
  flags = "ANY" \/ (flags = "NOEXIST" /\ ~present) \/ (flags = "EXIST" /\ present)

exec(mc, o) ==
  LET k == keyof(mc, o)
  IN  CASE o.op = "set"    -> [mc EXCEPT !.reg = o.v]
        [] o.op = "load"   -> [mc EXCEPT !.reg = mc.cell[o.c]]
        [] o.op = "store"  -> [mc EXCEPT !.cell[o.c] = mc.reg]
        [] o.op = "lookup" -> [mc EXCEPT !.reg = IF k \in mc.present THEN 1 ELSE 0]
        [] o.op = "read"   -> [mc EXCEPT !.reg = mc.value[k]]
        [] o.op = "delete" -> [mc EXCEPT !.present = @ \ {k}]
        [] o.op = "update" -> IF applies(o.flags, k \in mc.present)
                              THEN [mc EXCEPT !.value[k] = mc.reg, !.present = @ \cup {k}]
                              ELSE mc

Ran(b) == trace[b] # << >>
end(b) == trace[b][size(b) + 1]
\* Whether the run leaves block b by its jump, and where it goes.
takes(b) == IF branch(b) THEN IF prog.cond[b] = "zero" THEN end(b).reg = 0 ELSE b \in init.free
            ELSE prog.t[b] # None
goes(b) == IF takes(b) THEN prog.t[b] ELSE prog.f[b]

\* The tracked program is run on some input.
Feed ==
  /\ phase = "track"
  /\ \A b \in Block : tracked(b)
  /\ \E mem \in Inits : \E fr \in SUBSET {b \in Block : branch(b) /\ prog.cond[b] # "zero"} :
       init' = [cell |-> mem.cell, present |-> mem.present, value |-> mem.value, free |-> fr]
  /\ trace' = [trace EXCEPT ![0] = <<[reg |-> 0, cell |-> init'.cell,
                                      present |-> init'.present, value |-> init'.value]>>]
  /\ phase' = "run"
  /\ UNCHANGED <<trackVars, cur, ctxVars, walkVars>>

RunOp ==
  /\ phase = "run"
  /\ Len(trace[cur]) <= size(cur)
  /\ LET i == Len(trace[cur])
     IN  trace' = [trace EXCEPT ![cur] = Append(@, exec(@[i], prog.ops[cur][i]))]
  /\ UNCHANGED <<trackVars, init, cur, ctxVars, walkVars, phase>>

RunEdge ==
  /\ phase = "run"
  /\ Len(trace[cur]) > size(cur)
  /\ \/ /\ cur \in exits
        /\ phase' = "slice"
        /\ UNCHANGED <<cur, trace>>
     \/ /\ cur \notin exits
        /\ cur' = goes(cur)
        /\ trace' = [trace EXCEPT ![goes(cur)] = <<end(cur)>>]
        /\ UNCHANGED phase
  /\ UNCHANGED <<trackVars, init, ctxVars, walkVars>>

-----------------------------------------------------------------------------
(* ForwardContext.__init__.  The graph results are in the form TopoOrder    *)
(* shows the passes of prune.py to have.                                    *)

live == {b \in Block : \A S \in SUBSET Block :
           0 \in S /\ (\A c \in S : successors(c) \subseteq S) => b \in S}
\* The blocks from which a path leads into T.
before(T) == {b \in Block : \A S \in SUBSET Block :
                T \subseteq S /\ (\A c \in S : preds(c) \subseteq S) => b \in S}
block_slice(q) == IF q.targets = None THEN live ELSE {0} \cup (before(q.targets \cap live) \cap live)

branch_uses(b) == IF branch(b) /\ prog.cond[b] = "zero" THEN out(b).uses ELSE {}
\* What the i-th instruction of b reads if it writes: its value and its key.
write_uses(b, i) ==
  LET o == prog.ops[b][i]
  IN  (IF o.op \in {"store", "update"} THEN blk[b].at[i].uses ELSE {})
      \cup (IF o.op \in {"update", "delete"} THEN key_expr(o, blk[b].at[i]).uses ELSE {})

\* R holds what the writes of the blocks S to R read.
fed(S, R) == \A b \in S : \A i \in 1..size(b) :
               is_write(prog.ops[b][i]) /\ region(prog.ops[b][i]) \in R => write_uses(b, i) \subseteq R

\* Faulty variant: what the return values read is left out.
relevant_without_exits(q, S) ==
  LET start == q.regions \cup UNION {branch_uses(b) : b \in S}
  IN  {r \in Region : \A R \in SUBSET Region : start \subseteq R /\ fed(S, R) => r \in R}

\* relevant_regions: what the query, the return values and the branches read,
\* closed under what the writes to it read.
relevant_regions(q, S) ==
  LET start == q.regions \cup (UNION {out(b).uses : b \in exits \cap S}) \cup (UNION {branch_uses(b) : b \in S})
  IN  {r \in Region : \A R \in SUBSET Region : start \subseteq R /\ fed(S, R) => r \in R}

\* A relevant region is folded unless some access to it has a variable offset,
\* which is left open here.
StartWalk ==
  /\ phase = "slice"
  /\ query' \in Queries
  /\ slice' = block_slice(query')
  /\ relevant' = relevant_regions(query', slice')
  /\ fold' \in SUBSET relevant'
  /\ anc' = [b \in Block |-> before(preds(b)) \cap slice']
  /\ rest' = slice'
  /\ phase' = "walk"
  /\ UNCHANGED <<trackVars, runVars, cur_block, cur_reach, cur_sigma, info, reads, phival>>

-----------------------------------------------------------------------------
(* Guards: the Python literals, and formulas that are true or false under  *)
(* the valuation.                                                          *)

Guard == {"True", "False", "true", "false"}
Lit(v) == IF v THEN "True" ELSE "False"
Formula(v) == IF v THEN "true" ELSE "false"
holds(g) == g \in {"True", "true"}

_and(a, b) == IF a = "True" THEN b
              ELSE IF b = "True" THEN a
              ELSE IF "False" \in {a, b} THEN "False"
              ELSE Formula(a = "true" /\ b = "true")
_not(a) == IF a \in {"True", "False"} THEN Lit(a = "False") ELSE Formula(a = "false")
_or_all(gs) == LET terms == gs \ {"False"} IN
               IF terms = {} THEN "False"
               ELSE IF "True" \in terms THEN "True" ELSE Formula("true" \in terms)

\* What reach and _edge_guard find for a block without a ForwardInfo.
absent == [reach |-> "False", edge_taken |-> "False", edge_fall |-> "False", sigma |-> None]
reach(b) == IF b = cur_block THEN cur_reach ELSE info[b].reach

\* Faulty variant: the edge without the reach condition of its block.
edge_guard_local(e) == IF e[2] = "taken" THEN info[e[1]].edge_taken ELSE info[e[1]].edge_fall

edge_guard(e) == _and(info[e[1]].reach,
                      IF e[2] = "taken" THEN info[e[1]].edge_taken ELSE info[e[1]].edge_fall)

\* The value of an expression: leaves and JoinValues as the hooks give them.
expr_to_z3(e) == CASE e.is = "num" -> e.v
                   [] e.is = "leaf" -> reads[e.b][e.i]
                   [] e.is = "phi" -> phival[e.b]

\* The order of sorted(preds), taken before fall; the first and last of E in it.
precedes(e, d) == e[1] < d[1] \/ (e[1] = d[1] /\ (e[2] = "taken" \/ d[2] = "fall"))
first(E) == CHOOSE e \in E : \A d \in E : precedes(e, d)
last(E) == CHOOSE e \in E : \A d \in E : precedes(d, e)

group_guard(g) == _or_all({edge_guard(e) : e \in g.edges})
\* Faulty variant: the first group is the default, and always taken.
phi_value_first(b) ==
  LET groups == blk[b].groups
      pick == CHOOSE g \in groups : \A h \in groups : precedes(first(g.edges), first(h.edges))
  IN  IF groups = {} THEN {None} ELSE {expr_to_z3(pick.value)}

\* Phis.value: the value of the first group whose guard holds, the last one by
\* default; a fresh variable, of any value, if every guard is False.
phi_value(b) ==
  LET terms == {g \in blk[b].groups : group_guard(g) # "False"}
      true  == {g \in terms : holds(group_guard(g))}
      pick  == IF true # {} THEN CHOOSE g \in true : \A h \in true : precedes(first(g.edges), first(h.edges))
               ELSE CHOOSE g \in terms : \A h \in terms : precedes(first(h.edges), first(g.edges))
  IN  IF blk[b].groups = {} THEN {None} ELSE IF terms = {} THEN Val ELSE {expr_to_z3(pick.value)}

-----------------------------------------------------------------------------
(* Memory.  A write is a pair <<block, i>>. *)

Site == UNION {{b} \X (1..size(b)) : b \in Block}
op(w) == prog.ops[w[1]][w[2]]
write_key(w) == key_expr(op(w), blk[w[1]].at[w[2]])
write_value(w) == blk[w[1]].at[w[2]]

\* Writes seen where block b reads at its i-th instruction.
Visible(w, b, i) == IF w[1] = b THEN w[2] < i ELSE w[1] \in anc[b]
\* The guard of a write; reads[c][j] of an update is 1 if it applies.
Happened(w) == holds(reach(w[1])) /\ (op(w).op = "update" => reads[w[1]][w[2]] = 1)

\* Memory.writes and presence_writes that a read of a cell, or of the entry k,
\* has in its If-terms with a true guard.
cell_writes(c, b, i) ==
  {w \in Site : op(w).op = "store" /\ op(w).c = c /\ Visible(w, b, i) /\ Happened(w)}
map_writes(ops, k, b, i) ==
  {w \in Site : op(w).op \in ops /\ Visible(w, b, i) /\ Happened(w) /\ expr_to_z3(write_key(w)) = k}

\* Faulty variant: the If-terms are nested the other way round.
FirstWrite(W) == CHOOSE w \in W : \A v \in W : v[1] > w[1] \/ (v[1] = w[1] /\ v[2] >= w[2])

\* Memory._read, loc_byte and present: If-terms are nested in the order of the
\* writes lists, block number first, so the last write that happened decides.
LastWrite(W) == CHOOSE w \in W : \A v \in W : v[1] < w[1] \/ (v[1] = w[1] /\ v[2] <= w[2])

select(f, k) == IF k \in DOMAIN f THEN f[k] ELSE None
FoldCell(c, b, i) ==
  LET W == cell_writes(c, b, i)
  IN  IF W # {} THEN expr_to_z3(write_value(LastWrite(W))) ELSE init.cell[c]
FoldValue(k, b, i) ==
  LET W == map_writes({"update"}, k, b, i)
  IN  IF W # {} THEN expr_to_z3(write_value(LastWrite(W))) ELSE select(init.value, k)
FoldPresent(k, b, i) ==
  LET W == map_writes({"update", "delete"}, k, b, i)
  IN  IF W # {} THEN op(LastWrite(W)).op = "update" ELSE k \in init.present

\* What the i-th instruction of b reads: through the fold, or from sigma.
item_key(b, i) == expr_to_z3(write_key(<<b, i>>))
item_cell(b, i) == LET c == prog.ops[b][i].c
                   IN  IF c \in fold THEN FoldCell(c, b, i) ELSE cur_sigma.cell[c]
item_present(b, i) == IF "map" \in fold THEN FoldPresent(item_key(b, i), b, i)
                      ELSE item_key(b, i) \in cur_sigma.present
item_entry(b, i) == IF "map" \in fold THEN FoldValue(item_key(b, i), b, i)
                    ELSE select(cur_sigma.value, item_key(b, i))
item_applies(b, i) == applies(prog.ops[b][i].flags, item_present(b, i))

\* The value of an item of the walk's loop; of an update, whether it applies.
item_value(b, i) ==
  LET o == prog.ops[b][i]
      bit(p) == IF p THEN 1 ELSE 0
  IN  CASE region(o) \notin relevant -> None
        [] region(o) \in relevant /\ o.op = "load" -> item_cell(b, i)
        [] region(o) \in relevant /\ o.op = "read" -> item_entry(b, i)
        [] region(o) \in relevant /\ o.op = "lookup" -> bit(item_present(b, i))
        [] region(o) \in relevant /\ o.op = "update" -> bit(item_applies(b, i))
        [] OTHER -> 1

\* The to_z3 of a write that is not folded.
to_z3(b, i) ==
  LET o == prog.ops[b][i]
      k == item_key(b, i)
      v == expr_to_z3(write_value(<<b, i>>))
      s == cur_sigma
  IN  CASE o.op = "store"  -> [s EXCEPT !.cell[o.c] = v]
        [] o.op = "delete" -> [s EXCEPT !.present = @ \ {k}]
        [] o.op = "update" -> IF item_applies(b, i)
                              THEN [s EXCEPT !.value[k] = v, !.present = @ \cup {k}] ELSE s

-----------------------------------------------------------------------------
(* ForwardContext._walk. *)

\* The edges into b that can carry something.
contribs(b) == {e \in Block \X {"taken", "fall"} :
                  /\ b = IF e[2] = "taken" THEN prog.t[e[1]] ELSE prog.f[e[1]]
                  /\ edge_guard(e) # "False"}

\* _merge_sigma: in every component the first contribution whose guard holds,
\* or the last.  (Grouping contributions with one term only joins their guards.)
merge_sigma(E) ==
  LET true == {e \in E : holds(edge_guard(e))}
  IN  IF E = {} THEN memory
      ELSE info[(IF true # {} THEN first(true) ELSE last(E))[1]].sigma

\* The walk comes to the next block of the order: any block of the slice whose
\* predecessors in the slice are done.
WalkEntry(b) ==
  /\ phase = "walk"
  /\ cur_block = None
  /\ b \in rest
  /\ preds(b) \cap rest = {}
  /\ cur_block' = b
  /\ cur_reach' = IF b = 0 THEN "True" ELSE _or_all({edge_guard(e) : e \in contribs(b)})
  /\ cur_sigma' = IF b = 0 THEN memory ELSE merge_sigma(contribs(b))
  /\ \E v \in phi_value(b) : phival' = [phival EXCEPT ![b] = v]
  /\ UNCHANGED <<trackVars, runVars, ctxVars, rest, info, reads, phase>>

WalkItem(b) ==
  /\ phase = "walk"
  /\ cur_block = b
  /\ Len(reads[b]) < size(b)
  /\ LET i == Len(reads[b]) + 1
         r == region(prog.ops[b][i])
     IN  /\ reads' = [reads EXCEPT ![b] = Append(@, item_value(b, i))]
         /\ cur_sigma' = IF is_write(prog.ops[b][i]) /\ r \in relevant /\ r \notin fold
                         THEN to_z3(b, i) ELSE cur_sigma
  /\ UNCHANGED <<trackVars, runVars, ctxVars, rest, cur_block, cur_reach, info, phival, phase>>

\* _branch_guards: an unrecorded condition is a free variable; a recorded one
\* may simplify to a literal, which _branch_guards_unpruned never allows.
branch_guards(b) ==
  IF ~branch(b) THEN {<<"True", "True">>}
  ELSE IF prog.cond[b] # "zero" THEN {<<Formula(b \in init.free), _not(Formula(b \in init.free))>>}
  ELSE {<<c, _not(c)>> : c \in {Formula(expr_to_z3(out(b)) = 0), Lit(expr_to_z3(out(b)) = 0)}}

WalkExit(b) ==
  /\ phase = "walk"
  /\ cur_block = b
  /\ Len(reads[b]) = size(b)
  /\ \E g \in branch_guards(b) :
       info' = [info EXCEPT ![b] = [reach |-> cur_reach, edge_taken |-> g[1],
                                    edge_fall |-> g[2], sigma |-> cur_sigma]]
  /\ rest' = rest \ {b}
  /\ cur_block' = None /\ cur_reach' = None /\ cur_sigma' = None
  /\ phase' = IF rest = {b} THEN "done" ELSE "walk"
  /\ UNCHANGED <<trackVars, runVars, ctxVars, reads, phival>>

Ended == phase = "done" /\ UNCHANGED vars

-----------------------------------------------------------------------------
Init ==
  /\ prog \in Programs
  /\ blk = [b \in Block |-> [at |-> << >>, groups |-> {}]]
  /\ init = None /\ cur = 0
  /\ trace = [b \in Block |-> << >>]
  /\ query = None /\ slice = {} /\ relevant = {} /\ fold = {}
  /\ anc = [b \in Block |-> {}]
  /\ rest = {}
  /\ cur_block = None /\ cur_reach = None /\ cur_sigma = None
  /\ info = [b \in Block |-> absent]
  /\ reads = [b \in Block |-> << >>]
  /\ phival = [b \in Block |-> None]
  /\ phase = "track"

Next ==
  \/ \E b \in Block : TrackEntry(b) \/ TrackOp(b)
  \/ Feed \/ RunOp \/ RunEdge \/ StartWalk
  \/ \E b \in Block : WalkEntry(b) \/ WalkItem(b) \/ WalkExit(b)
  \/ Ended

Spec == Init /\ [][Next]_vars
-----------------------------------------------------------------------------
(* Properties. *)

Walked(b) == b \in slice \ rest

\* The reach condition of a block is true of an input exactly when the run on
\* that input executes the block, whatever literals simplify finds, whatever
\* the query's slice leaves out.
ReachExact == \A b \in Block : Walked(b) => (holds(info[b].reach) <=> Ran(b))

\* Every load, lookup and map read of a block that runs, and its JoinValue, is
\* encoded as the value the run sees there, read through the fold or through
\* sigma, unless it depends on a region that was found irrelevant.
ReadsExact ==
  \A b \in Block : Walked(b) /\ Ran(b) =>
    /\ \A i \in 1..size(b) :
         is_source(prog.ops[b][i]) /\ blk[b].at[i + 1].uses \subseteq relevant =>
           reads[b][i] = trace[b][i + 1].reg
    /\ blk[b].at[1].uses \subseteq relevant => expr_to_z3(blk[b].at[1]) = trace[b][1].reg

\* state_at: what a condition decided at block b reads in a region.
StateCell(b, c) == IF c \in fold THEN FoldCell(c, b, size(b) + 1) ELSE info[b].sigma.cell[c]
StateValue(b, k) == IF "map" \in fold THEN FoldValue(k, b, size(b) + 1) ELSE info[b].sigma.value[k]
StatePresent(b, k) == IF "map" \in fold THEN FoldPresent(k, b, size(b) + 1) ELSE k \in info[b].sigma.present

\* The state a condition is decided in is the memory the run has at the end of
\* the block, in every region the query asks about: dropping irrelevant writes
\* and folding or merging the others loses nothing.
StateExact ==
  \A b \in Block : Walked(b) /\ Ran(b) =>
    /\ \A c \in query.regions \cap Cell : StateCell(b, c) = end(b).cell[c]
    /\ "map" \in query.regions => \A k \in Key :
         /\ StatePresent(b, k) <=> k \in end(b).present
         /\ StateValue(b, k) = end(b).value[k]

\* ret_state: r0 at the exit that runs is the value the run returns.
RetExact == \A b \in exits : Walked(b) /\ Ran(b) => expr_to_z3(out(b)) = end(b).reg
=============================================================================
