------------------------------- MODULE NullTrack -------------------------------
(***************************************************************************)
(* The abstract interpretation of track/tracker.py and track/block.py, for *)
(* what it says about null: the block worklist of Tracker.track, the       *)
(* registers and pointer facts each block starts from (merge_predecessors, *)
(* merge_entry, _stamp_null_phi), bpf_map_lookup_elem, moves, loads and    *)
(* null tests.  When every block is tracked the program is run from block  *)
(* 0 with lookups that hit or miss at will, beside what the tracker        *)
(* recorded for each block.                                                *)
(*                                                                         *)
(* One map and fresh keys: a key expression is known by its map_key_id.    *)
(* Register contents are None, the constant 0 or a map value pointer.      *)
(* JoinValue objects are compared by identity in the code; here a          *)
(* JoinValue is its index in `phis`.                                       *)
(***************************************************************************)
EXTENDS Integers, SequencesExt

CONSTANTS N,         \* number of blocks
          MaxOps,    \* most instructions of a block before its terminator
          Programs,  \* the programs: records [ops, test, t, f], see Program below
          None       \* Python's None

Block == 0 .. N - 1
Reg == {0, 6}
Code == {"JEQ", "JNE"}

Op == [op : {"lookup", "zero", "load"}, r : Reg] \cup [op : {"move"}, r : Reg, s : Reg]
Test == [reg : Reg, code : Code, zeroLeft : BOOLEAN]
\* test[b] is the null test that ends block b; a block with two successors and
\* no test branches on packet data.
Program(p) ==
  /\ \A b \in Block : ToSet(p.ops[b]) \subseteq Op /\ Len(p.ops[b]) <= MaxOps
  /\ \A b \in Block : p.test[b] \in Test \cup {None}
  /\ {p.t, p.f} \subseteq [Block -> Block \cup {None}]

ASSUME ProgramsAssumption == \A p \in Programs : Program(p)

VARIABLES
  prog,      \* the program; read only
  untraced,  \* Tracker.track's worklist
  blk,       \* blk[b]: what tracking leaves in Block b
  id_box,    \* Tracker.id_box: the last pointer id given out
  phis,      \* the JoinValues made so far, in the blocks' sources
  phase,     \* "track", then "run", ending in "exit", or "rejected"
  cur, pos,  \* the run: its block, and the next instruction of it
  cregs,     \* the run: whether a register holds 0, a pointer or nothing yet
  hits,      \* the run: what each lookup returned
  env,       \* the run: the value each JoinValue took
  fault      \* the run loaded through a null pointer

vars == <<prog, untraced, blk, id_box, phis, phase, cur, pos, cregs, hits, env, fault>>
trackVars == <<untraced, blk, id_box, phis>>
runVars == <<cur, pos, cregs, hits, env, fault>>

-----------------------------------------------------------------------------
(* The program as build_cfg leaves it. *)

successors(p, b) == {p.t[b], p.f[b]} \ {None}
preds(p, b) == SetToSortSeq({q \in Block : b \in successors(p, q)}, <)
is_branch(p, b) == p.t[b] # None /\ p.f[b] # None
\* The instruction number of the i-th instruction of block b.
Idx(b, i) == b * MaxOps + i

-----------------------------------------------------------------------------
(* Register contents: num(0) and PTR. *)

Zero == [kind |-> "num"]
\* checked_null False, True and None are written "nonnull", "null", "unknown".
LookupPtr(idx) == [kind |-> "ptr", id |-> -1, base_id |-> idx, map_key_id |-> idx,
                   null |-> "unknown", null_phi |-> None]
is_ptr(v) == v # None /\ v.kind = "ptr"
null_fact_id(ptr) == IF ptr.id # -1 THEN ptr.id ELSE ptr.base_id
with_nullity(ptr, n) == [ptr EXCEPT !.null = n]

\* What a pointer says about being null, as a value that is 0 or not:
\* a constant, the outcome of a lookup, or a JoinValue.
Known(n) == [is |-> "num", n |-> n]
lookup_hit(idx) == [is |-> "hit", n |-> idx]
Phi(k) == [is |-> "phi", n |-> k]

nullity_value(v) ==
  IF v = Zero THEN Known(0)
  ELSE IF v.null # "unknown" THEN Known(IF v.null = "nonnull" THEN 1 ELSE 0)
  ELSE IF v.null_phi # None THEN Phi(v.null_phi)
  ELSE IF v.map_key_id = v.base_id THEN lookup_hit(v.map_key_id)
  ELSE None

-----------------------------------------------------------------------------
(* Joining the registers of the predecessors.  A join threads the tracker's *)
(* counters: it takes and returns records [val, id, phis].                  *)

\* The null_phi of a joined pointer: k + 1 asks for a new JoinValue.
null_phi(vals, k) ==
  IF \E i \in DOMAIN vals : vals[i] = None THEN None
  ELSE IF \E i \in DOMAIN vals : vals[i] # vals[1] THEN k + 1
  ELSE IF vals[1].is = "phi" THEN vals[1].n ELSE None

\* _stamp_null_phi: pred_edges and vals, the nullity_value of each entry, are
\* parallel sequences.
stamp_null_phi(b, ptr, pred_edges, vals, id, ph) ==
  LET phi == null_phi(vals, Len(ph))
  IN  IF ptr.null # "unknown" THEN [val |-> ptr, id |-> id, phis |-> ph]
      ELSE [val |-> [ptr EXCEPT !.null_phi = phi], id |-> id,
            phis |-> IF phi # Len(ph) + 1 THEN ph
                     ELSE Append(ph, [block |-> b, vals |-> vals, edges |-> pred_edges])]

nullity_values(entries) == [k \in DOMAIN entries |-> nullity_value(entries[k])]

\* Faulty variant: the first predecessor's nullity.
fold_nullity_first(entries) == entries[1].null

\* _fold_nullity: what all entries agree on.
fold_nullity(entries) ==
  IF \A k \in DOMAIN entries : entries[k].null = entries[1].null THEN entries[1].null ELSE "unknown"

\* merge_entry on map value pointers only: one key, or a fresh one.
merge_pointers(b, pred_edges, entries, id, ph) ==
  LET oneKey == \A k \in DOMAIN entries : entries[k].map_key_id = entries[1].map_key_id
      newid  == IF oneKey THEN id ELSE id + 1
      key    == IF oneKey THEN entries[1].map_key_id ELSE newid
      ptr    == [with_nullity(entries[1], fold_nullity(entries)) EXCEPT !.map_key_id = key]
  IN  stamp_null_phi(b, ptr, pred_edges, nullity_values(entries), newid, ph)

\* The edge's own fact, or else the block's, decides an unchecked pointer: it
\* becomes a checked one or the constant 0.
resolve(v, c, facts) ==
  LET fid == null_fact_id(v)
      f   == IF c # None /\ c.base_id = fid THEN c.null
             ELSE IF fid \in DOMAIN facts THEN facts[fid] ELSE "unknown"
  IN  IF ~is_ptr(v) \/ v.null # "unknown" THEN v
      ELSE CASE f = "nonnull" -> with_nullity(v, "nonnull")
             [] f = "null"    -> Zero
             [] f = "unknown" -> v

\* The rest of merge_entry where some entries are 0 and the others merge to a
\* pointer: unchecked again, under a new id if it was a checked one.
merge_with_zero(b, pred_edges, entries, merged) ==
  LET newid == IF merged.val.null = "unknown" THEN merged.id ELSE merged.id + 1
      ptr   == [with_nullity(merged.val, "unknown") EXCEPT
                  !.id = IF merged.val.null = "unknown" THEN @ ELSE newid]
  IN  stamp_null_phi(b, ptr, pred_edges, nullity_values(entries), newid, merged.phis)

\* merge_entry, on entries that resolve has been applied to.
merge_entry(b, pred_edges, entries, id, ph) ==
  LET ptr_at  == SetToSortSeq({k \in DOMAIN entries : is_ptr(entries[k])}, <)
      merged  == merge_pointers(b, [i \in DOMAIN ptr_at |-> pred_edges[ptr_at[i]]],
                                [i \in DOMAIN ptr_at |-> entries[ptr_at[i]]], id, ph)
  IN  CASE \E k \in DOMAIN entries : entries[k] = None -> [val |-> None, id |-> id, phis |-> ph]
        [] OTHER ->
             CASE ptr_at = << >> -> [val |-> Zero, id |-> id, phis |-> ph]
               [] Len(ptr_at) = Len(entries) -> merged
               [] OTHER -> merge_with_zero(b, pred_edges, entries, merged)

\* The facts of the predecessors, each under the fact of its edge: kept where
\* all that have one agree.
merge_facts(states, conds) ==
  LET K == DOMAIN states
      ids == UNION {DOMAIN states[k].facts : k \in K}
      at(k, i) == IF conds[k] # None /\ conds[k].base_id = i THEN conds[k].null
                  ELSE states[k].facts[i]
  IN  [i \in ids |->
         LET vs == {at(k, i) : k \in {k \in K : i \in DOMAIN states[k].facts}}
         IN  IF Cardinality(vs) = 1 THEN CHOOSE v \in vs : TRUE ELSE "unknown"]

-----------------------------------------------------------------------------
(* One instruction of a block; st = [regs, facts, ok]. *)

track_lookup(st, idx) ==
  [st EXCEPT !.regs[0] = LookupPtr(idx),
             !.facts = [i \in DOMAIN st.facts \cup {idx} |->
                          IF i = idx THEN "unknown" ELSE st.facts[i]]]

\* Faulty variant: a pointer that was never tested is accepted.
load_unchecked(ptr) == is_ptr(ptr)

\* load raises unless the pointer is proven non-null.
load(ptr) == is_ptr(ptr) /\ ptr.null = "nonnull"

track_op(st, o, idx) ==
  CASE o.op = "lookup" -> track_lookup(st, idx)
    [] o.op = "zero" -> [st EXCEPT !.regs[o.r] = Zero]
    [] o.op = "move" -> [st EXCEPT !.regs[o.r] = st.regs[o.s]]
    [] o.op = "load" -> [st EXCEPT !.ok = @ /\ load(st.regs[o.r])]

track_ops(p, b, st) ==
  LET S[i \in 0..Len(p.ops[b])] ==
        IF i = 0 THEN st ELSE track_op(S[i-1], p.ops[b][i], Idx(b, i))
  IN  S[Len(p.ops[b])]

\* swap_jmp_code.
swap_jmp_code(code) == IF code = "JEQ" THEN "JNE" ELSE "JEQ"

\* Faulty variant: a joined pointer's condition has the wrong polarity.
null_condition_flipped(ptr, code) ==
  [val |-> IF ptr.null_phi # None THEN Phi(ptr.null_phi) ELSE lookup_hit(ptr.map_key_id),
   code |-> IF ptr.null_phi # None THEN swap_jmp_code(code) ELSE code]

\* The condition recorded for a test of an unchecked pointer.
null_condition(ptr, code) ==
  [val |-> IF ptr.null_phi # None THEN Phi(ptr.null_phi) ELSE lookup_hit(ptr.map_key_id),
   code |-> code]

\* The facts of the edges on which an unchecked pointer is not null, and is null.
edge_fact(ptr, n) == [base_id |-> null_fact_id(ptr), null |-> n]

\* track_branch on a null test: the condition [val, code] it records, which
\* says that val compared with 0 by code takes the branch, and the facts of the
\* two edges.  Testing 0 against an unchecked pointer exchanges the operands.
track_branch(tst, regs) ==
  LET ptr   == regs[tst.reg]
      open  == is_ptr(ptr) /\ ptr.null = "unknown"
      code  == IF tst.zeroLeft /\ open THEN swap_jmp_code(tst.code) ELSE tst.code
      whenTaken == IF code = "JNE" THEN "nonnull" ELSE "null"
      whenNot   == IF code = "JNE" THEN "null" ELSE "nonnull"
  IN  IF ~open
      THEN [cond |-> [val |-> nullity_value(ptr), code |-> code], cond_t |-> None, cond_f |-> None]
      ELSE [cond |-> null_condition(ptr, code),
            cond_t |-> edge_fact(ptr, whenTaken), cond_f |-> edge_fact(ptr, whenNot)]

-----------------------------------------------------------------------------
(* track_block: [blk, id, phis, ok] after tracking block b. *)

init_regs == [r \in Reg |-> None]
no_facts == [i \in {} |-> "unknown"]
no_branch == [cond |-> None, cond_t |-> None, cond_f |-> None]

\* The registers one after the other; states and conds are those of pred_edges.
merge_regs(b, pred_edges, states, conds, facts, id, ph) ==
  LET entries(r) == [k \in DOMAIN states |-> resolve(states[k].regs[r], conds[k], facts)]
      next(r, s, j) == [regs |-> [s.regs EXCEPT ![r] = j.val], id |-> j.id, phis |-> j.phis]
      join(r, s) == next(r, s, merge_entry(b, pred_edges, entries(r), s.id, s.phis))
  IN  join(6, join(0, [regs |-> init_regs, id |-> id, phis |-> ph]))

\* The fact of an edge.
edge_cond(st, edge) == IF edge[2] = "fall" THEN st.cond_f ELSE st.cond_t

\* The registers and the facts block b starts with, from its predecessors' ends.
join_states(b, pred_edges, states, id, ph) ==
  LET conds == [k \in DOMAIN states |-> edge_cond(states[k], pred_edges[k])]
      with(facts) == [start |-> merge_regs(b, pred_edges, states, conds, facts, id, ph),
                      facts |-> facts]
  IN  with(merge_facts(states, conds))

merge_predecessors(p, b, S) ==
  LET ps == preds(p, b)
      pred_edges == [k \in DOMAIN ps |-> <<ps[k], IF p.f[ps[k]] = b THEN "fall" ELSE "taken">>]
  IN  join_states(b, pred_edges, [k \in DOMAIN ps |-> S.blk[ps[k]]], S.id, S.phis)

init_state(S) == [start |-> [regs |-> init_regs, id |-> S.id, phis |-> S.phis], facts |-> no_facts]

\* The block's instructions and its branch, from what it starts with.
track_from(p, b, S, in) ==
  LET leave(st, br) ==
        [blk |-> [S.blk EXCEPT ![b] =
                    [entry |-> in.start.regs, regs |-> st.regs, facts |-> st.facts,
                     cond |-> br.cond, cond_t |-> br.cond_t, cond_f |-> br.cond_f]],
         id |-> in.start.id, phis |-> in.start.phis, ok |-> S.ok /\ st.ok]
      branch(st) == leave(st, IF p.test[b] = None THEN no_branch
                              ELSE track_branch(p.test[b], st.regs))
  IN  branch(track_ops(p, b, [regs |-> in.start.regs, facts |-> in.facts, ok |-> TRUE]))

track_block(p, b, S) ==
  track_from(p, b, S, IF b = 0 THEN init_state(S) ELSE merge_predecessors(p, b, S))

-----------------------------------------------------------------------------
Init ==
  /\ prog \in Programs
  /\ untraced = Block
  /\ blk = [b \in Block |-> None]
  /\ id_box = Idx(N, 0)
  /\ phis = << >>
  /\ phase = "track"
  /\ cur = 0 /\ pos = 1
  /\ cregs = [r \in Reg |-> None]
  /\ hits = [i \in {} |-> FALSE]
  /\ env = [k \in {} |-> 0]
  /\ fault = FALSE

\* Tracker.track: block 0 first, then whichever untraced block get_next_block_no
\* meets first, in a set's order, whose predecessors are all traced.
NextBlock(b) == IF 0 \in untraced THEN b = 0
                ELSE \A k \in DOMAIN preds(prog, b) : preds(prog, b)[k] \notin untraced

\* Faulty variant: any untraced block with a traced predecessor is taken, and
\* the untraced ones are left out of the join.
TrackBlockEarly(b) ==
  /\ phase = "track"
  /\ b \in untraced
  /\ b = 0 \/ \E k \in DOMAIN preds(prog, b) : preds(prog, b)[k] \notin untraced
  /\ LET known(succ) == [q \in Block |-> IF q \in untraced THEN None ELSE succ[q]]
     IN  \E S \in {track_block([prog EXCEPT !.t = known(@), !.f = known(@)], b,
                                [blk |-> blk, id |-> id_box, phis |-> phis, ok |-> TRUE])} :
           /\ blk' = S.blk
           /\ id_box' = S.id
           /\ phis' = S.phis
           /\ phase' = IF ~S.ok THEN "rejected" ELSE IF untraced = {b} THEN "run" ELSE "track"
  /\ untraced' = untraced \ {b}
  /\ UNCHANGED <<prog, runVars>>

TrackBlock(b) ==
  /\ phase = "track"
  /\ b \in untraced
  /\ NextBlock(b)
  /\ \E S \in {track_block(prog, b, [blk |-> blk, id |-> id_box, phis |-> phis, ok |-> TRUE])} :
       /\ blk' = S.blk
       /\ id_box' = S.id
       /\ phis' = S.phis
       /\ phase' = IF ~S.ok THEN "rejected" ELSE IF untraced = {b} THEN "run" ELSE "track"
  /\ untraced' = untraced \ {b}
  /\ UNCHANGED <<prog, runVars>>

\* The run executes one instruction.
RunOp ==
  /\ phase = "run"
  /\ pos <= Len(prog.ops[cur])
  /\ LET o == prog.ops[cur][pos]
         idx == Idx(cur, pos)
     IN  \/ /\ o.op = "lookup"
            /\ \E h \in BOOLEAN :
                 /\ hits' = [i \in DOMAIN hits \cup {idx} |-> IF i = idx THEN h ELSE hits[i]]
                 /\ cregs' = [cregs EXCEPT ![0] = IF h THEN "pointer" ELSE "zero"]
            /\ UNCHANGED fault
         \/ /\ o.op = "zero"
            /\ cregs' = [cregs EXCEPT ![o.r] = "zero"]
            /\ UNCHANGED <<hits, fault>>
         \/ /\ o.op = "move"
            /\ cregs' = [cregs EXCEPT ![o.r] = cregs[o.s]]
            /\ UNCHANGED <<hits, fault>>
         \/ /\ o.op = "load"
            /\ fault' = (fault \/ cregs[o.r] # "pointer")
            /\ UNCHANGED <<hits, cregs>>
  /\ pos' = pos + 1
  /\ UNCHANGED <<prog, trackVars, phase, cur, env>>

\* Whether the test that ends a block takes its branch.
Takes(tst) == (cregs[tst.reg] = "zero") <=> (tst.code = "JEQ")

ValueOf(v) == CASE v.is = "num" -> v.n
                [] v.is = "hit" -> IF hits[v.n] THEN 1 ELSE 0
                [] v.is = "phi" -> env[v.n]

\* The run leaves the block by an edge, and the JoinValues of the next block
\* take the value of that edge.
RunEdge(edge) ==
  LET b == cur
      next == IF edge = "taken" THEN prog.t[b] ELSE prog.f[b]
      here == {k \in DOMAIN phis : phis[k].block = next}
      val(k) == LET i == CHOOSE i \in DOMAIN phis[k].edges : phis[k].edges[i] = <<b, edge>>
                IN  ValueOf(phis[k].vals[i])
  IN  /\ phase = "run"
      /\ pos > Len(prog.ops[b])
      /\ next # None
      /\ prog.test[b] # None => (edge = "taken") = Takes(prog.test[b])
      /\ cur' = next
      /\ pos' = 1
      /\ env' = [k \in DOMAIN env \cup here |-> IF k \in here THEN val(k) ELSE env[k]]
      /\ UNCHANGED <<prog, trackVars, phase, cregs, hits, fault>>

RunExit ==
  /\ phase = "run"
  /\ pos > Len(prog.ops[cur])
  /\ successors(prog, cur) = {}
  /\ phase' = "exit"
  /\ UNCHANGED <<prog, trackVars, runVars>>

Ended == phase \in {"exit", "rejected"} /\ UNCHANGED vars

Next ==
  \/ \E b \in Block : TrackBlock(b)
  \/ RunOp
  \/ \E edge \in {"taken", "fall"} : RunEdge(edge)
  \/ RunExit
  \/ Ended

Spec == Init /\ [][Next]_vars

-----------------------------------------------------------------------------
(* Properties. *)

\* What the tracker records and where a run is: the types of the state.
TypeOK ==
  /\ DOMAIN prog.ops = Block /\ DOMAIN prog.test = Block
  /\ untraced \subseteq Block
  /\ \A b \in Block : blk[b] = None <=> b \in untraced
  /\ id_box \in Nat
  /\ \A k \in DOMAIN phis : phis[k].block \in Block
  /\ phase \in {"track", "run", "exit", "rejected"}
  /\ cur \in Block /\ pos \in 1..(MaxOps + 1)
  /\ cregs \in [Reg -> {None, "zero", "pointer"}]
  /\ fault \in BOOLEAN

\* v says no more about null than the run shows.
Describes(v, c) ==
  /\ v = Zero => c = "zero"
  /\ is_ptr(v) /\ v.null = "nonnull" => c = "pointer"
  /\ is_ptr(v) /\ v.null_phi # None /\ v.null = "unknown" =>
       (env[v.null_phi] = 0) = (c = "zero")

\* What the tracker holds at the start and at the end of a block is true of
\* every run that gets there: a pointer marked checked is not null, a register
\* replaced by the constant 0 is 0, and a null_phi has the pointer's nullity.
FactsSound ==
  phase = "run" =>
    /\ pos = 1 => \A r \in Reg : Describes(blk[cur].entry[r], cregs[r])
    /\ pos > Len(prog.ops[cur]) => \A r \in Reg : Describes(blk[cur].regs[r], cregs[r])

\* The condition recorded for a branch is true of a run exactly when the run
\* takes the branch, also where the tested pointer comes out of a join.
CondExact ==
  (phase = "run" /\ pos > Len(prog.ops[cur]) /\ prog.test[cur] # None) =>
    LET c == blk[cur].cond
    IN  ((ValueOf(c.val) = 0) <=> (c.code = "JEQ")) = Takes(prog.test[cur])

\* A program the tracker accepts never loads through a null pointer: what
\* load's "dereference of a pointer not proven non-null" stands for.
NoNullLoad == ~fault

\* Tracking has just ended; what it left stays as it is during the run.
RunStarts == phase = "run" /\ cur = 0 /\ pos = 1

\* What the tracker concludes about each register, without the ids.
Shape(v) == IF is_ptr(v) THEN v.null ELSE v

\* get_next_block_no walks a Python set, but the facts at each block do not
\* depend on the order it happens to give: they are those of block order.
OrderIrrelevant ==
  RunStarts =>
    LET S[b \in -1..(N-1)] ==
          IF b = -1 THEN [blk |-> [c \in Block |-> None], id |-> Idx(N, 0), phis |-> << >>, ok |-> TRUE]
          ELSE track_block(prog, b, S[b-1])
        same(ref) == ref.ok /\ \A b \in Block : \A r \in Reg :
                       Shape(blk[b].entry[r]) = Shape(ref.blk[b].entry[r])
    IN  same(S[N-1])
=============================================================================
