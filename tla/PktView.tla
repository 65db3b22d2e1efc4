--------------------------------- MODULE PktView --------------------------------
(***************************************************************************)
(* The packet under bpf_xdp_adjust_head, _tail and _meta: which view of    *)
(* the packet a pointer was taken in (base_id, AdjustFacts), the bounds    *)
(* checks that track_branch turns into conditions on pkt_len, and the      *)
(* length that the actions of track/encode.py compute.                     *)
(*                                                                         *)
(* First Tracker visits every block; then the machine runs the program on  *)
(* one frame, with an outcome for each call, and the encoder's state is    *)
(* computed along that path.  That a JoinValue is worth what the path      *)
(* brought is the subject of Forward and assumed here.                     *)
(***************************************************************************)
EXTENDS Integers, Sequences

CONSTANTS N,          \* number of blocks, in the order they are tracked
          None,       \* Python's None: as a view, one that is not known
          Programs,   \* records [ops, cond, t, f, entry], see Op and Cond
          Lens,       \* lengths of the frame
          Headroom    \* bytes the head may grow by

Block == 0 .. N - 1
\* A pointer only grows: Condition.to_z3 compares unsigned, so offsets are not negative.
Op == [op : {"data", "end", "read", "len", "diff"}]
      \cup [op : {"add"}, d : Nat] \cup [op : {"adjust"}, kind : {"head", "tail", "meta"}, d : Int]
Code == {"JGT", "JGE", "JLT", "JLE"}
\* r against 0; p against e, or e against p; a tail call; anything else.
Cond == [on : {"ret"}, code : {"JEQ", "JNE"}]
        \cup [on : {"bound"}, code : Code, left : {"p", "e"}] \cup [on : {"tail", "free"}]
Program == [ops : [Block -> Seq(Op)], cond : [Block -> Cond],
            t : [Block -> Block \cup {None}], f : [Block -> Block \cup {None}],
            entry : Block \cup {None}]

ASSUME NAssumption == N \in Nat \ {0}
ASSUME NoneAssumption == None \notin Int /\ None \notin Int \X Int
ASSUME FrameAssumption == Lens \subseteq Nat /\ Headroom \in Nat
\* Blocks are numbered in an order in which Tracker may visit them, and only
\* tail calls lead to the first block of a callee.
ASSUME ProgramsAssumption ==
  /\ Programs \subseteq Program
  /\ \A pr \in Programs : \A b \in Block :
       /\ pr.t[b] # None => pr.t[b] > b
       /\ pr.f[b] # None => pr.f[b] > b /\ pr.f[b] # pr.entry

VARIABLES prog,                  \* the program; read only
          frame, choice,         \* the frame's length and the outcomes of the run
          next,                  \* the block Tracker is at; N at the end
          blk,                   \* what Tracker left of each block
          refused,               \* an exception ended the analysis
          cur, pos,              \* the run: block and instruction,
          m, sigma,              \* machine, and Z3State beside it
          taken                  \* the last branch: the machine's side, the encoder's

vars == <<prog, frame, choice, next, blk, refused, cur, pos, m, sigma, taken>>
inputs == <<prog, frame, choice>>
run == <<cur, pos, m, sigma, taken>>

Entry == <<-1, 0>>      \* the view at entry: base_id -1
NoPtr == <<-2, 0>>      \* a register that holds no such pointer
EINVAL == 22

preds(b) == {p \in Block : b \in {prog.t[p], prog.f[p]}}
exit(b) == prog.t[b] = None /\ prog.f[b] = None
branch(b) == prog.t[b] # None /\ prog.f[b] # None
tail_entry(b) == b # 0 /\ b = prog.entry

-----------------------------------------------------------------------------
(* Tracker: s = [ctx, p, e, r, pending], the views of three pointers, the  *)
(* scalar r and the call waiting for its test.                             *)

\* A scalar is known by what made it; joining two makes a JoinValue.
value(is, i) == [is |-> is, idx |-> i]
none == value("none", None)

\* Faulty variant: two pointers whose views are unknown do not go together.
pkt_size_check_known(s) == s.p = s.e /\ s.p \notin {NoPtr, None}

\* Pointers of one view; any other pair is left to the encoder, which raises.
pkt_size_check(s) == s.p = s.e /\ s.p # NoPtr

track_op(s, o, i) ==
  CASE o.op = "data" -> [s EXCEPT !.p = s.ctx]
    [] o.op = "end"  -> [s EXCEPT !.e = s.ctx]
    [] o.op = "add"  -> s
    [] o.op = "read" -> [s EXCEPT !.r = value("byte", i)]
    [] o.op = "len"  -> [s EXCEPT !.r = value("len", i)]
    [] o.op = "diff" -> [s EXCEPT !.r = value(IF pkt_size_check(s) THEN "len" ELSE "unencodable", i)]
    [] o.op = "adjust" /\ o.kind = "head" ->
         [s EXCEPT !.r = value("ret", i), !.pending = [idx |-> i, before |-> s.ctx], !.ctx = None]
    [] o.op = "adjust" /\ o.kind # "head" -> [s EXCEPT !.r = value("ret", i)]

\* Faulty variant: the two sides of the test are exchanged.
adjust_facts_swapped(s, ok_edge, edge) ==
  {IF edge = ok_edge THEN s.pending.before ELSE s.r.idx}

\* The view AdjustFacts gives an edge of a test that tells success from failure.
adjust_facts(s, ok_edge, edge) ==
  {IF edge = ok_edge THEN s.r.idx ELSE s.pending.before}

\* track_branch: the condition, and the facts of the edges; {} where there is none.
track_branch(s, c) ==
  LET ok_edge == IF c.code = "JEQ" THEN "taken" ELSE "fall"
      fact == s.pending # None /\ s.pending.idx = s.r.idx
      plain(cond) == [cond |-> cond, t |-> {}, f |-> {}]
  IN  CASE c.on = "ret" /\ s.r.is = "ret" ->
             [cond |-> [is |-> "adjust_ok", idx |-> s.r.idx, ok |-> ok_edge],
              t |-> IF fact THEN adjust_facts(s, ok_edge, "taken") ELSE {},
              f |-> IF fact THEN adjust_facts(s, ok_edge, "fall") ELSE {}]
        [] c.on = "ret" /\ s.r.is # "ret" -> plain([is |-> "zero", code |-> c.code])
        [] c.on = "bound" -> plain([is |-> "bound", code |-> c.code, left |-> c.left])
        [] c.on \in {"tail", "free"} -> plain(None)

last(b) == blk[b].at[Len(blk[b].at)]
edge(p, b) == IF prog.f[p] = b THEN "fall" ELSE "taken"
fact_of(p, b) == IF edge(p, b) = "fall" THEN blk[p].f ELSE blk[p].t

\* What all have in common, or other.
agreed(S, other) == IF \E v \in S : S = {v} THEN CHOOSE v \in S : TRUE ELSE other

\* _with_view and merge_entry on the context, on a packet pointer, on a scalar.
ctx_from(p, b) == IF fact_of(p, b) = {} THEN {last(p).ctx} ELSE fact_of(p, b)
merge_ctx(b) == agreed(UNION {ctx_from(p, b) : p \in preds(b)}, None)
merge_ptr(b, reg) == agreed({last(p)[reg] : p \in preds(b)}, NoPtr)
merge_scalar(b) ==
  LET vals == {last(p).r : p \in preds(b)}
  IN  IF none \in vals THEN none
      ELSE agreed(vals, value(IF \E v \in vals : v.is = "unencodable" THEN "unencodable" ELSE "phi",
                              <<b, 0>>))

fresh(ctx) == [ctx |-> ctx, p |-> NoPtr, e |-> NoPtr, r |-> none, pending |-> None]

\* init_tail_entry: the contexts of the call sites.
sites(b) == {last(p).ctx : p \in {q \in preds(b) : prog.t[q] = b}}

entry_state(b) ==
  CASE b = 0 -> fresh(Entry)
    [] tail_entry(b) -> fresh(agreed(sites(b), Entry))
    [] b # 0 /\ ~tail_entry(b) ->
         [ctx |-> merge_ctx(b), p |-> merge_ptr(b, "p"), e |-> merge_ptr(b, "e"),
          r |-> merge_scalar(b), pending |-> None]

\* track_block: the state at entry; a callee has one view.
TrackEntry ==
  /\ next < N /\ ~refused /\ blk[next].at = << >>
  /\ IF tail_entry(next) /\ \E v, w \in sites(next) : v # w
     THEN refused' = TRUE /\ UNCHANGED blk
     ELSE /\ blk' = [blk EXCEPT ![next].at = <<entry_state(next)>>]
          /\ UNCHANGED refused
  /\ UNCHANGED <<inputs, next, run>>

\* One instruction; it raises on a load through, or a difference with, no pointer.
TrackOp ==
  /\ next < N /\ ~refused
  /\ LET n == Len(blk[next].at)
         s == blk[next].at[n]
         o == prog.ops[next][n]
     IN  /\ n \in 1 .. Len(prog.ops[next])
         /\ blk' = [blk EXCEPT ![next].at = Append(@, track_op(s, o, <<next, n>>))]
         /\ refused' = (o.op \in {"read", "diff"} /\ s.p = NoPtr /\ (o.op = "diff" => s.e # NoPtr))
  /\ UNCHANGED <<inputs, next, run>>

\* The branch; a comparison or a result that expr_to_z3 has no case for raises.
TrackEnd ==
  /\ next < N /\ ~refused /\ Len(blk[next].at) = Len(prog.ops[next]) + 1
  /\ LET s == last(next)
         c == prog.cond[next]
         br == track_branch(s, c)
     IN  /\ blk' = IF branch(next)
                   THEN [blk EXCEPT ![next] = [at |-> @.at, cond |-> br.cond, t |-> br.t, f |-> br.f]]
                   ELSE blk
         /\ refused' = \/ branch(next) /\ c.on = "bound" /\ ~pkt_size_check(s)
                       \/ s.r.is = "unencodable" /\ ((branch(next) /\ c.on = "ret") \/ exit(next))
  /\ next' = next + 1
  /\ UNCHANGED <<inputs, run>>

-----------------------------------------------------------------------------
(* The machine: head and tail of the frame in its buffer, whose byte at    *)
(* address a is a; p and e are addresses, dead after a call that moves the *)
(* packet, as the kernel's verifier has it; view is the last head          *)
(* adjustment that succeeded.                                              *)

succeeds(i, o, mc) ==
  /\ i[1] \in choice.ok
  /\ o.kind = "head" => mc.head + o.d >= 0 /\ mc.head + o.d < mc.tail
  /\ o.kind = "tail" => mc.tail + o.d > mc.head

exec(mc, o, i) ==
  CASE o.op = "data" -> [mc EXCEPT !.p = mc.head]
    [] o.op = "end"  -> [mc EXCEPT !.e = mc.tail]
    [] o.op = "add"  -> [mc EXCEPT !.p = @ + o.d]
    [] o.op = "read" -> [mc EXCEPT !.r = mc.p]
    [] o.op = "len"  -> [mc EXCEPT !.r = mc.tail - mc.head]
    [] o.op = "diff" -> [mc EXCEPT !.r = mc.e - mc.p]
    [] o.op = "adjust" ->
         LET ok == succeeds(i, o, mc) IN
         [head |-> IF ok /\ o.kind = "head" THEN mc.head + o.d ELSE mc.head,
          tail |-> IF ok /\ o.kind = "tail" THEN mc.tail + o.d ELSE mc.tail,
          p |-> None, e |-> None, r |-> IF ok THEN 0 ELSE -EINVAL,
          view |-> IF ok /\ o.kind = "head" THEN i ELSE mc.view]

uses_p(o) == o.op \in {"add", "read", "diff"}
\* The verifier accepts no use of a dead pointer and no read out of bounds.
permitted(mc, o) ==
  /\ uses_p(o) => mc.p # None
  /\ o.op = "diff" => mc.e # None
  /\ o.op = "read" => mc.p \in mc.head .. mc.tail - 1

-----------------------------------------------------------------------------
(* The encoder along the same path: z = [len, ok, off, r], the term        *)
(* pkt_len, the calls whose adjust_ok is true, p's offset and r, which is  *)
(* a value or, as long as it is not read, the length less an offset.       *)

bound_to(v) == [is |-> "value", v |-> v]
length_less(off) == [is |-> "length", v |-> off]
\* pkt_len is a component of the state, read where the expression is encoded.
worth(z) == IF z.r.is = "length" THEN z.len - z.r.v ELSE z.r.v

\* The operands of a JoinValue are encoded on the state at entry.
at_entry(z, s) == IF s.r.is = "phi" /\ z.r.is = "length" THEN [z EXCEPT !.r = bound_to(frame - z.r.v)]
                  ELSE z

\* Faulty variant: the tail's delta has the sign of the head's.
len_delta_same(o) == IF o.kind = "meta" THEN 0 ELSE o.d

len_delta(o) == CASE o.kind = "head" -> o.d
                  [] o.kind = "tail" -> -o.d
                  [] o.kind = "meta" -> 0

encode(z, o, i, ok) ==
  CASE o.op = "data" -> [z EXCEPT !.off = 0]
    [] o.op = "end"  -> z
    [] o.op = "add"  -> [z EXCEPT !.off = @ + o.d]
    [] o.op = "read" -> [z EXCEPT !.r = bound_to(Headroom + z.off)]
    [] o.op = "len"  -> [z EXCEPT !.r = length_less(0)]
    [] o.op = "diff" -> [z EXCEPT !.r = length_less(z.off)]
    [] o.op = "adjust" -> [z EXCEPT !.ok = IF ok THEN @ \cup {i} ELSE @ \ {i},
                                    !.len = IF ok THEN @ - len_delta(o) ELSE @,
                                    !.r = bound_to(IF ok THEN 0 ELSE -EINVAL)]

\* The comparison with the packet pointer on the left.
mirrored(code, left) ==
  IF left = "p" THEN code
  ELSE CASE code = "JGT" -> "JLT" [] code = "JGE" -> "JLE"
         [] code = "JLT" -> "JGT" [] code = "JLE" -> "JGE"

compare(code, a, b) == CASE code = "JGT" -> a > b [] code = "JGE" -> a >= b
                         [] code = "JLT" -> a < b [] code = "JLE" -> a <= b

\* The side of a branch that its condition has under the valuation.
side(cond) == IF cond THEN "taken" ELSE "fall"
to_z3(c, z) ==
  CASE c.is = "adjust_ok" -> side(c.idx \in z.ok <=> c.ok = "taken")
    [] c.is = "zero" -> side(worth(z) = 0 <=> c.code = "JEQ")
    [] c.is = "bound" -> side(compare(mirrored(c.code, c.left), z.off, z.len))

machine_taken(mc, c) ==
  CASE c.on = "ret" -> side(mc.r = 0 <=> c.code = "JEQ")
    [] c.on = "bound" -> side(IF c.left = "p" THEN compare(c.code, mc.p, mc.e)
                              ELSE compare(c.code, mc.e, mc.p))
    [] c.on \in {"tail", "free"} -> side(cur \in choice.free)

\* One instruction of the run, which stops where the verifier would.
RunOp ==
  /\ next = N /\ frame # None /\ cur # None /\ pos <= Len(prog.ops[cur])
  /\ LET o == prog.ops[cur][pos]
         i == <<cur, pos>>
     IN  /\ permitted(m, o)
         /\ m' = exec(m, o, i)
         /\ sigma' = encode(sigma, o, i, o.op = "adjust" /\ succeeds(i, o, m))
  /\ pos' = pos + 1
  /\ UNCHANGED <<inputs, next, blk, refused, cur, taken>>

\* A callee starts with nothing but its context.
enter(b) == IF b # None /\ tail_entry(b) THEN [m EXCEPT !.p = None, !.e = None, !.r = None] ELSE m

\* The end of a block, and the entry of the next; the run stops at an exit.
RunEdge ==
  /\ next = N /\ frame # None /\ cur # None /\ pos = Len(prog.ops[cur]) + 1
  /\ LET c == prog.cond[cur]
         go == IF branch(cur) THEN machine_taken(m, c)
               ELSE side(prog.t[cur] # None)
         known == branch(cur) /\ blk[cur].cond # None
     IN  /\ branch(cur) /\ c.on = "bound" => m.p # None /\ m.e # None
         /\ branch(cur) /\ c.on = "ret" => m.r # None
         /\ taken' = [on |-> IF known THEN blk[cur].cond.is ELSE "none", m |-> go,
                      z |-> IF known THEN to_z3(blk[cur].cond, sigma) ELSE "none"]
         /\ cur' = IF go = "taken" THEN prog.t[cur] ELSE prog.f[cur]
  /\ pos' = 1 /\ m' = enter(cur')
  /\ sigma' = IF cur' = None THEN sigma ELSE at_entry(sigma, blk[cur'].at[1])
  /\ UNCHANGED <<inputs, next, blk, refused>>

\* The input of the run: an outcome for each call and each unknown branch.
Feed ==
  /\ next = N /\ ~refused /\ frame = None
  /\ frame' \in Lens
  /\ choice' \in [ok : SUBSET {b \in Block : \E i \in DOMAIN prog.ops[b] : prog.ops[b][i].op = "adjust"},
                  free : SUBSET {b \in Block : branch(b) /\ prog.cond[b].on \in {"tail", "free"}}]
  /\ m' = [m EXCEPT !.tail = Headroom + frame']
  /\ sigma' = [sigma EXCEPT !.len = frame']
  /\ UNCHANGED <<prog, next, blk, refused, cur, pos, taken>>

Init ==
  /\ prog \in Programs /\ frame = None /\ choice = None
  /\ next = 0 /\ refused = FALSE
  /\ blk = [b \in Block |-> [at |-> << >>, cond |-> None, t |-> {}, f |-> {}]]
  /\ cur = 0 /\ pos = 1 /\ taken = [on |-> "none", m |-> "taken", z |-> "none"]
  /\ m = [head |-> Headroom, tail |-> Headroom, p |-> None, e |-> None, r |-> None, view |-> Entry]
  /\ sigma = [len |-> 0, ok |-> {}, off |-> 0, r |-> bound_to(0)]

Next == TrackEntry \/ TrackOp \/ TrackEnd \/ Feed \/ RunOp \/ RunEdge

Spec == Init /\ [][Next]_vars

-----------------------------------------------------------------------------
(* The view the tracker names is the view the run is in: where it knows    *)
(* the view of the context, or of a live packet pointer, that is the last  *)
(* head adjustment that succeeded on this path.                            *)
ViewSound ==
  (frame # None /\ cur # None) =>
    LET s == blk[cur].at[pos] IN
    /\ s.ctx \in {None, m.view}
    /\ m.p # None => s.p \in {NoPtr, None, m.view}
    /\ m.e # None => s.e \in {NoPtr, None, m.view}

\* A bounds check or a test of an adjust result has in the encoding the side the
\* machine takes, and the frame has the length it has, through any succession of
\* adjustments that succeed or fail.
BoundsExact ==
  /\ taken.on \in {"adjust_ok", "bound"} => taken.z = taken.m
  /\ sigma.len = m.tail - m.head

(* Every condition that track_branch records has the side the machine      *)
(* takes, tests of a length or of a joined result included.                *)
BranchExact == BoundsExact /\ (taken.on = "zero" => taken.z = taken.m)

(* A program that loads the packet pointers where it uses them, both in    *)
(* the block that compares them and after its adjustments, is not refused, *)
(* whatever views its predecessors left.                                   *)
loads(b, op, i) == \E k \in 1 .. i - 1 : prog.ops[b][k].op = op
reloads(b, op, i) == \E k \in 1 .. i - 1 :
                       /\ prog.ops[b][k].op = op
                       /\ \A l \in k + 1 .. i - 1 : prog.ops[b][l].op # "adjust"
careful ==
  /\ prog.entry = None
  /\ \A b \in Block :
       /\ prog.cond[b].on = "bound" => /\ reloads(b, "data", Len(prog.ops[b]) + 1)
                                      /\ reloads(b, "end", Len(prog.ops[b]) + 1)
       /\ \A i \in DOMAIN prog.ops[b] : /\ prog.ops[b][i].op = "read" => loads(b, "data", i)
                                        /\ prog.ops[b][i].op # "diff"
ReloadAccepted == careful => ~refused

(* The tests of r whose encoding is exact in every program: the program    *)
(* moves neither end of the packet, has no value but call results in r, or *)
(* computes r in the block of the test, and not by a read.                 *)
still == \A b \in Block : \A k \in DOMAIN prog.ops[b] :
           prog.ops[b][k].op = "adjust" => prog.ops[b][k].kind = "meta"
calls_only == \A b \in Block : \A k \in DOMAIN prog.ops[b] :
                prog.ops[b][k].op \notin {"read", "len", "diff"}
computes(b, i) == \E k \in 1 .. i - 1 :
                    /\ prog.ops[b][k].op \in {"adjust", "len", "diff"}
                    /\ \A l \in k + 1 .. i - 1 : prog.ops[b][l].op # "read"
settled(b, i) == still \/ calls_only \/ computes(b, i)
settles == \A b \in Block : prog.cond[b].on = "ret" => settled(b, Len(prog.ops[b]) + 1)

(* What the encoder makes of the last value loaded or measured is what the *)
(* machine has in the register.                                            *)
ValueExact == m.r # None => worth(sigma) = m.r

-----------------------------------------------------------------------------
(* The inductive invariant behind these properties. *)

Site == Block \X Nat                    \* an instruction: its block and place
View == {Entry} \cup Site
Known == View \cup {None}
Scalar == [is : {"none", "byte", "len", "unencodable", "ret", "phi"}, idx : Site \cup {None}]
State == [ctx : Known, p : Known \cup {NoPtr}, e : Known \cup {NoPtr}, r : Scalar,
          pending : {None} \cup [idx : Site, before : Known]]
Condition == [is : {"adjust_ok"}, idx : Site \cup {None}, ok : {"taken", "fall"}]
             \cup [is : {"zero"}, code : {"JEQ", "JNE"}]
             \cup [is : {"bound"}, code : Code, left : {"p", "e"}] \cup {None}
Machine == [head : Int, tail : Int, p : Int \cup {None}, e : Int \cup {None},
            r : Int \cup {None}, view : View]
Encoder == [len : Int, ok : SUBSET Site, off : Int, r : [is : {"value", "length"}, v : Int]]

TypeOK ==
  /\ prog \in Programs /\ frame \in Lens \cup {None}
  /\ next \in 0 .. N
  /\ blk \in [Block -> [at : Seq(State), cond : Condition, t : SUBSET Known, f : SUBSET Known]]
  /\ cur \in Block \cup {None} /\ pos \in Nat \ {0}
  /\ m \in Machine /\ sigma \in Encoder

\* What the state at the start of a block has of each predecessor.
joined(b) ==
  LET s == blk[b].at[1] IN
  /\ s.pending = None
  /\ b = 0 => s = fresh(Entry)
  /\ tail_entry(b) => s.p = NoPtr /\ s.e = NoPtr /\ s.r = none
  /\ \A p \in preds(b) :
       IF tail_entry(b) THEN s.ctx = last(p).ctx
       ELSE /\ s.ctx # None => ctx_from(p, b) = {s.ctx}
            /\ s.p \in {NoPtr, last(p).p} /\ s.e \in {NoPtr, last(p).e}
            /\ s.r.is = "ret" => s.r = last(p).r

\* Each state of a block comes from the one before it, and what the branch left
\* comes from the last.
steps(b) ==
  LET at == blk[b].at IN
  /\ Len(at) <= Len(prog.ops[b]) + 1
  /\ \A i \in 1 .. Len(at) - 1 : at[i + 1] = track_op(at[i], prog.ops[b][i], <<b, i>>)
  /\ \A i \in 1 .. Len(at) : at[i].pending # None =>
        at[i].pending.idx[1] = b /\ at[i].pending.idx[2] < i
ended(b) ==
  /\ Len(blk[b].at) = Len(prog.ops[b]) + 1
  /\ branch(b) => LET br == track_branch(last(b), prog.cond[b])
                  IN  blk[b].cond = br.cond /\ blk[b].t = br.t /\ blk[b].f = br.f
  /\ ~branch(b) => blk[b].t = {} /\ blk[b].f = {}

\* Tracker has done the blocks before next and a first part of next.
TrackInv ==
  \A b \in Block :
    /\ b > next => blk[b].at = << >>
    /\ b < next => ended(b)
    /\ b >= next => blk[b].t = {} /\ blk[b].f = {}
    /\ steps(b)
    /\ blk[b].at # << >> => joined(b)

\* The run and the encoder agree on the frame, where no term is negative, and on the
\* call whose result is in r.
RunInv ==
  /\ frame = None => /\ cur = 0 /\ pos = 1
                     /\ m.head = Headroom /\ m.view = Entry /\ m.p = None /\ m.e = None
  /\ frame # None => next = N
  /\ sigma.len = m.tail - m.head
  /\ sigma.len >= 0 /\ sigma.off >= 0
  /\ m.p # None => m.p = m.head + sigma.off
  /\ m.e # None => m.e = m.tail
  /\ frame # None /\ cur # None =>
       LET s == blk[cur].at[pos] IN
       /\ pos <= Len(prog.ops[cur]) + 1
       /\ s.r.is = "ret" /\ m.r # None => (m.r = 0 <=> s.r.idx \in sigma.ok)

\* The pending call is the view where it succeeded; the one before it is right
\* where it failed.
PendingInv ==
  frame # None /\ cur # None =>
    LET s == blk[cur].at[pos] IN
    s.pending # None /\ s.pending.idx = s.r.idx /\ m.r # None =>
      IF m.r = 0 THEN m.view = s.pending.idx ELSE s.pending.before \in {None, m.view}

\* The encoder's r is the machine's where r is settled; the frame that stays as it is,
\* and the r that is never a length, keep it so across a join.
ValueInv ==
  /\ calls_only => sigma.r.is = "value"
  /\ frame # None /\ still => m.head = Headroom /\ sigma.len = frame
  /\ frame = None => m.r = None
  /\ frame # None /\ cur # None /\ m.r # None /\ settled(cur, pos) => worth(sigma) = m.r

\* What a careful program has loaded.
CarefulInv ==
  careful => /\ ~refused
             /\ \A b \in Block : \A i \in 1 .. Len(blk[b].at) :
                  LET s == blk[b].at[i] IN
                  /\ loads(b, "data", i) => s.p # NoPtr
                  /\ reloads(b, "data", i) => s.p = s.ctx
                  /\ reloads(b, "end", i) => s.e = s.ctx
                  /\ s.r.is # "unencodable"

IndInv == TypeOK /\ TrackInv /\ RunInv /\ CarefulInv /\ BoundsExact

\* No conditional jump leads to the next instruction: merge_predecessors would
\* give both its edges the facts of the fall-through.
DistinctEdges ==
  \A pr \in Programs : \A b \in Block : pr.t[b] # None => pr.t[b] # pr.f[b]
=============================================================================
