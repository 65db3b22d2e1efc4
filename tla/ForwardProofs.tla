------------------------------ MODULE ForwardProofs ------------------------------
(***************************************************************************)
(* The encoding of Forward agrees with the run, for every program, input,   *)
(* query and order of the walk: reach conditions, reads, the states that    *)
(* conditions are decided in and the return values.                         *)
(***************************************************************************)
EXTENDS ForwardRunProofs, WellFoundedInduction

\* The slice and the relevant regions are closed.
CtxInv ==
  /\ phase \in {"track", "run", "slice"} => slice = {} /\ rest = {} /\ cur_block = None
  /\ phase \in {"walk", "done"} =>
       /\ query \in Queries /\ slice \subseteq Block
       /\ query.regions \subseteq relevant /\ relevant \subseteq Region /\ fold \subseteq relevant
       /\ fed(slice, relevant)
       /\ \A b \in slice : /\ branch_uses(b) \subseteq relevant
                           /\ b \in exits => out(b).uses \subseteq relevant
                           /\ \A c \in anc[b] : c \in slice /\ c < b
                           /\ Ran(b) => \A c \in Block : Ran(c) /\ c < b => c \in anc[b]

visited(b) == Walked(b) \/ b = cur_block

WalkType ==
  /\ rest \subseteq slice /\ cur_block \in rest \cup {None}
  /\ phase = "done" => cur_block = None
  /\ \A b \in Block : \E S : reads[b] \in Seq(S)
  /\ \A b \in Block :
       /\ Walked(b) => Len(reads[b]) = size(b)
       /\ b = cur_block => Len(reads[b]) <= size(b)
       /\ ~visited(b) => reads[b] = << >>
       /\ ~Walked(b) => info[b] = absent
  /\ DOMAIN info = Block /\ DOMAIN reads = Block /\ DOMAIN phival = Block

WalkReach ==
  /\ cur_block # None => cur_reach \in Guard /\ (holds(cur_reach) <=> Ran(cur_block))
  /\ \A b \in Block : Walked(b) =>
       /\ {info[b].reach, info[b].edge_taken, info[b].edge_fall} \subseteq Guard
       /\ holds(info[b].reach) <=> Ran(b)
       /\ ~branch(b) => info[b].edge_taken = "True" /\ info[b].edge_fall = "True"
       /\ branch(b) /\ Ran(b) => /\ holds(info[b].edge_taken) <=> takes(b)
                                 /\ holds(info[b].edge_fall) <=> ~takes(b)

\* The blocks that ran before a visited one are walked.
WalkChain == \A b, c \in Block : visited(b) /\ Ran(b) /\ Ran(c) /\ c < b => Walked(c)

right(b, i) ==
  LET o == prog.ops[b][i]
      mc == trace[b][i]
  IN  /\ is_source(o) /\ blk[b].at[i + 1].uses \subseteq relevant => reads[b][i] = trace[b][i + 1].reg
      /\ o.op = "update" /\ "map" \in relevant =>
           (reads[b][i] = 1 <=> applies(o.flags, keyof(mc, o) \in mc.present))
WalkReads == \A b \in Block : visited(b) /\ Ran(b) => \A i \in 1..Len(reads[b]) : right(b, i)

WalkPhis ==
  \A b \in Block : visited(b) /\ Ran(b) /\ blk[b].groups # {} /\ blk[b].at[1].uses \subseteq relevant =>
    phival[b] = trace[b][1].reg

\* sigma is the memory of the machine state mc in every region it is kept for.
agrees(sigma, mc) ==
  /\ sigma \in Memory
  /\ \A c \in Cell : c \in relevant /\ c \notin fold => sigma.cell[c] = mc.cell[c]
  /\ "map" \in relevant /\ "map" \notin fold => sigma.present = mc.present /\ sigma.value = mc.value
WalkSigma ==
  \A b \in Block : Ran(b) =>
    /\ Walked(b) => agrees(info[b].sigma, end(b))
    /\ b = cur_block => agrees(cur_sigma, trace[b][Len(reads[b]) + 1])


Walking == phase \in {"walk", "done"}
WalkInv == WalkType /\ WalkReach /\ WalkChain /\ WalkReads /\ WalkPhis /\ WalkSigma
Inv == TrackInv /\ RunInv /\ CtxInv /\ WalkInv

-----------------------------------------------------------------------------
(* The finished run and the context. *)

\* Types, once the run is over.
LEMMA EndFacts ==
  ASSUME TrackInv, RunInv, Walking
  PROVE  /\ prog \in Programs /\ cur \in Block /\ init \in Input /\ 0 \in Block /\ Ran(0)
         /\ trace[0][1] = [reg |-> 0, cell |-> init.cell, present |-> init.present, value |-> init.value]
         /\ \A b \in Block : /\ size(b) \in Nat /\ b \in Int /\ b >= 0 /\ b # None
                             /\ Len(blk[b].at) = size(b) + 1 /\ out(b) = blk[b].at[size(b) + 1]
                             /\ \A i \in 1..(size(b) + 1) : blk[b].at[i] \in Expr
                             /\ \A i \in 1..size(b) : prog.ops[b][i] \in Op
         /\ \A b \in Block : Ran(b) => /\ Len(trace[b]) = size(b) + 1 /\ complete(b)
                                       /\ \A i \in 1..(size(b) + 1) : trace[b][i] \in Machine
<1>1. /\ prog \in Programs /\ cur \in Block /\ init \in Input /\ Ran(0) /\ complete(cur)
      /\ trace[0][1] = [reg |-> 0, cell |-> init.cell, present |-> init.present, value |-> init.value]
      /\ trace \in [Block -> Seq(Machine)]
  BY DEF TrackInv, TrackType, RunInv, RunType, Walking
<1>2. \A b \in Block : tracked(b) /\ blk[b].at \in Seq(Expr)
  BY DEF TrackInv, TrackType, Tracked, Walking
<1>3. 0 \in Block /\ \A b \in Block : b \in Int /\ b >= 0 /\ b # None
  BY NAssumption, NamesAssumption DEF Block
<1>4. ASSUME NEW b \in Block
      PROVE  /\ size(b) \in Nat /\ Len(blk[b].at) = size(b) + 1 /\ out(b) = blk[b].at[size(b) + 1]
             /\ \A i \in 1..(size(b) + 1) : blk[b].at[i] \in Expr
             /\ \A i \in 1..size(b) : prog.ops[b][i] \in Op
  <2>1. size(b) \in Nat /\ \A i \in 1..size(b) : prog.ops[b][i] \in Op
    BY <1>1, ProgFacts
  <2>2. Len(blk[b].at) = size(b) + 1 /\ blk[b].at \in Seq(Expr)
    BY <1>2 DEF tracked
  <2>3. \A i \in 1..(size(b) + 1) : blk[b].at[i] \in Expr
    BY <2>2, LenFacts
  <2> QED
    BY <2>1, <2>2, <2>3 DEF out
<1>5. ASSUME NEW b \in Block, Ran(b)
      PROVE  /\ Len(trace[b]) = size(b) + 1 /\ complete(b)
             /\ \A i \in 1..(size(b) + 1) : trace[b][i] \in Machine
  <2>1. b <= cur /\ (b < cur => complete(b))
    BY <1>5 DEF RunInv, RunPath
  <2>2. complete(b)
    BY <1>1, <1>3, <2>1
  <2>3. Len(trace[b]) = size(b) + 1 /\ trace[b] \in Seq(Machine)
    BY <1>1, <2>2 DEF complete
  <2> QED
    BY <2>2, <2>3, LenFacts
<1> QED
  BY <1>1, <1>3, <1>4, <1>5

\* Where the run went.
LEMMA PathFacts ==
  ASSUME Ordered, TrackInv, RunInv, Walking, NEW b \in Block
  PROVE  /\ \A p \in Block : Ran(p) /\ p \notin exits =>
              /\ Ran(goes(p)) /\ trace[goes(p)][1] = end(p)
              /\ \A c \in Block : Ran(c) => c <= p \/ goes(p) <= c
         /\ Ran(b) /\ b # 0 => \E p \in preds(b) : Ran(p) /\ goes(p) = b /\ trace[b][1] = end(p)
         /\ \A p, q \in preds(b) : Ran(p) /\ goes(p) = b /\ Ran(q) /\ goes(q) = b => p = q
         /\ \A p \in preds(b) : p \in Block /\ p < b /\ p \notin exits
<1>1. prog \in Programs /\ cur \in exits /\ cur \in Block /\ \A c \in Block : c \in Int
  BY EndFacts DEF RunInv, RunType, Walking
<1>2. ASSUME NEW p \in Block, Ran(p), p \notin exits
      PROVE  /\ Ran(goes(p)) /\ trace[goes(p)][1] = end(p)
             /\ \A c \in Block : Ran(c) => c <= p \/ goes(p) <= c
  <2>1. p <= cur /\ p # cur
    BY <1>1, <1>2 DEF RunInv, RunPath
  <2>2. p < cur
    BY <1>1, <2>1
  <2> QED
    BY <1>2, <2>2 DEF RunInv, RunPath
<1>3. \A p \in preds(b) : p \in Block /\ p < b /\ p \notin exits
  <2> SUFFICES ASSUME NEW p \in preds(b) PROVE p \in Block /\ p < b /\ p \notin exits
    OBVIOUS
  <2>1. p \in Block /\ p < b
    BY <1>1, EdgeFacts
  <2> QED
    BY <2>1 DEF preds, exits
<1>4. ASSUME Ran(b), b # 0 PROVE \E p \in preds(b) : Ran(p) /\ goes(p) = b /\ trace[b][1] = end(p)
  <2>1. PICK p \in Block : p < b /\ Ran(p) /\ goes(p) = b
    BY <1>4 DEF RunInv, RunPath
  <2>2. p < cur
    BY <1>1, <1>4, <2>1 DEF RunInv, RunPath
  <2>3. p \notin exits
    BY <2>1, <2>2 DEF RunInv, RunPath
  <2>4. p \in preds(b)
    BY <1>1, <2>1, <2>3, GoesFacts
  <2> QED
    BY <1>2, <2>1, <2>3, <2>4
<1>5. ASSUME NEW p \in preds(b), NEW q \in preds(b), Ran(p), goes(p) = b, Ran(q), goes(q) = b PROVE p = q
  <2>1. q <= p \/ b <= q
    BY <1>2, <1>3, <1>5
  <2>2. p <= q \/ b <= p
    BY <1>2, <1>3, <1>5
  <2> QED
    BY <1>1, <1>3, <2>1, <2>2
<1> QED
  BY <1>2, <1>3, <1>4, <1>5

\* The regions of expressions.
LEMMA UsesFacts ==
  ASSUME TrackInv, RunInv, Walking, NEW b \in Block
  PROVE  /\ out(b).uses \subseteq Region /\ branch_uses(b) \subseteq Region
         /\ \A i \in 1..size(b) : /\ blk[b].at[i].uses \subseteq Region
                                  /\ write_uses(b, i) \subseteq Region
<1>1. /\ size(b) \in Nat /\ out(b) = blk[b].at[size(b) + 1]
      /\ \A i \in 1..(size(b) + 1) : blk[b].at[i] \in Expr
  BY EndFacts
<1>2. \A e \in Expr : e.uses \subseteq Region
  BY DEF Expr
<1>3. out(b) \in Expr /\ \A i \in 1..size(b) : blk[b].at[i] \in Expr
  BY <1>1
<1>4. out(b).uses \subseteq Region /\ branch_uses(b) \subseteq Region
  BY <1>2, <1>3 DEF branch_uses
<1>5. ASSUME NEW i \in 1..size(b) PROVE write_uses(b, i) \subseteq Region
  <2>1. blk[b].at[i].uses \subseteq Region
    BY <1>2, <1>3
  <2>2. key_expr(prog.ops[b][i], blk[b].at[i]).uses \subseteq Region
    BY <2>1 DEF key_expr, Num
  <2> QED
    BY <2>1, <2>2 DEF write_uses
<1> QED
  BY <1>2, <1>3, <1>4, <1>5

\* relevant_regions is closed under what feeds it.
LEMMA RelevantFacts ==
  ASSUME \A b \in Block : /\ out(b).uses \subseteq Region /\ branch_uses(b) \subseteq Region
                          /\ \A i \in 1..size(b) : write_uses(b, i) \subseteq Region,
         NEW q \in Query, NEW S \in SUBSET Block, NEW R, R = relevant_regions(q, S)
  PROVE  /\ R \subseteq Region /\ q.regions \subseteq R /\ fed(S, R)
         /\ \A b \in S : branch_uses(b) \subseteq R /\ (b \in exits => out(b).uses \subseteq R)
<1> DEFINE A == UNION {out(b).uses : b \in exits \cap S}
           B == UNION {branch_uses(b) : b \in S}
<1>1. PICK start : start = q.regions \cup A \cup B
  OBVIOUS
<1>2. R = {r \in Region : \A T \in SUBSET Region : start \subseteq T /\ fed(S, T) => r \in T}
  BY <1>1 DEF relevant_regions
<1>3. \A x : x \in A <=> \E b \in exits \cap S : x \in out(b).uses
  BY Zenon
<1>4. \A x : x \in B <=> \E b \in S : x \in branch_uses(b)
  BY Zenon
<1> HIDE DEF A, B
<1>5. /\ q.regions \subseteq start
      /\ \A b \in S : branch_uses(b) \subseteq start /\ (b \in exits => out(b).uses \subseteq start)
  <2>1. q.regions \subseteq start
    BY <1>1, Zenon
  <2>2. ASSUME NEW b \in S, NEW x \in branch_uses(b) PROVE x \in start
    BY <1>1, <1>4, <2>2
  <2>3. ASSUME NEW b \in S, b \in exits, NEW x \in out(b).uses PROVE x \in start
    BY <1>1, <1>3, <2>3
  <2> QED
    BY <2>1, <2>2, <2>3
<1>6. start \subseteq Region
  <2>1. q.regions \subseteq Region
    BY DEF Query
  <2>2. ASSUME NEW x \in start PROVE x \in Region
    <3>1. CASE x \in q.regions
      BY <2>1, <3>1
    <3>2. CASE \E b \in exits \cap S : x \in out(b).uses
      BY <3>2
    <3>3. CASE \E b \in S : x \in branch_uses(b)
      BY <3>3
    <3> QED
      BY <1>1, <1>3, <1>4, <2>2, <3>1, <3>2, <3>3
  <2> QED
    BY <2>2
<1>7. start \subseteq R
  BY <1>2, <1>6
<1>8. ASSUME NEW b \in S, NEW i \in 1..size(b), is_write(prog.ops[b][i]), region(prog.ops[b][i]) \in R,
             NEW x \in write_uses(b, i)
      PROVE  x \in R
  <2>1. x \in Region
    BY <1>8
  <2> SUFFICES ASSUME NEW T \in SUBSET Region, start \subseteq T, fed(S, T) PROVE x \in T
    BY <1>2, <2>1
  <2>2. region(prog.ops[b][i]) \in T
    BY <1>2, <1>8
  <2> QED
    BY <1>8, <2>2 DEF fed
<1>9. fed(S, R)
  BY <1>8 DEF fed
<1> QED
  BY <1>2, <1>5, <1>7, <1>9

\* The blocks that ran before a block of the slice are in the slice.
LEMMA SliceFacts ==
  ASSUME Ordered, TrackInv, RunInv, prog \in Programs, NEW q \in Query, NEW S, S = block_slice(q)
  PROVE  /\ S \subseteq Block
         /\ \A b \in S : /\ \A c \in before(preds(b)) : c < b
                         /\ Ran(b) => \A c \in Block : Ran(c) /\ c < b => c \in before(preds(b)) \cap S
<1>1. live \subseteq Block /\ 0 \in Block /\ \A b \in Block : b >= 0
  BY NAssumption DEF live, Block
<1>2. S \subseteq Block
  BY <1>1 DEF block_slice
<1>3. ASSUME NEW b \in S, Ran(b), NEW c \in Block, Ran(c), c < b PROVE c \in before(preds(b)) \cap S
  <2>1. c \in before(preds(b)) /\ c \in live
    BY <1>2, <1>3 DEF RunInv, RunPath
  <2>2. CASE q.targets = None
    BY <2>1, <2>2 DEF block_slice
  <2>3. CASE q.targets # None
    <3>1. PICK T : T = q.targets \cap live
      OBVIOUS
    <3>2. S = {0} \cup (before(T) \cap live) /\ T \in SUBSET Block
      BY <1>1, <2>3, <3>1 DEF block_slice
    <3>3. b # 0
      BY <1>1, <1>3 DEF Block
    <3>4. b \in before(T)
      BY <3>2, <3>3
    <3>5. c \in before(T)
      BY <2>1, <3>2, <3>4, BeforeTrans
    <3> QED
      BY <2>1, <3>2, <3>5
  <2> QED
    BY <2>2, <2>3
<1>4. ASSUME NEW b \in S, NEW c \in before(preds(b)) PROVE c < b
  BY <1>2, <1>4, BeforeBelow
<1> QED
  BY <1>2, <1>3, <1>4

\* What fed and the uses say depends on the tracked program only.
LEMMA FedFrame ==
  ASSUME UNCHANGED trackVars
  PROVE  /\ \A S \in SUBSET Block : \A R : fed(S, R)' <=> fed(S, R)
         /\ exits' = exits
         /\ \A b \in Block : branch_uses(b)' = branch_uses(b) /\ out(b)' = out(b)
<1>1. prog' = prog /\ blk' = blk
  BY DEF trackVars
<1>2. \A b \in Block : size(b)' = size(b) /\ branch_uses(b)' = branch_uses(b) /\ out(b)' = out(b)
  BY <1>1 DEF size, branch_uses, branch, out
<1>3. \A b \in Block : \A i \in 1..size(b) : write_uses(b, i)' = write_uses(b, i)
  BY <1>1 DEF write_uses
<1>4. exits' = exits
  BY <1>1 DEF exits, successors
<1>5. \A S \in SUBSET Block : \A R : fed(S, R)' <=> fed(S, R)
  BY <1>1, <1>2, <1>3 DEF fed
<1> QED
  BY <1>2, <1>4, <1>5

\* ForwardContext.__init__ sets the context up.
LEMMA CtxStart ==
  ASSUME Ordered, TrackInv, RunInv, CtxInv, StartWalk
  PROVE  CtxInv'
<1>1. /\ UNCHANGED trackVars /\ trace' = trace /\ phase = "slice" /\ phase' = "walk"
  BY DEF StartWalk, runVars
<1>2. PICK q : q = query'
  OBVIOUS
<1>3. PICK S : S = slice'
  OBVIOUS
<1>4. PICK R : R = relevant'
  OBVIOUS
<1>5. /\ q \in Queries /\ q \in Query /\ S = block_slice(q) /\ R = relevant_regions(q, S)
      /\ fold' \subseteq R /\ anc' = [b \in Block |-> before(preds(b)) \cap S]
  BY <1>2, <1>3, <1>4, QueriesAssumption DEF StartWalk
<1>6. prog \in Programs
  BY DEF TrackInv, TrackType
<1>7. /\ S \subseteq Block
      /\ \A b \in S : /\ \A c \in before(preds(b)) : c < b
                      /\ Ran(b) => \A c \in Block : Ran(c) /\ c < b => c \in before(preds(b)) \cap S
  BY <1>5, <1>6, SliceFacts
<1>8. ASSUME NEW b \in Block
      PROVE  /\ out(b).uses \subseteq Region /\ branch_uses(b) \subseteq Region
             /\ \A i \in 1..size(b) : write_uses(b, i) \subseteq Region
  <2>1. /\ size(b) \in Nat /\ blk[b].at \in Seq(Expr) /\ Len(blk[b].at) = size(b) + 1
    BY <1>1, <1>6, ProgFacts DEF TrackInv, TrackType, Tracked, tracked
  <2>2. \A i \in 1..(size(b) + 1) : blk[b].at[i] \in Expr
    BY <2>1, LenFacts
  <2>3. \A e \in Expr : e.uses \subseteq Region
    BY DEF Expr
  <2>4. out(b).uses \subseteq Region /\ \A i \in 1..size(b) : blk[b].at[i].uses \subseteq Region
    BY <2>1, <2>2, <2>3 DEF out
  <2>5. \A i \in 1..size(b) : key_expr(prog.ops[b][i], blk[b].at[i]).uses \subseteq Region
    BY <2>4 DEF key_expr, Num
  <2> QED
    BY <2>4, <2>5 DEF branch_uses, write_uses
<1>9. /\ R \subseteq Region /\ q.regions \subseteq R /\ fed(S, R)
      /\ \A b \in S : branch_uses(b) \subseteq R /\ (b \in exits => out(b).uses \subseteq R)
  BY <1>5, <1>7, <1>8, RelevantFacts
<1>10. /\ fed(S, R)' /\ exits' = exits
       /\ \A b \in Block : branch_uses(b)' = branch_uses(b) /\ out(b)' = out(b)
  BY <1>1, <1>7, <1>9, FedFrame
<1>11. fed(slice, relevant)'
  BY <1>3, <1>4, <1>10 DEF fed
<1>12. \A b \in Block : Ran(b)' <=> Ran(b)
  BY <1>1 DEF Ran
<1>13. \A b \in S : /\ \A c \in anc'[b] : c \in S /\ c < b
                    /\ Ran(b)' => \A c \in Block : Ran(c)' /\ c < b => c \in anc'[b]
  <2> SUFFICES ASSUME NEW b \in S
               PROVE  /\ \A c \in anc'[b] : c \in S /\ c < b
                      /\ Ran(b)' => \A c \in Block : Ran(c)' /\ c < b => c \in anc'[b]
    OBVIOUS
  <2>1. anc'[b] = before(preds(b)) \cap S /\ b \in Block
    BY <1>5, <1>7
  <2> QED
    BY <1>7, <1>12, <2>1
<1>14. \A b \in S : branch_uses(b)' \subseteq R /\ (b \in exits' => out(b)'.uses \subseteq R)
  BY <1>7, <1>9, <1>10
<1> QED
  BY <1>1, <1>2, <1>3, <1>4, <1>5, <1>7, <1>9, <1>11, <1>13, <1>14 DEF CtxInv

\* The context stays.
LEMMA CtxFrame ==
  ASSUME CtxInv, UNCHANGED trackVars, UNCHANGED runVars, UNCHANGED ctxVars, Walking, phase' \in {"walk", "done"}
  PROVE  CtxInv'
<1>1. /\ trace' = trace /\ query' = query /\ slice' = slice /\ relevant' = relevant
      /\ fold' = fold /\ anc' = anc
  BY DEF runVars, ctxVars
<1>2. slice \subseteq Block
  BY DEF CtxInv, Walking
<1>3. /\ exits' = exits /\ (fed(slice, relevant)' <=> fed(slice, relevant))
      /\ \A b \in Block : branch_uses(b)' = branch_uses(b) /\ out(b)' = out(b)
  <2>1. \A S \in SUBSET Block : \A R : fed(S, R)' <=> fed(S, R)
    BY FedFrame
  <2>2. fed(slice, relevant)' <=> fed(slice, relevant)
    BY <1>1, <1>2, <2>1 DEF fed
  <2> QED
    BY <2>2, FedFrame
<1>4. \A b \in Block : Ran(b)' <=> Ran(b)
  BY <1>1 DEF Ran
<1>5. \A b \in slice : /\ branch_uses(b)' \subseteq relevant
                       /\ b \in exits' => out(b)'.uses \subseteq relevant
                       /\ \A c \in anc[b] : c \in slice /\ c < b
                       /\ Ran(b)' => \A c \in Block : Ran(c)' /\ c < b => c \in anc[b]
  BY <1>2, <1>3, <1>4 DEF CtxInv, Walking
<1> QED
  BY <1>1, <1>3, <1>5 DEF CtxInv, Walking

-----------------------------------------------------------------------------
(* Guards. *)

LEMMA GuardFacts ==
  ASSUME NEW a \in Guard, NEW b \in Guard
  PROVE  /\ _and(a, b) \in Guard /\ (holds(_and(a, b)) <=> holds(a) /\ holds(b))
         /\ _not(a) \in Guard /\ (holds(_not(a)) <=> ~holds(a))
<1>1. a \in {"True", "False", "true", "false"} /\ b \in {"True", "False", "true", "false"}
  BY DEF Guard
<1>2. _and(a, b) \in Guard /\ (holds(_and(a, b)) <=> holds(a) /\ holds(b))
  BY <1>1 DEF _and, Formula, holds, Guard
<1>3. _not(a) \in Guard /\ (holds(_not(a)) <=> ~holds(a))
  BY <1>1 DEF _not, Formula, Lit, holds, Guard
<1> QED
  BY <1>2, <1>3

LEMMA FormulaFacts ==
  ASSUME NEW P
  PROVE  /\ Formula(P) \in Guard /\ (holds(Formula(P)) <=> P)
         /\ Lit(P) \in Guard /\ (holds(Lit(P)) <=> P)
<1>1. CASE P
  <2>1. Formula(P) = "true" /\ Lit(P) = "True"
    BY <1>1, Zenon DEF Formula, Lit
  <2>2. Formula(P) \in Guard /\ holds(Formula(P)) /\ Lit(P) \in Guard /\ holds(Lit(P))
    BY <2>1 DEF holds, Guard
  <2> QED
    BY <1>1, <2>2, Zenon
<1>2. CASE ~P
  <2>1. Formula(P) = "false" /\ Lit(P) = "False"
    BY <1>2, Zenon DEF Formula, Lit
  <2>2. Formula(P) \in Guard /\ ~holds(Formula(P)) /\ Lit(P) \in Guard /\ ~holds(Lit(P))
    BY <2>1 DEF holds, Guard
  <2> QED
    BY <1>2, <2>2, Zenon
<1> QED
  BY <1>1, <1>2, Zenon

LEMMA OrFacts ==
  ASSUME NEW gs \in SUBSET Guard
  PROVE  _or_all(gs) \in Guard /\ (holds(_or_all(gs)) <=> \E g \in gs : holds(g))
<1>1. CASE gs \ {"False"} = {}
  <2>1. _or_all(gs) = "False" /\ \A g \in gs : g = "False"
    BY <1>1 DEF _or_all
  <2> QED
    BY <2>1 DEF holds, Guard
<1>2. CASE "True" \in gs
  <2>1. _or_all(gs) = "True"
    BY <1>2 DEF _or_all
  <2> QED
    BY <1>2, <2>1 DEF holds, Guard
<1>3. CASE gs \ {"False"} # {} /\ "True" \notin gs
  <2>1. _or_all(gs) = IF "true" \in gs THEN "true" ELSE "false"
    BY <1>3 DEF _or_all, Formula
  <2>2. \A g \in gs : holds(g) <=> g = "true"
    BY <1>3 DEF holds
  <2> QED
    BY <2>1, <2>2 DEF holds, Guard
<1> QED
  BY <1>1, <1>2, <1>3

\* The reach conditions the walk has found so far.
LEMMA ReachFacts ==
  ASSUME Inv, Walking, NEW b \in Block
  PROVE  /\ holds(reach(b)) <=> visited(b) /\ Ran(b)
         /\ visited(b) => b \in slice
         /\ ~Walked(b) => info[b] = absent
<1>1. b # None
  BY NamesAssumption
<1>2. visited(b) => b \in slice
  BY <1>1 DEF Inv, WalkInv, WalkType, visited, Walked
<1>3. ~Walked(b) => info[b] = absent
  BY DEF Inv, WalkInv, WalkType
<1>4. CASE b = cur_block
  <2>1. holds(cur_reach) <=> Ran(b)
    BY <1>1, <1>4 DEF Inv, WalkInv, WalkReach
  <2> QED
    BY <1>2, <1>3, <1>4, <2>1 DEF reach, visited
<1>5. CASE b # cur_block /\ Walked(b)
  <2>1. holds(info[b].reach) <=> Ran(b)
    BY <1>5 DEF Inv, WalkInv, WalkReach
  <2> QED
    BY <1>2, <1>3, <1>5, <2>1 DEF reach, visited
<1>6. CASE b # cur_block /\ ~Walked(b)
  <2>1. info[b].reach = "False"
    BY <1>3, <1>6 DEF absent
  <2>2. ~holds(reach(b)) /\ ~visited(b)
    BY <1>6, <2>1 DEF reach, visited, holds
  <2> QED
    BY <1>2, <1>3, <2>2
<1> QED
  BY <1>4, <1>5, <1>6

\* The edges into b, by where they lead.
into(e, b) == e \in Edge /\ b = IF e[2] = "taken" THEN prog.t[e[1]] ELSE prog.f[e[1]]

\* The guard of an edge into the next block holds when the run takes the edge.
LEMMA EdgeGuardFacts ==
  ASSUME Ordered, Inv, Walking, NEW b \in slice, preds(b) \cap rest = {}, NEW e, into(e, b)
  PROVE  /\ e[1] \in preds(b) /\ edge_guard(e) \in Guard
         /\ holds(edge_guard(e)) <=> Ran(e[1]) /\ goes(e[1]) = b
         /\ Ran(e[1]) /\ goes(e[1]) = b => Walked(e[1])
<1>1. PICK p : p = e[1]
  OBVIOUS
<1>2. /\ p \in Block /\ e[2] \in {"taken", "fall"} /\ b \in Block /\ b # None
      /\ b = IF e[2] = "taken" THEN prog.t[p] ELSE prog.f[p]
  BY <1>1, NamesAssumption DEF into, Edge, Inv, CtxInv, Walking
<1>3. p \in preds(b) /\ prog \in Programs /\ p \notin rest
  BY <1>2 DEF preds, successors, Inv, TrackInv, TrackType
<1>4. prog.t[p] = prog.f[p] => prog.t[p] = None
  BY <1>2, <1>3, EdgeFacts
<1>5. p < b /\ p \notin exits
  BY <1>2, <1>3, PathFacts DEF Inv
<1>6. PICK g : g = IF e[2] = "taken" THEN info[p].edge_taken ELSE info[p].edge_fall
  OBVIOUS
<1>7. edge_guard(e) = _and(info[p].reach, g)
  BY <1>1, <1>6 DEF edge_guard
<1>8. CASE p \in slice
  <2>1. Walked(p)
    BY <1>3, <1>8 DEF Walked
  <2>2. info[p].reach \in Guard /\ g \in Guard /\ (holds(info[p].reach) <=> Ran(p))
    BY <1>2, <1>6, <2>1 DEF Inv, WalkInv, WalkReach
  <2>3. Ran(p) => (holds(g) <=> goes(p) = b)
    <3>1. CASE branch(p) /\ Ran(p)
      <4>1. (holds(info[p].edge_taken) <=> takes(p)) /\ (holds(info[p].edge_fall) <=> ~takes(p))
        BY <1>2, <2>1, <3>1 DEF Inv, WalkInv, WalkReach
      <4>2. prog.t[p] # prog.f[p]
        BY <1>4, <3>1 DEF branch
      <4>3. CASE e[2] = "taken"
        BY <1>2, <1>6, <4>1, <4>2, <4>3 DEF goes
      <4>4. CASE e[2] = "fall"
        BY <1>2, <1>6, <4>1, <4>2, <4>4 DEF goes
      <4> QED
        BY <1>2, <4>3, <4>4
    <3>2. CASE ~branch(p)
      <4>1. g = "True"
        BY <1>2, <1>6, <2>1, <3>2 DEF Inv, WalkInv, WalkReach
      <4>2. goes(p) = b
        BY <1>2, <3>2 DEF goes, takes, branch
      <4> QED
        BY <4>1, <4>2 DEF holds
    <3> QED
      BY <3>1, <3>2
  <2>4. edge_guard(e) \in Guard /\ (holds(edge_guard(e)) <=> holds(info[p].reach) /\ holds(g))
    <3>1. PICK r : r = info[p].reach
      OBVIOUS
    <3>2. r \in Guard /\ g \in Guard
      BY <2>2, <3>1
    <3>3. _and(r, g) \in Guard /\ (holds(_and(r, g)) <=> holds(r) /\ holds(g))
      BY <3>2, GuardFacts
    <3> QED
      BY ONLY <1>7, <3>1, <3>3
  <2> QED
    BY <1>1, <1>3, <2>1, <2>2, <2>3, <2>4
<1>9. CASE p \notin slice
  <2>1. info[p] = absent
    BY <1>2, <1>9, ReachFacts DEF Walked
  <2>2. edge_guard(e) = "False"
    BY <1>6, <1>7, <2>1 DEF absent, _and
  <2>3. ~(Ran(p) /\ goes(p) = b)
    <3> SUFFICES ASSUME Ran(p), goes(p) = b PROVE FALSE
      OBVIOUS
    <3>1. Ran(b)
      BY <1>2, <1>5, PathFacts DEF Inv
    <3>2. p \in anc[b]
      BY <1>2, <1>5, <3>1 DEF Inv, CtxInv, Walking
    <3>3. p \in slice
      BY <3>2 DEF Inv, CtxInv, Walking
    <3> QED
      BY <1>9, <3>3
  <2> QED
    BY <1>1, <1>3, <2>2, <2>3 DEF holds, Guard
<1> QED
  BY <1>8, <1>9

\* Exactly one edge into a block that runs has a guard that holds.
LEMMA TrueEdge ==
  ASSUME Ordered, Inv, Walking, NEW b \in slice, b # 0, preds(b) \cap rest = {}
  PROVE  /\ Ran(b) => \E p \in preds(b) : /\ Ran(p) /\ goes(p) = b /\ Walked(p) /\ trace[b][1] = end(p)
                                          /\ \A e : into(e, b) => (holds(edge_guard(e)) <=> e[1] = p)
         /\ ~Ran(b) => \A e : into(e, b) => ~holds(edge_guard(e))
<1>1. b \in Block
  BY DEF Inv, CtxInv, Walking
<1>2. prog \in Programs
  BY DEF Inv, TrackInv, TrackType
<1>3. ASSUME Ran(b)
      PROVE  \E p \in preds(b) : /\ Ran(p) /\ goes(p) = b /\ Walked(p) /\ trace[b][1] = end(p)
                                 /\ \A e : into(e, b) => (holds(edge_guard(e)) <=> e[1] = p)
  <2>1. PICK p \in preds(b) : Ran(p) /\ goes(p) = b /\ trace[b][1] = end(p)
    BY <1>1, <1>3, PathFacts DEF Inv
  <2>2. \A e : into(e, b) => (holds(edge_guard(e)) <=> e[1] = p)
    <3> SUFFICES ASSUME NEW e, into(e, b) PROVE holds(edge_guard(e)) <=> e[1] = p
      OBVIOUS
    <3>1. e[1] \in preds(b) /\ (holds(edge_guard(e)) <=> Ran(e[1]) /\ goes(e[1]) = b)
      BY EdgeGuardFacts
    <3>2. Ran(e[1]) /\ goes(e[1]) = b => e[1] = p
      BY <1>1, <2>1, <3>1, PathFacts DEF Inv
    <3> QED
      BY <2>1, <3>1, <3>2
  <2>3. Walked(p)
    <3>1. p \in Block /\ p < b
      BY <1>1, PathFacts DEF Inv
    <3>2. p \in anc[b]
      BY <1>3, <2>1, <3>1 DEF Inv, CtxInv, Walking
    <3>3. p \in slice
      BY <3>2 DEF Inv, CtxInv, Walking
    <3> QED
      BY <3>3 DEF Walked
  <2> QED
    BY <2>1, <2>2, <2>3
<1>4. ASSUME ~Ran(b), NEW e, into(e, b) PROVE ~holds(edge_guard(e))
  <2>1. e[1] \in preds(b) /\ (holds(edge_guard(e)) <=> Ran(e[1]) /\ goes(e[1]) = b)
    BY <1>4, EdgeGuardFacts
  <2>2. e[1] \in Block /\ e[1] \notin exits
    BY <1>1, <2>1, PathFacts DEF Inv
  <2>3. Ran(e[1]) /\ goes(e[1]) = b => Ran(b)
    BY <1>1, <2>2, PathFacts DEF Inv
  <2> QED
    BY <1>4, <2>1, <2>3
<1> QED
  BY <1>3, <1>4

\* One edge of each predecessor leads into b.
LEMMA IntoFacts ==
  ASSUME Ordered, prog \in Programs, NEW b \in Block
  PROVE  /\ \A p \in preds(b) : \E e : into(e, b) /\ e[1] = p
         /\ \A e, d : into(e, b) /\ into(d, b) /\ e[1] = d[1] => e = d
<1>1. ASSUME NEW p \in preds(b) PROVE \E e : into(e, b) /\ e[1] = p
  <2>1. p \in Block /\ (prog.t[p] = b \/ prog.f[p] = b)
    BY EdgeFacts
  <2>2. CASE prog.t[p] = b
    <3>1. into(<<p, "taken">>, b)
      BY <2>1, <2>2 DEF into, Edge
    <3> QED
      BY <3>1
  <2>3. CASE prog.f[p] = b
    <3>1. into(<<p, "fall">>, b)
      BY <2>1, <2>3 DEF into, Edge
    <3> QED
      BY <3>1
  <2> QED
    BY <2>1, <2>2, <2>3
<1>2. ASSUME NEW e, NEW d, into(e, b), into(d, b), e[1] = d[1] PROVE e = d
  <2>1. PICK p : p = e[1]
    OBVIOUS
  <2>2. /\ p \in Block /\ e = <<p, e[2]>> /\ d = <<p, d[2]>> /\ e[2] \in {"taken", "fall"} /\ d[2] \in {"taken", "fall"}
        /\ b = (IF e[2] = "taken" THEN prog.t[p] ELSE prog.f[p])
        /\ b = (IF d[2] = "taken" THEN prog.t[p] ELSE prog.f[p])
    BY <1>2, <2>1 DEF into, Edge
  <2>3. prog.t[p] = prog.f[p] => prog.t[p] = None
    BY <2>2, EdgeFacts
  <2>4. e[2] = d[2]
    BY <2>2, <2>3, NamesAssumption
  <2> QED
    BY <2>2, <2>4
<1> QED
  BY <1>1, <1>2

-----------------------------------------------------------------------------
(* Values. *)

LEMMA ReadsLen ==
  ASSUME Inv, Walking, NEW b \in Block
  PROVE  /\ Len(reads[b]) \in Nat
         /\ visited(b) => Len(reads[b]) <= size(b)
         /\ Walked(b) => Len(reads[b]) = size(b)
<1>1. PICK S : reads[b] \in Seq(S)
  BY DEF Inv, WalkInv, WalkType
<1>2. Len(reads[b]) \in Nat
  BY <1>1
<1>3. size(b) \in Nat
  BY EndFacts DEF Inv
<1> QED
  BY <1>2, <1>3 DEF Inv, WalkInv, WalkType, visited

\* An expression of a block that runs has the value the run met, if what it
\* depends on is relevant.
LEMMA ExprValue ==
  ASSUME Inv, Walking, NEW b \in Block, visited(b), Ran(b), NEW i \in 1..(Len(reads[b]) + 1),
         NEW e \in Expr, NEW v, met(e, v), recorded(e, b, i), e.uses \subseteq relevant
  PROVE  expr_to_z3(e) = v
<1>1. Len(reads[b]) \in Nat
  BY ReadsLen
<1>2. CASE e.is = "num"
  BY <1>2 DEF met, expr_to_z3
<1>3. CASE e.is = "leaf"
  <2>1. /\ e.b < b \/ (e.b = b /\ e.i < i)
        /\ e.i \in 1..size(e.b) /\ is_source(prog.ops[e.b][e.i])
        /\ blk[e.b].at[e.i + 1] = e
    BY <1>3 DEF recorded
  <2>2. e.b \in Block /\ Ran(e.b) /\ trace[e.b][e.i + 1].reg = v
    BY <1>3 DEF met, Expr
  <2>3. visited(e.b) /\ e.i \in 1..Len(reads[e.b])
    <3>1. CASE e.b < b
      <4>1. Walked(e.b)
        BY <2>2, <3>1 DEF Inv, WalkInv, WalkChain
      <4> QED
        BY <2>1, <2>2, <4>1, ReadsLen DEF visited
    <3>2. CASE e.b = b /\ e.i < i
      <4>1. size(b) \in Nat
        BY EndFacts DEF Inv
      <4> QED
        BY <1>1, <2>1, <3>2, <4>1
    <3> QED
      BY <2>1, <3>1, <3>2
  <2>4. right(e.b, e.i)
    BY <2>2, <2>3 DEF Inv, WalkInv, WalkReads
  <2>5. reads[e.b][e.i] = v
    BY <2>1, <2>2, <2>4 DEF right
  <2> QED
    BY <1>3, <2>5 DEF expr_to_z3
<1>4. CASE e.is = "phi"
  <2>1. e.b <= b /\ blk[e.b].groups # {} /\ blk[e.b].at[1] = e
    BY <1>4 DEF recorded
  <2>2. e.b \in Block /\ Ran(e.b) /\ trace[e.b][1].reg = v
    BY <1>4 DEF met, Expr
  <2>3. visited(e.b)
    <3>1. CASE e.b < b
      BY <2>2, <3>1 DEF Inv, WalkInv, WalkChain, visited
    <3>2. CASE e.b = b
      BY <3>2
    <3> QED
      BY <2>1, <2>2, <3>1, <3>2 DEF Block
  <2>4. phival[e.b] = v
    BY <2>1, <2>2, <2>3 DEF Inv, WalkInv, WalkPhis
  <2> QED
    BY <1>4, <2>4 DEF expr_to_z3
<1> QED
  BY <1>2, <1>3, <1>4 DEF Expr

\* ... so r, and a key, have the value they have in the run.
LEMMA ValueAt ==
  ASSUME Inv, Walking, NEW b \in Block, visited(b), Ran(b), NEW i \in 1..(Len(reads[b]) + 1)
  PROVE  /\ i \in 1..(size(b) + 1) /\ trace[b][i] \in Machine
         /\ blk[b].at[i].uses \subseteq relevant => expr_to_z3(blk[b].at[i]) = trace[b][i].reg
         /\ \A o \in Op : key_expr(o, blk[b].at[i]).uses \subseteq relevant =>
              expr_to_z3(key_expr(o, blk[b].at[i])) = keyof(trace[b][i], o)
<1>1. Len(reads[b]) \in Nat /\ Len(reads[b]) <= size(b) /\ size(b) \in Nat
  BY ReadsLen, EndFacts DEF Inv
<1>2. i \in 1..(size(b) + 1) /\ i \in Nat
  BY <1>1
<1>3. PICK e : e = blk[b].at[i]
  OBVIOUS
<1>4. PICK v : v = trace[b][i].reg
  OBVIOUS
<1>5. e \in Expr /\ trace[b][i] \in Machine /\ Len(blk[b].at) = size(b) + 1 /\ Len(trace[b]) = size(b) + 1
  BY <1>2, <1>3, EndFacts DEF Inv
<1>6. met(e, v) /\ recorded(e, b, i)
  BY <1>2, <1>3, <1>4, <1>5 DEF Inv, RunInv, RunSound, TrackInv, TrackLeaves
<1>7. e.uses \subseteq relevant => expr_to_z3(e) = v
  BY <1>5, <1>6, ExprValue
<1>8. ASSUME NEW o \in Op, key_expr(o, e).uses \subseteq relevant
      PROVE  expr_to_z3(key_expr(o, e)) = keyof(trace[b][i], o)
  <2>1. CASE o.key = Reg
    BY <1>4, <1>7, <1>8, <2>1 DEF key_expr, keyof
  <2>2. CASE o.key # Reg
    BY <2>2 DEF key_expr, keyof, Num, expr_to_z3
  <2> QED
    BY <2>1, <2>2
<1> QED
  BY <1>2, <1>3, <1>4, <1>5, <1>7, <1>8

\* What a write to a relevant region reads is relevant.
LEMMA WriteValue ==
  ASSUME Inv, Walking, NEW w \in Site, visited(w[1]), Ran(w[1]), w[2] <= Len(reads[w[1]]) + 1,
         is_write(op(w)), region(op(w)) \in relevant
  PROVE  /\ op(w).op \in {"update", "delete"} =>
              /\ expr_to_z3(write_key(w)) = keyof(trace[w[1]][w[2]], op(w))
              /\ keyof(trace[w[1]][w[2]], op(w)) \in Key
         /\ op(w).op \in {"store", "update"} =>
              /\ expr_to_z3(write_value(w)) = trace[w[1]][w[2]].reg
              /\ trace[w[1]][w[2]].reg \in Val
<1>1. PICK b : b = w[1]
  OBVIOUS
<1>2. PICK i : i = w[2]
  OBVIOUS
<1>3. b \in Block /\ i \in 1..size(b) /\ size(b) \in Nat /\ op(w) = prog.ops[b][i] /\ op(w) \in Op
  BY <1>1, <1>2, SiteFacts, EndFacts DEF Inv, op
<1>4. i \in 1..(Len(reads[b]) + 1)
  <2>1. Len(reads[b]) \in Nat
    BY <1>3, ReadsLen
  <2> QED
    BY <1>1, <1>2, <1>3, <2>1
<1>5. b \in slice
  BY <1>1, <1>3, ReachFacts
<1>6. write_uses(b, i) \subseteq relevant
  BY <1>3, <1>5 DEF Inv, CtxInv, Walking, fed
<1>7. PICK o : o = op(w)
  OBVIOUS
<1>8. PICK e : e = blk[b].at[i]
  OBVIOUS
<1>9. /\ o.op \in {"store", "update"} => e.uses \subseteq relevant
      /\ o.op \in {"update", "delete"} => key_expr(o, e).uses \subseteq relevant
  BY <1>3, <1>6, <1>7, <1>8 DEF write_uses
<1>10. /\ trace[b][i] \in Machine
       /\ e.uses \subseteq relevant => expr_to_z3(e) = trace[b][i].reg
       /\ key_expr(o, e).uses \subseteq relevant => expr_to_z3(key_expr(o, e)) = keyof(trace[b][i], o)
  BY <1>1, <1>3, <1>4, <1>7, <1>8, ValueAt
<1>11. write_key(w) = key_expr(o, e) /\ write_value(w) = e
  BY <1>1, <1>2, <1>7, <1>8 DEF write_key, write_value
<1>12. trace[b][i].reg \in Val /\ (o.op \in {"update", "delete"} => keyof(trace[b][i], o) \in Key)
  BY <1>3, <1>7, <1>10, ExecFacts DEF Machine
<1> QED
  BY <1>1, <1>2, <1>7, <1>9, <1>10, <1>11, <1>12

-----------------------------------------------------------------------------
(* The fold. *)

\* The last of some writes.
LEMMA LastFacts ==
  ASSUME prog \in Programs, NEW W \in SUBSET Site, NEW w \in W, \A v \in W : v = w \/ earlier(v, w[1], w[2])
  PROVE  LastWrite(W) = w
<1>1. \A v \in W : v[1] \in Int /\ v[2] \in Int /\ v = <<v[1], v[2]>>
  BY SiteFacts
<1>2. \A v \in W : v[1] < w[1] \/ (v[1] = w[1] /\ v[2] <= w[2])
  BY <1>1 DEF earlier
<1>3. ASSUME NEW x \in W, \A v \in W : v[1] < x[1] \/ (v[1] = x[1] /\ v[2] <= x[2]) PROVE x = w
  <2>1. w[1] < x[1] \/ (w[1] = x[1] /\ w[2] <= x[2])
    BY <1>3
  <2>2. x[1] < w[1] \/ (x[1] = w[1] /\ x[2] <= w[2])
    BY <1>2
  <2>3. x[1] = w[1] /\ x[2] = w[2]
    BY <1>1, <2>1, <2>2
  <2> QED
    BY <1>1, <2>3
<1> QED
  BY <1>2, <1>3 DEF LastWrite

\* The writes the fold sees with a true reach condition are those of the run.
LEMMA SeenFacts ==
  ASSUME Inv, Walking, NEW b \in Block, visited(b), Ran(b), NEW i \in 1..(Len(reads[b]) + 1), NEW w \in Site
  PROVE  /\ Visible(w, b, i) /\ holds(reach(w[1])) <=> earlier(w, b, i) /\ Ran(w[1])
         /\ earlier(w, b, i) /\ Ran(w[1]) => visited(w[1]) /\ w[2] \in 1..Len(reads[w[1]])
<1>1. /\ w[1] \in Block /\ w[2] \in 1..size(w[1]) /\ w[1] \in Int /\ w[2] \in Int /\ b \in Int
      /\ size(w[1]) \in Nat
  BY SiteFacts, EndFacts DEF Inv
<1>2. /\ holds(reach(w[1])) <=> visited(w[1]) /\ Ran(w[1])
      /\ b \in slice
  BY <1>1, ReachFacts
<1>3. Len(reads[b]) \in Nat /\ Len(reads[w[1]]) \in Nat /\ (Walked(w[1]) => Len(reads[w[1]]) = size(w[1]))
  BY <1>1, ReadsLen
<1>4. \A c \in anc[b] : c < b
  BY <1>2 DEF Inv, CtxInv, Walking
<1>5. \A c \in Block : Ran(c) /\ c < b => c \in anc[b] /\ Walked(c)
  BY <1>2 DEF Inv, CtxInv, Walking, WalkInv, WalkChain
<1>6. CASE w[1] = b
  <2>1. Visible(w, b, i) <=> w[2] < i
    BY <1>6 DEF Visible
  <2>2. earlier(w, b, i) <=> w[2] < i
    BY <1>1, <1>6 DEF earlier
  <2>3. w[2] < i => w[2] \in 1..Len(reads[w[1]])
    BY <1>1, <1>3, <1>6
  <2> QED
    BY <1>2, <1>6, <2>1, <2>2, <2>3
<1>7. CASE w[1] # b
  <2>1. Visible(w, b, i) <=> w[1] \in anc[b]
    BY <1>7 DEF Visible
  <2>2. earlier(w, b, i) <=> w[1] < b
    BY <1>1, <1>7 DEF earlier
  <2>3. w[1] < b /\ Ran(w[1]) => w[1] \in anc[b] /\ Walked(w[1])
    BY <1>1, <1>5
  <2>4. Walked(w[1]) => visited(w[1]) /\ w[2] \in 1..Len(reads[w[1]])
    BY <1>1, <1>3 DEF visited
  <2> QED
    BY <1>2, <1>4, <2>1, <2>2, <2>3, <2>4
<1> QED
  BY <1>6, <1>7

\* What a location holds is what the last of its writes left there.
LEMMA LastContent ==
  ASSUME Inv, Walking, NEW b \in Block, Ran(b), NEW i \in 1..(size(b) + 1), NEW l \in Loc,
         NEW W, W = {w \in Site : earlier(w, b, i) /\ written(l, w)}
  PROVE  /\ W = {} => content(l, trace[b][i]) = content(l, init)
         /\ W # {} => \E w \in W : /\ LastWrite(W) = w
                                   /\ content(l, trace[b][i]) = wrote(l, trace[w[1]][w[2]], op(w))
<1>1. Len(trace[b]) = size(b) + 1 /\ prog \in Programs
  BY EndFacts DEF Inv
<1>2. remembers(l, b, i)
  BY <1>1 DEF Inv, RunInv, RunMemory
<1>3. CASE /\ content(l, trace[b][i]) = content(l, init)
           /\ \A w \in Site : earlier(w, b, i) => ~written(l, w)
  BY <1>3
<1>4. CASE \E w \in Site : /\ earlier(w, b, i) /\ written(l, w)
                           /\ content(l, trace[b][i]) = wrote(l, trace[w[1]][w[2]], op(w))
                           /\ \A v \in Site : earlier(v, b, i) /\ written(l, v) => v = w \/ earlier(v, w[1], w[2])
  <2>1. PICK w \in Site : /\ earlier(w, b, i) /\ written(l, w)
                          /\ content(l, trace[b][i]) = wrote(l, trace[w[1]][w[2]], op(w))
                          /\ \A v \in Site : earlier(v, b, i) /\ written(l, v) => v = w \/ earlier(v, w[1], w[2])
    BY <1>4
  <2>2. w \in W /\ W \in SUBSET Site /\ \A v \in W : v = w \/ earlier(v, w[1], w[2])
    BY <2>1
  <2>3. LastWrite(W) = w
    BY <1>1, <2>2, LastFacts
  <2> QED
    BY <2>1, <2>2, <2>3
<1> QED
  BY <1>2, <1>3, <1>4 DEF remembers

\* Memory._read of a cell.
LEMMA FoldCellFacts ==
  ASSUME Inv, Walking, NEW b \in Block, visited(b), Ran(b), NEW i \in 1..(Len(reads[b]) + 1),
         NEW c \in Cell, c \in relevant
  PROVE  FoldCell(c, b, i) = trace[b][i].cell[c]
<1>1. PICK l : l = <<"cell", c>>
  OBVIOUS
<1>2. l \in Loc /\ l[1] = "cell" /\ l[2] = c
  BY <1>1 DEF Loc
<1>3. PICK W : W = {w \in Site : earlier(w, b, i) /\ written(l, w)}
  OBVIOUS
<1>4. i \in 1..(size(b) + 1)
  BY ValueAt
<1>5. \A w \in Site : written(l, w) <=> Ran(w[1]) /\ op(w).op = "store" /\ op(w).c = c
  BY <1>2 DEF written, hits
<1>6. cell_writes(c, b, i) = W
  <2>1. ASSUME NEW w \in Site
        PROVE  op(w).op = "store" /\ op(w).c = c /\ Visible(w, b, i) /\ Happened(w)
                 <=> earlier(w, b, i) /\ written(l, w)
    <3>1. Visible(w, b, i) /\ holds(reach(w[1])) <=> earlier(w, b, i) /\ Ran(w[1])
      BY SeenFacts
    <3>2. op(w).op = "store" => (Happened(w) <=> holds(reach(w[1])))
      BY DEF Happened
    <3> QED
      BY <1>5, <3>1, <3>2
  <2> QED
    BY <1>3, <2>1 DEF cell_writes
<1>7. content(l, trace[b][i]) = trace[b][i].cell[c] /\ content(l, init) = init.cell[c]
  BY <1>2 DEF content
<1>8. CASE W = {}
  <2>1. content(l, trace[b][i]) = content(l, init)
    BY <1>2, <1>3, <1>4, <1>8, LastContent
  <2> QED
    BY <1>6, <1>7, <1>8, <2>1 DEF FoldCell
<1>9. CASE W # {}
  <2>1. PICK w \in W : /\ LastWrite(W) = w
                       /\ content(l, trace[b][i]) = wrote(l, trace[w[1]][w[2]], op(w))
    BY <1>2, <1>3, <1>4, <1>9, LastContent
  <2>2. w \in Site /\ earlier(w, b, i) /\ Ran(w[1]) /\ op(w).op = "store" /\ op(w).c = c
    BY <1>3, <1>5, <2>1
  <2>3. visited(w[1]) /\ w[2] \in 1..Len(reads[w[1]])
    BY <2>2, SeenFacts
  <2>4. w[2] <= Len(reads[w[1]]) + 1
    <3>1. w[1] \in Block
      BY <2>2, SiteFacts, EndFacts DEF Inv
    <3>2. Len(reads[w[1]]) \in Nat
      BY <3>1, ReadsLen
    <3> QED
      BY <2>3, <3>2
  <2>5. is_write(op(w)) /\ region(op(w)) = c
    BY <2>2 DEF is_write, region
  <2>6. expr_to_z3(write_value(w)) = trace[w[1]][w[2]].reg
    BY <2>2, <2>3, <2>4, <2>5, WriteValue
  <2>7. wrote(l, trace[w[1]][w[2]], op(w)) = trace[w[1]][w[2]].reg
    BY <1>2 DEF wrote
  <2>8. FoldCell(c, b, i) = expr_to_z3(write_value(w))
    BY <1>6, <1>9, <2>1 DEF FoldCell
  <2> QED
    BY <1>7, <2>1, <2>6, <2>7, <2>8
<1> QED
  BY <1>8, <1>9

\* What the fold knows of a write to the map.
LEMMA MapWrite ==
  ASSUME Inv, Walking, "map" \in relevant, NEW b \in Block, visited(b), Ran(b),
         NEW i \in 1..(Len(reads[b]) + 1), NEW w \in Site, op(w).op \in {"update", "delete"}, NEW k
  PROVE  /\ Visible(w, b, i) /\ Happened(w) /\ expr_to_z3(write_key(w)) = k <=>
              /\ earlier(w, b, i) /\ Ran(w[1]) /\ keyof(trace[w[1]][w[2]], op(w)) = k
              /\ op(w).op = "update" => applies(op(w).flags, k \in trace[w[1]][w[2]].present)
         /\ earlier(w, b, i) /\ Ran(w[1]) /\ op(w).op = "update" =>
              expr_to_z3(write_value(w)) = trace[w[1]][w[2]].reg
<1>1. /\ Visible(w, b, i) /\ holds(reach(w[1])) <=> earlier(w, b, i) /\ Ran(w[1])
      /\ earlier(w, b, i) /\ Ran(w[1]) => visited(w[1]) /\ w[2] \in 1..Len(reads[w[1]])
  BY SeenFacts
<1>2. CASE earlier(w, b, i) /\ Ran(w[1])
  <2>1. visited(w[1]) /\ w[2] \in 1..Len(reads[w[1]]) /\ Visible(w, b, i) /\ holds(reach(w[1]))
    BY <1>1, <1>2
  <2>2. w[1] \in Block
    BY SiteFacts, EndFacts DEF Inv
  <2>3. w[2] <= Len(reads[w[1]]) + 1
    <3>1. Len(reads[w[1]]) \in Nat
      BY <2>2, ReadsLen
    <3> QED
      BY <2>1, <3>1
  <2>4. is_write(op(w)) /\ region(op(w)) \in relevant
    BY DEF is_write, region
  <2>5. /\ expr_to_z3(write_key(w)) = keyof(trace[w[1]][w[2]], op(w))
        /\ op(w).op = "update" => expr_to_z3(write_value(w)) = trace[w[1]][w[2]].reg
    BY <1>2, <2>1, <2>3, <2>4, WriteValue
  <2>6. right(w[1], w[2])
    BY <1>2, <2>1, <2>2 DEF Inv, WalkInv, WalkReads
  <2>7. op(w).op = "update" =>
          (reads[w[1]][w[2]] = 1 <=>
             applies(op(w).flags, keyof(trace[w[1]][w[2]], op(w)) \in trace[w[1]][w[2]].present))
    BY <2>6 DEF right, op
  <2>8. Happened(w) <=> (op(w).op = "update" =>
             applies(op(w).flags, keyof(trace[w[1]][w[2]], op(w)) \in trace[w[1]][w[2]].present))
    BY <2>1, <2>7, Zenon DEF Happened
  <2>9. CASE keyof(trace[w[1]][w[2]], op(w)) = k
    BY <1>2, <2>1, <2>5, <2>8, <2>9, Zenon
  <2>10. CASE keyof(trace[w[1]][w[2]], op(w)) # k
    BY <2>5, <2>10, Zenon
  <2> QED
    BY <2>9, <2>10, Zenon
<1>3. CASE ~(earlier(w, b, i) /\ Ran(w[1]))
  <2>1. ~(Visible(w, b, i) /\ Happened(w))
    BY <1>1, <1>3, Zenon DEF Happened
  <2> QED
    BY <1>3, <2>1, Zenon
<1> QED
  BY <1>2, <1>3, Zenon

\* Memory._read of a map entry.
LEMMA FoldValueFacts ==
  ASSUME Inv, Walking, "map" \in relevant, NEW b \in Block, visited(b), Ran(b),
         NEW i \in 1..(Len(reads[b]) + 1), NEW k \in Key
  PROVE  FoldValue(k, b, i) = trace[b][i].value[k]
<1>1. PICK l : l = <<"value", k>>
  OBVIOUS
<1>2. l \in Loc /\ l[1] = "value" /\ l[2] = k
  BY <1>1 DEF Loc
<1>3. PICK W : W = {w \in Site : earlier(w, b, i) /\ written(l, w)}
  OBVIOUS
<1>4. i \in 1..(size(b) + 1)
  BY ValueAt
<1>5. \A w \in Site : written(l, w) <=>
        /\ Ran(w[1]) /\ op(w).op = "update" /\ keyof(trace[w[1]][w[2]], op(w)) = k
        /\ applies(op(w).flags, k \in trace[w[1]][w[2]].present)
  <2> SUFFICES ASSUME NEW w \in Site
               PROVE  hits(l, trace[w[1]][w[2]], op(w)) <=>
                        /\ op(w).op = "update" /\ keyof(trace[w[1]][w[2]], op(w)) = k
                        /\ applies(op(w).flags, k \in trace[w[1]][w[2]].present)
    BY Zenon DEF written
  <2>1. l[1] # "cell" /\ l[1] # "present" /\ l[1] \in {"value", "present"} /\ l[2] = k
    BY <1>2
  <2> QED
    BY <2>1, Zenon DEF hits
<1>6. map_writes({"update"}, k, b, i) = W
  <2>1. ASSUME NEW w \in Site
        PROVE  op(w).op \in {"update"} /\ Visible(w, b, i) /\ Happened(w) /\ expr_to_z3(write_key(w)) = k
                 <=> earlier(w, b, i) /\ written(l, w)
    <3>1. CASE op(w).op = "update"
      <4>1. op(w).op \in {"update", "delete"} /\ op(w).op \in {"update"}
        BY <3>1
      <4>2. Visible(w, b, i) /\ Happened(w) /\ expr_to_z3(write_key(w)) = k <=>
              /\ earlier(w, b, i) /\ Ran(w[1]) /\ keyof(trace[w[1]][w[2]], op(w)) = k
              /\ op(w).op = "update" => applies(op(w).flags, k \in trace[w[1]][w[2]].present)
        BY <4>1, MapWrite
      <4> QED
        BY <1>5, <3>1, <4>1, <4>2, Zenon
    <3>2. CASE op(w).op # "update"
      <4>1. op(w).op \notin {"update"}
        BY <3>2
      <4> QED
        BY <1>5, <3>2, <4>1, Zenon
    <3> QED
      BY <3>1, <3>2, Zenon
  <2> QED
    BY <1>3, <2>1, Zenon DEF map_writes
<1>7. content(l, trace[b][i]) = trace[b][i].value[k] /\ content(l, init) = init.value[k]
  BY <1>2 DEF content
<1>8. CASE W = {}
  <2>1. content(l, trace[b][i]) = content(l, init)
    BY <1>2, <1>3, <1>4, <1>8, LastContent
  <2>2. select(init.value, k) = init.value[k]
    <3>1. init \in Input
      BY EndFacts DEF Inv
    <3>2. DOMAIN init.value = Key
      BY <3>1 DEF Input
    <3> QED
      BY <3>2 DEF select
  <2> QED
    BY <1>6, <1>7, <1>8, <2>1, <2>2 DEF FoldValue
<1>9. CASE W # {}
  <2>1. PICK w \in W : /\ LastWrite(W) = w
                       /\ content(l, trace[b][i]) = wrote(l, trace[w[1]][w[2]], op(w))
    BY <1>2, <1>3, <1>4, <1>9, LastContent
  <2>2. w \in Site /\ earlier(w, b, i) /\ Ran(w[1]) /\ op(w).op = "update"
    BY <1>3, <1>5, <2>1, Zenon
  <2>3. op(w).op \in {"update", "delete"}
    BY <2>2
  <2>4. expr_to_z3(write_value(w)) = trace[w[1]][w[2]].reg
    BY <2>2, <2>3, MapWrite
  <2>5. wrote(l, trace[w[1]][w[2]], op(w)) = trace[w[1]][w[2]].reg
    BY <1>2 DEF wrote
  <2>6. FoldValue(k, b, i) = expr_to_z3(write_value(w))
    BY <1>6, <1>9, <2>1 DEF FoldValue
  <2> QED
    BY <1>7, <2>1, <2>4, <2>5, <2>6
<1> QED
  BY <1>8, <1>9

\* Memory.present of a map entry.
LEMMA FoldPresentFacts ==
  ASSUME Inv, Walking, "map" \in relevant, NEW b \in Block, visited(b), Ran(b),
         NEW i \in 1..(Len(reads[b]) + 1), NEW k \in Key
  PROVE  FoldPresent(k, b, i) <=> k \in trace[b][i].present
<1>1. PICK l : l = <<"present", k>>
  OBVIOUS
<1>2. l \in Loc /\ l[1] = "present" /\ l[2] = k
  BY <1>1 DEF Loc
<1>3. PICK W : W = {w \in Site : earlier(w, b, i) /\ written(l, w)}
  OBVIOUS
<1>4. i \in 1..(size(b) + 1)
  BY ValueAt
<1>5. \A w \in Site : written(l, w) <=>
        /\ Ran(w[1]) /\ op(w).op \in {"update", "delete"} /\ keyof(trace[w[1]][w[2]], op(w)) = k
        /\ op(w).op = "update" => applies(op(w).flags, k \in trace[w[1]][w[2]].present)
  <2> SUFFICES ASSUME NEW w \in Site
               PROVE  hits(l, trace[w[1]][w[2]], op(w)) <=>
                        /\ op(w).op \in {"update", "delete"} /\ keyof(trace[w[1]][w[2]], op(w)) = k
                        /\ op(w).op = "update" => applies(op(w).flags, k \in trace[w[1]][w[2]].present)
    BY Zenon DEF written
  <2>1. l[1] # "cell" /\ l[1] = "present" /\ l[1] \in {"value", "present"} /\ l[2] = k
    BY <1>2
  <2>2. CASE op(w).op = "update"
    <3>1. op(w).op # "delete" /\ op(w).op \in {"update", "delete"}
      BY <2>2
    <3> QED
      BY <2>1, <2>2, <3>1, Zenon DEF hits
  <2>3. CASE op(w).op = "delete"
    <3>1. op(w).op # "update" /\ op(w).op \in {"update", "delete"}
      BY <2>3
    <3> QED
      BY <2>1, <2>3, <3>1, Zenon DEF hits
  <2>4. CASE op(w).op \notin {"update", "delete"}
    <3>1. op(w).op # "update" /\ op(w).op # "delete"
      BY <2>4
    <3> QED
      BY <2>1, <2>4, <3>1, Zenon DEF hits
  <2> QED
    BY <2>2, <2>3, <2>4
<1>6. map_writes({"update", "delete"}, k, b, i) = W
  <2>1. ASSUME NEW w \in Site
        PROVE  op(w).op \in {"update", "delete"} /\ Visible(w, b, i) /\ Happened(w) /\ expr_to_z3(write_key(w)) = k
                 <=> earlier(w, b, i) /\ written(l, w)
    <3>1. CASE op(w).op \in {"update", "delete"}
      <4>1. Visible(w, b, i) /\ Happened(w) /\ expr_to_z3(write_key(w)) = k <=>
              /\ earlier(w, b, i) /\ Ran(w[1]) /\ keyof(trace[w[1]][w[2]], op(w)) = k
              /\ op(w).op = "update" => applies(op(w).flags, k \in trace[w[1]][w[2]].present)
        BY <3>1, MapWrite
      <4> QED
        BY <1>5, <3>1, <4>1, Zenon
    <3>2. CASE op(w).op \notin {"update", "delete"}
      BY <1>5, <3>2, Zenon
    <3> QED
      BY <3>1, <3>2, Zenon
  <2> QED
    BY <1>3, <2>1, Zenon DEF map_writes
<1>7. /\ content(l, trace[b][i]) = (IF k \in trace[b][i].present THEN 1 ELSE 0)
      /\ content(l, init) = (IF k \in init.present THEN 1 ELSE 0)
  BY <1>2 DEF content
<1>8. CASE W = {}
  <2>1. content(l, trace[b][i]) = content(l, init)
    BY <1>2, <1>3, <1>4, <1>8, LastContent
  <2>2. k \in trace[b][i].present <=> k \in init.present
    BY <1>7, <2>1
  <2>3. FoldPresent(k, b, i) <=> k \in init.present
    BY <1>6, <1>8, Zenon DEF FoldPresent
  <2> QED
    BY <2>2, <2>3, Zenon
<1>9. CASE W # {}
  <2>1. PICK w \in W : /\ LastWrite(W) = w
                       /\ content(l, trace[b][i]) = wrote(l, trace[w[1]][w[2]], op(w))
    BY <1>2, <1>3, <1>4, <1>9, LastContent
  <2>2. wrote(l, trace[w[1]][w[2]], op(w)) = IF op(w).op = "update" THEN 1 ELSE 0
    BY <1>2 DEF wrote
  <2>3. k \in trace[b][i].present <=> op(w).op = "update"
    BY <1>7, <2>1, <2>2
  <2>4. FoldPresent(k, b, i) <=> op(w).op = "update"
    BY <1>6, <1>9, <2>1, Zenon DEF FoldPresent
  <2> QED
    BY <2>3, <2>4, Zenon
<1> QED
  BY <1>8, <1>9

-----------------------------------------------------------------------------
(* One instruction of a block that runs. *)

\* The walk is at instruction i of b, o, which the run executed in state mc.
item(b, i, o, mc) ==
  /\ b \in Block /\ b = cur_block /\ Ran(b)
  /\ i = Len(reads[b]) + 1 /\ i <= size(b)
  /\ o = prog.ops[b][i] /\ mc = trace[b][i]

LEMMA ItemPlace ==
  ASSUME Inv, Walking, NEW b, NEW i, NEW o, NEW mc, item(b, i, o, mc)
  PROVE  /\ b \in Block /\ b = cur_block /\ Ran(b) /\ i = Len(reads[b]) + 1 /\ i <= size(b)
         /\ o = prog.ops[b][i] /\ mc = trace[b][i]
         /\ visited(b) /\ i \in 1..(Len(reads[b]) + 1) /\ i \in 1..size(b) /\ o \in Op /\ mc \in Machine
         /\ <<b, i>> \in Site /\ op(<<b, i>>) = o
         /\ write_key(<<b, i>>) = key_expr(o, blk[b].at[i]) /\ write_value(<<b, i>>) = blk[b].at[i]
         /\ blk[b].at[i] \in Expr /\ blk[b].at[i + 1] = track_op(o, blk[b].at[i], b, i)
         /\ trace[b][i + 1] = exec(mc, o)
         /\ agrees(cur_sigma, mc)
<1> USE DEF item
<1>1. Len(reads[b]) \in Nat /\ size(b) \in Nat /\ prog \in Programs
  BY ReadsLen, EndFacts DEF Inv
<1>2. visited(b) /\ i \in 1..(Len(reads[b]) + 1) /\ i \in 1..size(b) /\ i \in 1..(size(b) + 1)
  BY <1>1 DEF visited
<1>3. o \in Op /\ mc \in Machine /\ blk[b].at[i] \in Expr
  BY <1>2, EndFacts DEF Inv
<1>4. <<b, i>> \in Site
  BY <1>1, <1>2, SiteFacts
<1>5. op(<<b, i>>) = o
  BY DEF op
<1>6. write_key(<<b, i>>) = key_expr(o, blk[b].at[i]) /\ write_value(<<b, i>>) = blk[b].at[i]
  BY <1>5 DEF write_key, write_value
<1>7. blk[b].at[i + 1] = track_op(o, blk[b].at[i], b, i)
  <2>1. i + 1 <= Len(blk[b].at)
    BY <1>1, <1>2, EndFacts DEF Inv
  <2> QED
    BY <1>2, <2>1 DEF Inv, TrackInv, TrackSteps
<1>8. trace[b][i + 1] = exec(mc, o)
  <2>1. i + 1 <= Len(trace[b])
    BY <1>1, <1>2, EndFacts DEF Inv
  <2> QED
    BY <1>2, <2>1 DEF Inv, RunInv, RunSteps
<1>9. agrees(cur_sigma, mc)
  BY DEF Inv, WalkInv, WalkSigma
<1> QED
  BY <1>2, <1>3, <1>4, <1>5, <1>6, <1>7, <1>8, <1>9

\* The key of a map operation, if what it depends on is relevant.
LEMMA ItemKey ==
  ASSUME Inv, Walking, NEW b, NEW i, NEW o, NEW mc, item(b, i, o, mc)
  PROVE  /\ o.op \in {"lookup", "read"} /\ blk[b].at[i + 1].uses \subseteq relevant =>
              item_key(b, i) = keyof(mc, o) /\ "map" \in relevant
         /\ o.op \in {"update", "delete"} /\ "map" \in relevant => item_key(b, i) = keyof(mc, o)
         /\ o.op \in {"store", "update"} /\ region(o) \in relevant =>
              expr_to_z3(write_value(<<b, i>>)) = mc.reg
<1>0. o = prog.ops[b][i] /\ mc = trace[b][i]
  BY ItemPlace
<1>1. /\ b \in Block /\ b = cur_block /\ Ran(b) /\ i = Len(reads[b]) + 1 /\ i <= size(b) /\ o = prog.ops[b][i] /\ mc = trace[b][i]
      /\ visited(b) /\ i \in 1..(Len(reads[b]) + 1) /\ i \in 1..size(b) /\ o \in Op /\ mc \in Machine
      /\ <<b, i>> \in Site /\ op(<<b, i>>) = o
      /\ write_key(<<b, i>>) = key_expr(o, blk[b].at[i]) /\ blk[b].at[i] \in Expr
      /\ blk[b].at[i + 1] = track_op(o, blk[b].at[i], b, i)
  BY ItemPlace
<1>2. item_key(b, i) = expr_to_z3(key_expr(o, blk[b].at[i]))
  BY <1>1 DEF item_key
<1>3. ASSUME o.op \in {"lookup", "read"}, blk[b].at[i + 1].uses \subseteq relevant
      PROVE  item_key(b, i) = keyof(mc, o) /\ "map" \in relevant
  <2>1. is_source(o) /\ region(o) = "map"
    BY <1>3 DEF is_source, region
  <2>2. /\ region(o) \in blk[b].at[i + 1].uses
        /\ key_expr(o, blk[b].at[i]).uses \subseteq blk[b].at[i + 1].uses
    <3>1. i \in Nat
      BY <1>1
    <3> QED
      BY <1>1, <1>3, <2>1, <3>1, TrackOpFacts
  <2>3. key_expr(o, blk[b].at[i]).uses \subseteq relevant
    BY <1>3, <2>2
  <2>4. expr_to_z3(key_expr(o, blk[b].at[i])) = keyof(mc, o)
    BY <1>1, <2>3, ValueAt
  <2> QED
    BY <1>2, <1>3, <2>1, <2>2, <2>4
<1>4. PICK w : w = <<b, i>>
  OBVIOUS
<1>5. /\ w \in Site /\ w[1] = b /\ w[2] = i /\ op(w) = o /\ w[2] <= Len(reads[w[1]]) + 1
      /\ visited(w[1]) /\ Ran(w[1])
  <2>1. Len(reads[b]) \in Nat
    BY ReadsLen
  <2> QED
    BY <1>1, <1>4, <2>1
<1>6. ASSUME o.op \in {"update", "delete"}, "map" \in relevant PROVE item_key(b, i) = keyof(mc, o)
  <2>1. is_write(op(w)) /\ region(op(w)) \in relevant
    BY <1>5, <1>6 DEF is_write, region
  <2>2. expr_to_z3(write_key(w)) = keyof(trace[w[1]][w[2]], op(w))
    BY <1>5, <1>6, <2>1, WriteValue
  <2> QED
    BY <1>0, <1>4, <1>5, <2>2 DEF item_key
<1>7. ASSUME o.op \in {"store", "update"}, region(o) \in relevant
      PROVE  expr_to_z3(write_value(<<b, i>>)) = mc.reg
  <2>1. is_write(op(w)) /\ region(op(w)) \in relevant
    BY <1>5, <1>7 DEF is_write
  <2>2. expr_to_z3(write_value(w)) = trace[w[1]][w[2]].reg
    BY <1>5, <1>7, <2>1, WriteValue
  <2> QED
    BY <1>0, <1>4, <1>5, <2>2
<1> QED
  BY <1>3, <1>6, <1>7

\* What an instruction reads, through the fold or from sigma.
LEMMA ItemReads ==
  ASSUME Inv, Walking, NEW b, NEW i, NEW o, NEW mc, item(b, i, o, mc)
  PROVE  /\ o.op = "load" /\ o.c \in relevant => item_cell(b, i) = mc.cell[o.c]
         /\ o.op \in {"lookup", "read", "delete", "update"} /\ "map" \in relevant /\ item_key(b, i) = keyof(mc, o) =>
              /\ item_present(b, i) <=> keyof(mc, o) \in mc.present
              /\ item_entry(b, i) = mc.value[keyof(mc, o)]
<1>0. o = prog.ops[b][i] /\ mc = trace[b][i]
  BY ItemPlace
<1>1. /\ b \in Block /\ b = cur_block /\ Ran(b) /\ i = Len(reads[b]) + 1 /\ i <= size(b) /\ o = prog.ops[b][i] /\ mc = trace[b][i]
      /\ visited(b) /\ i \in 1..(Len(reads[b]) + 1) /\ i \in 1..size(b) /\ o \in Op /\ mc \in Machine
      /\ agrees(cur_sigma, mc)
  BY ItemPlace
<1>2. ASSUME o.op = "load", o.c \in relevant PROVE item_cell(b, i) = mc.cell[o.c]
  <2>1. o.c \in Cell
    BY <1>1, <1>2, OpFacts
  <2>2. CASE o.c \in fold
    <3>1. FoldCell(o.c, b, i) = mc.cell[o.c]
      BY <1>1, <1>2, <2>1, FoldCellFacts
    <3> QED
      BY <1>0, <2>2, <3>1 DEF item_cell
  <2>3. CASE o.c \notin fold
    BY <1>1, <1>2, <2>1, <2>3 DEF item_cell, agrees
  <2> QED
    BY <2>2, <2>3
<1>3. PICK k : k = keyof(mc, o)
  OBVIOUS
<1>4. ASSUME o.op \in {"lookup", "read", "delete", "update"}, "map" \in relevant, item_key(b, i) = k
      PROVE  (item_present(b, i) <=> k \in mc.present) /\ item_entry(b, i) = mc.value[k]
  <2>1. k \in Key
    BY <1>1, <1>3, <1>4, ExecFacts
  <2>2. CASE "map" \in fold
    <3>1. (FoldPresent(k, b, i) <=> k \in mc.present) /\ FoldValue(k, b, i) = mc.value[k]
      BY <1>1, <1>4, <2>1, FoldPresentFacts, FoldValueFacts
    <3>2. item_present(b, i) <=> FoldPresent(k, b, i)
      BY <1>4, <2>2, Zenon DEF item_present
    <3>3. item_entry(b, i) = FoldValue(k, b, i)
      BY <1>4, <2>2 DEF item_entry
    <3> QED
      BY <3>1, <3>2, <3>3, Zenon
  <2>3. CASE "map" \notin fold
    <3>1. cur_sigma.present = mc.present /\ cur_sigma.value = mc.value
      BY <1>1, <1>4, <2>3 DEF agrees
    <3>2. item_present(b, i) <=> k \in cur_sigma.present
      BY <1>4, <2>3, Zenon DEF item_present
    <3>3. item_entry(b, i) = mc.value[k]
      <4>1. DOMAIN mc.value = Key
        BY <1>1 DEF Machine
      <4> QED
        BY <1>4, <2>1, <2>3, <3>1, <4>1 DEF item_entry, select
    <3> QED
      BY <3>1, <3>2, <3>3, Zenon
  <2> QED
    BY <2>2, <2>3, Zenon
<1> QED
  BY <1>2, <1>3, <1>4, Zenon

\* The value of the item is right.
LEMMA ItemRight ==
  ASSUME Inv, Walking, NEW b, NEW i, NEW o, NEW mc, item(b, i, o, mc)
  PROVE  /\ is_source(o) /\ blk[b].at[i + 1].uses \subseteq relevant => item_value(b, i) = trace[b][i + 1].reg
         /\ o.op = "update" /\ "map" \in relevant =>
              (item_value(b, i) = 1 <=> applies(o.flags, keyof(mc, o) \in mc.present))
<1>0. o = prog.ops[b][i] /\ mc = trace[b][i]
  BY ItemPlace
<1>1. /\ b \in Block /\ b = cur_block /\ Ran(b) /\ i = Len(reads[b]) + 1 /\ i <= size(b) /\ o = prog.ops[b][i] /\ mc = trace[b][i]
      /\ i \in 1..size(b) /\ o \in Op /\ mc \in Machine /\ blk[b].at[i] \in Expr
      /\ blk[b].at[i + 1] = track_op(o, blk[b].at[i], b, i) /\ trace[b][i + 1] = exec(mc, o)
  BY ItemPlace
<1>2. ASSUME is_source(o), blk[b].at[i + 1].uses \subseteq relevant PROVE item_value(b, i) = trace[b][i + 1].reg
  <2>1. region(o) \in relevant
    <3>1. i \in Nat
      BY <1>1
    <3>2. region(o) \in blk[b].at[i + 1].uses
      BY <1>1, <1>2, <3>1, TrackOpFacts
    <3> QED
      BY <1>2, <3>2
  <2>2. CASE o.op = "load"
    <3>1. o.c \in relevant
      BY <2>1, <2>2 DEF region
    <3>2. item_value(b, i) = item_cell(b, i)
      BY <1>0, <2>1, <2>2 DEF item_value
    <3> QED
      BY <1>1, <2>2, <3>1, <3>2, ItemReads, ExecFacts
  <2>3. CASE o.op = "read"
    <3>1. item_key(b, i) = keyof(mc, o) /\ "map" \in relevant
      BY <1>2, <2>3, ItemKey
    <3>2. item_entry(b, i) = mc.value[keyof(mc, o)]
      BY <2>3, <3>1, ItemReads
    <3>3. item_value(b, i) = item_entry(b, i)
      BY <1>0, <2>1, <2>3 DEF item_value
    <3> QED
      BY <1>1, <2>3, <3>2, <3>3, ExecFacts
  <2>4. CASE o.op = "lookup"
    <3>1. item_key(b, i) = keyof(mc, o) /\ "map" \in relevant
      BY <1>2, <2>4, ItemKey
    <3>2. item_present(b, i) <=> keyof(mc, o) \in mc.present
      BY <2>4, <3>1, ItemReads
    <3>3. item_value(b, i) = IF item_present(b, i) THEN 1 ELSE 0
      BY <1>0, <2>1, <2>4 DEF item_value
    <3>4. exec(mc, o).reg = IF keyof(mc, o) \in mc.present THEN 1 ELSE 0
      BY <1>1, <2>4, ExecFacts
    <3> QED
      BY <1>1, <3>2, <3>3, <3>4, Zenon
  <2> QED
    BY <1>2, <2>2, <2>3, <2>4 DEF is_source
<1>3. ASSUME o.op = "update", "map" \in relevant
      PROVE  item_value(b, i) = 1 <=> applies(o.flags, keyof(mc, o) \in mc.present)
  <2>1. region(o) \in relevant
    BY <1>3 DEF region
  <2>2. item_key(b, i) = keyof(mc, o)
    BY <1>3, ItemKey
  <2>3. item_present(b, i) <=> keyof(mc, o) \in mc.present
    BY <1>3, <2>2, ItemReads
  <2>4. item_value(b, i) = IF item_applies(b, i) THEN 1 ELSE 0
    BY <1>0, <1>3, <2>1 DEF item_value
  <2>5. item_value(b, i) = 1 <=> item_applies(b, i)
    BY <2>4
  <2>6. item_applies(b, i) <=> applies(o.flags, keyof(mc, o) \in mc.present)
    BY <1>0, <2>3, Zenon DEF item_applies, applies
  <2> QED
    BY <2>5, <2>6, Zenon
<1> QED
  BY <1>2, <1>3

\* What an instruction does to the memory.
LEMMA ExecMemory ==
  ASSUME NEW mc \in Machine, NEW o \in Op
  PROVE  /\ ~is_write(o) => exec(mc, o).cell = mc.cell /\ exec(mc, o).present = mc.present /\ exec(mc, o).value = mc.value
         /\ o.op = "store" => /\ exec(mc, o).cell = [mc.cell EXCEPT ![o.c] = mc.reg]
                              /\ exec(mc, o).present = mc.present /\ exec(mc, o).value = mc.value
         /\ o.op = "delete" => exec(mc, o).cell = mc.cell /\ exec(mc, o).value = mc.value /\ exec(mc, o).present = mc.present \ {keyof(mc, o)}
         /\ o.op = "update" /\ applies(o.flags, keyof(mc, o) \in mc.present) =>
              /\ exec(mc, o).cell = mc.cell /\ exec(mc, o).value = [mc.value EXCEPT ![keyof(mc, o)] = mc.reg]
              /\ exec(mc, o).present = mc.present \cup {keyof(mc, o)}
         /\ o.op = "update" /\ ~applies(o.flags, keyof(mc, o) \in mc.present) => exec(mc, o) = mc
<1> DEFINE k == keyof(mc, o)
           x == exec(mc, o)
<1>1. ~is_write(o) => x.cell = mc.cell /\ x.present = mc.present /\ x.value = mc.value
  <2> SUFFICES ASSUME ~is_write(o) PROVE x.cell = mc.cell /\ x.present = mc.present /\ x.value = mc.value
    OBVIOUS
  <2>1. o.op \in {"set", "load", "lookup", "read"}
    BY OpFacts DEF is_write
  <2> QED
    BY <2>1 DEF exec, Machine
<1>2. o.op = "store" => /\ x.cell = [mc.cell EXCEPT ![o.c] = mc.reg]
                        /\ x.present = mc.present /\ x.value = mc.value
  BY DEF exec, Machine
<1>3. o.op = "delete" => x.cell = mc.cell /\ x.value = mc.value /\ x.present = mc.present \ {k}
  BY DEF exec, Machine
<1>4. o.op = "update" /\ applies(o.flags, k \in mc.present) =>
        /\ x.cell = mc.cell /\ x.value = [mc.value EXCEPT ![k] = mc.reg]
        /\ x.present = mc.present \cup {k}
  BY DEF exec, Machine
<1>5. o.op = "update" /\ ~applies(o.flags, k \in mc.present) => x = mc
  BY DEF exec
<1> QED
  BY <1>1, <1>2, <1>3, <1>4, <1>5

\* sigma follows the machine in the regions it is kept for.
LEMMA SigmaItem ==
  ASSUME Inv, Walking, NEW b, NEW i, NEW o, NEW mc, item(b, i, o, mc), NEW s,
         s = IF is_write(o) /\ region(o) \in relevant /\ region(o) \notin fold THEN to_z3(b, i) ELSE cur_sigma
  PROVE  agrees(s, exec(mc, o))
<1>0. o = prog.ops[b][i] /\ mc = trace[b][i]
  BY ItemPlace
<1>1. o \in Op /\ mc \in Machine /\ agrees(cur_sigma, mc)
  BY ItemPlace
<1>2. PICK k : k = keyof(mc, o)
  OBVIOUS
<1>3. PICK x : x = exec(mc, o)
  OBVIOUS
<1>4. PICK sg : sg = cur_sigma
  OBVIOUS
<1>5. /\ sg \in Memory
      /\ \A c \in Cell : c \in relevant /\ c \notin fold => sg.cell[c] = mc.cell[c]
      /\ "map" \in relevant /\ "map" \notin fold => sg.present = mc.present /\ sg.value = mc.value
  BY <1>1, <1>4 DEF agrees
<1>6. x \in Machine /\ mc.reg \in Val /\ mc.cell \in [Cell -> Val] /\ mc.value \in [Key -> Val]
  BY <1>1, <1>3, ExecFacts DEF Machine
<1>7. sg.cell \in [Cell -> Val] /\ sg.present \in SUBSET Key /\ sg.value \in [Key -> Val]
  BY <1>5 DEF Memory
<1>8. /\ ~is_write(o) => x.cell = mc.cell /\ x.present = mc.present /\ x.value = mc.value
      /\ o.op = "store" => /\ x.cell = [mc.cell EXCEPT ![o.c] = mc.reg]
                           /\ x.present = mc.present /\ x.value = mc.value
      /\ o.op = "delete" => x.cell = mc.cell /\ x.value = mc.value /\ x.present = mc.present \ {k}
      /\ o.op = "update" /\ applies(o.flags, k \in mc.present) =>
           /\ x.cell = mc.cell /\ x.value = [mc.value EXCEPT ![k] = mc.reg]
           /\ x.present = mc.present \cup {k}
      /\ o.op = "update" /\ ~applies(o.flags, k \in mc.present) => x = mc
  BY <1>1, <1>2, <1>3, ExecMemory
<1>9. CASE ~is_write(o)
  <2>1. s = sg
    BY <1>4, <1>9
  <2>2. x.cell = mc.cell /\ x.present = mc.present /\ x.value = mc.value
    BY <1>9, <1>8
  <2> QED
    BY <1>3, <1>5, <2>1, <2>2 DEF agrees
<1>10. CASE o.op = "store"
  <2>1. /\ x.cell = [mc.cell EXCEPT ![o.c] = mc.reg] /\ x.present = mc.present /\ x.value = mc.value
        /\ region(o) = o.c /\ o.c \in Cell /\ is_write(o)
    BY <1>1, <1>10, <1>8, OpFacts DEF region, is_write
  <2>2. CASE o.c \in relevant /\ o.c \notin fold
    <3>1. expr_to_z3(write_value(<<b, i>>)) = mc.reg
      BY <1>10, <2>1, <2>2, ItemKey
    <3>2. s = [sg EXCEPT !.cell[o.c] = mc.reg]
      BY <1>0, <1>4, <1>10, <2>1, <2>2, <3>1 DEF to_z3
    <3>3. /\ s \in Memory /\ s.cell = [sg.cell EXCEPT ![o.c] = mc.reg]
          /\ s.present = sg.present /\ s.value = sg.value
      BY <1>5, <1>6, <1>7, <2>1, <3>2 DEF Memory
    <3>4. \A c \in Cell : c \in relevant /\ c \notin fold => s.cell[c] = x.cell[c]
      BY <1>5, <1>6, <1>7, <2>1, <3>3
    <3> QED
      BY <1>3, <1>5, <2>1, <3>3, <3>4 DEF agrees
  <2>3. CASE ~(o.c \in relevant /\ o.c \notin fold)
    <3>1. s = sg
      BY <1>4, <2>1, <2>3
    <3>2. \A c \in Cell : c \in relevant /\ c \notin fold => c # o.c /\ x.cell[c] = mc.cell[c]
      BY <1>6, <2>1, <2>3
    <3> QED
      BY <1>3, <1>5, <2>1, <3>1, <3>2 DEF agrees
  <2> QED
    BY <2>2, <2>3
<1>11. CASE o.op = "delete"
  <2>1. /\ x.cell = mc.cell /\ x.value = mc.value /\ x.present = mc.present \ {k}
        /\ region(o) = "map" /\ is_write(o)
    BY <1>11, <1>8 DEF region, is_write
  <2>2. CASE "map" \in relevant /\ "map" \notin fold
    <3>1. item_key(b, i) = k
      BY <1>2, <1>11, <2>2, ItemKey
    <3>2. s = [sg EXCEPT !.present = @ \ {k}]
      BY <1>0, <1>4, <1>11, <2>1, <2>2, <3>1 DEF to_z3
    <3>3. s \in Memory /\ s.cell = sg.cell /\ s.present = sg.present \ {k} /\ s.value = sg.value
      BY <1>5, <1>7, <3>2 DEF Memory
    <3> QED
      BY <1>3, <1>5, <2>1, <2>2, <3>3 DEF agrees
  <2>3. CASE ~("map" \in relevant /\ "map" \notin fold)
    <3>1. s = sg
      BY <1>4, <2>1, <2>3
    <3> QED
      BY <1>3, <1>5, <2>1, <2>3, <3>1 DEF agrees
  <2> QED
    BY <2>2, <2>3
<1>12. CASE o.op = "update"
  <2>1. region(o) = "map" /\ is_write(o) /\ k \in Key
    BY <1>1, <1>2, <1>12, ExecFacts DEF region, is_write
  <2>2. x.cell = mc.cell
    <3>1. CASE applies(o.flags, k \in mc.present)
      BY <1>12, <1>8, <3>1, Zenon
    <3>2. CASE ~applies(o.flags, k \in mc.present)
      <4>1. x = mc
        BY <1>12, <1>8, <3>2, Zenon
      <4> QED
        BY <4>1
    <3> QED
      BY <3>1, <3>2
  <2>3. CASE "map" \in relevant /\ "map" \notin fold
    <3>1. item_key(b, i) = k
      BY <1>2, <1>12, <2>3, ItemKey
    <3>2. expr_to_z3(write_value(<<b, i>>)) = mc.reg
      BY <1>12, <2>1, <2>3, ItemKey
    <3>3. item_applies(b, i) <=> applies(o.flags, k \in mc.present)
      <4>1. o.op \in {"lookup", "read", "delete", "update"} /\ item_key(b, i) = keyof(mc, o)
        BY <1>2, <1>12, <3>1
      <4>2. item_present(b, i) <=> k \in mc.present
        BY <1>2, <2>3, <4>1, ItemReads
      <4> QED
        BY <1>0, <4>2, Zenon DEF item_applies, applies
    <3>4. s = IF item_applies(b, i) THEN [sg EXCEPT !.value[k] = mc.reg, !.present = @ \cup {k}] ELSE sg
      BY <1>0, <1>4, <1>12, <2>1, <2>3, <3>1, <3>2 DEF to_z3
    <3>5. CASE applies(o.flags, k \in mc.present)
      <4>1. s = [sg EXCEPT !.value[k] = mc.reg, !.present = @ \cup {k}]
        BY <3>3, <3>4, <3>5, Zenon
      <4>2. /\ s \in Memory /\ s.cell = sg.cell /\ s.present = sg.present \cup {k}
            /\ s.value = [sg.value EXCEPT ![k] = mc.reg]
        <5>1. sg = [cell |-> sg.cell, present |-> sg.present, value |-> sg.value]
          BY <1>5 DEF Memory
        <5>2. s = [cell |-> sg.cell, present |-> sg.present \cup {k}, value |-> [sg.value EXCEPT ![k] = mc.reg]]
          BY <4>1, <5>1
        <5>3. [sg.value EXCEPT ![k] = mc.reg] \in [Key -> Val] /\ sg.present \cup {k} \in SUBSET Key
          BY <1>6, <1>7, <2>1
        <5> QED
          BY <1>7, <5>2, <5>3 DEF Memory
      <4>3. x.value = [mc.value EXCEPT ![k] = mc.reg] /\ x.present = mc.present \cup {k}
        BY <1>12, <1>8, <3>5, Zenon
      <4> QED
        BY <1>3, <1>5, <2>2, <2>3, <4>2, <4>3 DEF agrees
    <3>6. CASE ~applies(o.flags, k \in mc.present)
      <4>1. s = sg
        BY <3>3, <3>4, <3>6, Zenon
      <4>2. x = mc
        BY <1>12, <1>8, <3>6, Zenon
      <4> QED
        BY <1>3, <1>5, <4>1, <4>2 DEF agrees
    <3> QED
      BY <3>5, <3>6
  <2>4. CASE ~("map" \in relevant /\ "map" \notin fold)
    <3>1. s = sg
      BY <1>4, <2>1, <2>4
    <3> QED
      BY <1>3, <1>5, <2>2, <2>4, <3>1 DEF agrees
  <2> QED
    BY <2>3, <2>4
<1>13. is_write(o) => o.op \in {"store", "update", "delete"}
  BY DEF is_write
<1> QED
  BY <1>9, <1>10, <1>11, <1>12, <1>13

-----------------------------------------------------------------------------
(* Entering a block. *)

\* The edges merge_predecessors labels are the edges into b.
LEMMA PredEdges ==
  ASSUME Ordered, prog \in Programs, NEW b \in Block
  PROVE  /\ \A d \in pred_edges(b) : into(d, b) /\ d[1] \in preds(b)
         /\ \A p \in preds(b) : \E d \in pred_edges(b) : d[1] = p
<1>1. ASSUME NEW p \in preds(b), NEW d, d = <<p, IF prog.f[p] = b THEN "fall" ELSE "taken">>
      PROVE  into(d, b) /\ d[1] = p
  <2>1. p \in Block /\ (prog.t[p] = b \/ prog.f[p] = b)
    BY EdgeFacts
  <2>2. CASE prog.f[p] = b
    <3>1. d = <<p, "fall">>
      BY <1>1, <2>2
    <3> QED
      BY <2>1, <2>2, <3>1 DEF into, Edge
  <2>3. CASE prog.f[p] # b
    <3>1. d = <<p, "taken">>
      BY <1>1, <2>3
    <3> QED
      BY <2>1, <2>3, <3>1 DEF into, Edge
  <2> QED
    BY <2>2, <2>3
<1>2. \A d : d \in pred_edges(b) <=> \E p \in preds(b) : d = <<p, IF prog.f[p] = b THEN "fall" ELSE "taken">>
  BY Zenon DEF pred_edges
<1>3. ASSUME NEW d \in pred_edges(b) PROVE into(d, b) /\ d[1] \in preds(b)
  <2>1. PICK p \in preds(b) : d = <<p, IF prog.f[p] = b THEN "fall" ELSE "taken">>
    BY <1>2
  <2> QED
    BY <1>1, <2>1
<1>4. ASSUME NEW p \in preds(b) PROVE \E d \in pred_edges(b) : d[1] = p
  <2>1. PICK d : d = <<p, IF prog.f[p] = b THEN "fall" ELSE "taken">>
    OBVIOUS
  <2> QED
    BY <1>1, <1>2, <2>1
<1> QED
  BY <1>3, <1>4

\* Some edges into b have a first one.
LEMMA FirstEdge ==
  ASSUME Ordered, prog \in Programs, NEW b \in Block, NEW E, E # {}, \A e \in E : into(e, b)
  PROVE  first(E) \in E
<1>1. \A e \in E : e[1] \in Nat /\ e[2] \in {"taken", "fall"}
  BY NAssumption DEF into, Edge, Block
<1>2. PICK H : H = {e[1] : e \in E}
  OBVIOUS
<1>3. H \subseteq Nat /\ H # {}
  BY <1>1, <1>2
<1>4. PICK m \in H : \A n \in H : <<n, m>> \notin OpToRel(<, Nat)
  BY <1>3, NatLessThanWellFounded, WFMin, Zenon
<1>5. \A n \in H : m <= n
  <2> SUFFICES ASSUME NEW n \in H PROVE m <= n
    OBVIOUS
  <2>1. m \in Nat /\ n \in Nat
    BY <1>3
  <2>2. ~(n < m)
    BY <1>4, <2>1 DEF OpToRel
  <2> QED
    BY <2>1, <2>2
<1>6. PICK e \in E : e[1] = m
  BY <1>2
<1>7. \A d \in E : precedes(e, d)
  <2> SUFFICES ASSUME NEW d \in E PROVE precedes(e, d)
    OBVIOUS
  <2>1. e[1] <= d[1] /\ e[1] \in Nat /\ d[1] \in Nat /\ e[2] \in {"taken", "fall"}
    BY <1>1, <1>2, <1>5, <1>6
  <2>2. e[1] = d[1] => e = d
    BY IntoFacts
  <2> QED
    BY <2>1, <2>2 DEF precedes
<1> QED
  BY <1>7 DEF first

\* The contributions to a block.
LEMMA ContribFacts ==
  ASSUME NEW b, NEW e
  PROVE  e \in contribs(b) <=> into(e, b) /\ edge_guard(e) # "False"
  BY DEF contribs, into, Edge

\* The reach condition of the next block.
LEMMA EntryReach ==
  ASSUME Ordered, Inv, Walking, NEW b \in slice, b # 0, preds(b) \cap rest = {},
         NEW r, r = _or_all({edge_guard(e) : e \in contribs(b)})
  PROVE  r \in Guard /\ (holds(r) <=> Ran(b))
<1>1. PICK G : G = {edge_guard(e) : e \in contribs(b)}
  OBVIOUS
<1>2. \A e \in contribs(b) : into(e, b) /\ edge_guard(e) \in Guard
  BY ContribFacts, EdgeGuardFacts
<1>3. G \in SUBSET Guard
  BY <1>1, <1>2
<1>4. r \in Guard /\ (holds(r) <=> \E g \in G : holds(g))
  BY <1>1, <1>3, OrFacts
<1>5. (\E g \in G : holds(g)) <=> \E e \in contribs(b) : holds(edge_guard(e))
  BY <1>1
<1>6. CASE Ran(b)
  <2>1. PICK p \in preds(b) : \A e : into(e, b) => (holds(edge_guard(e)) <=> e[1] = p)
    BY <1>6, TrueEdge
  <2>2. PICK e : into(e, b) /\ e[1] = p
    <3>1. b \in Block /\ prog \in Programs
      BY DEF Inv, CtxInv, Walking, TrackInv, TrackType
    <3> QED
      BY <3>1, IntoFacts
  <2>3. holds(edge_guard(e))
    BY <2>1, <2>2
  <2>4. e \in contribs(b)
    BY <2>2, <2>3, ContribFacts DEF holds
  <2> QED
    BY <1>4, <1>5, <1>6, <2>3, <2>4
<1>7. CASE ~Ran(b)
  <2>1. \A e : into(e, b) => ~holds(edge_guard(e))
    BY <1>7, TrueEdge
  <2> QED
    BY <1>2, <1>4, <1>5, <1>7, <2>1
<1> QED
  BY <1>6, <1>7

\* The state the next block is entered with.
LEMMA EntrySigma ==
  ASSUME Ordered, Inv, Walking, NEW b \in slice, b # 0, preds(b) \cap rest = {}, Ran(b)
  PROVE  agrees(merge_sigma(contribs(b)), trace[b][1])
<1>1. PICK p \in preds(b) : /\ Ran(p) /\ Walked(p) /\ trace[b][1] = end(p)
                            /\ \A e : into(e, b) => (holds(edge_guard(e)) <=> e[1] = p)
  BY TrueEdge
<1>2. b \in Block /\ prog \in Programs /\ p \in Block
  BY DEF Inv, CtxInv, Walking, TrackInv, TrackType, preds
<1>3. PICK e : into(e, b) /\ e[1] = p
  BY <1>2, IntoFacts
<1>4. PICK T : T = {d \in contribs(b) : holds(edge_guard(d))}
  OBVIOUS
<1>5. e \in T /\ \A d \in T : d = e
  <2>1. holds(edge_guard(e))
    BY <1>1, <1>3
  <2>2. e \in contribs(b)
    BY <1>3, <2>1, ContribFacts DEF holds
  <2>3. ASSUME NEW d \in T PROVE d = e
    <3>1. into(d, b) /\ d[1] = p
      BY <1>1, <1>4, ContribFacts
    <3> QED
      BY <1>2, <1>3, <3>1, IntoFacts
  <2> QED
    BY <1>4, <2>1, <2>2, <2>3
<1>6. first(T) = e
  <2>1. precedes(e, e)
    <3>1. e[2] \in {"taken", "fall"}
      BY <1>3 DEF into, Edge
    <3> QED
      BY <3>1 DEF precedes
  <2> QED
    BY <1>5, <2>1 DEF first
<1>7. merge_sigma(contribs(b)) = info[p].sigma
  <2>1. contribs(b) # {} /\ T # {}
    BY <1>4, <1>5
  <2> QED
    BY <1>3, <1>4, <1>6, <2>1 DEF merge_sigma
<1>8. agrees(info[p].sigma, end(p))
  BY <1>1, <1>2 DEF Inv, WalkInv, WalkSigma
<1> QED
  BY <1>1, <1>7, <1>8

\* The JoinValue of the next block.
LEMMA EntryPhi ==
  ASSUME Ordered, Inv, Walking, NEW b \in slice, preds(b) \cap rest = {}, Ran(b),
         blk[b].groups # {}, blk[b].at[1].uses \subseteq relevant
  PROVE  phi_value(b) = {trace[b][1].reg}
<1>1. b \in Block /\ prog \in Programs /\ TrackType
  BY DEF Inv, CtxInv, Walking, TrackInv, TrackType
<1>2. /\ b = 0 \/ preds(b) # {}
      /\ \A q \in preds(b) : tracked(q)
      /\ merge_entry(b) = [at |-> <<blk[b].at[1]>>, groups |-> blk[b].groups]
  <2>1. started(b)
    <3>1. blk[b].at \in Seq(Expr) /\ Len(blk[b].at) = size(b) + 1 /\ size(b) \in Nat
      BY <1>1, EndFacts DEF Inv, TrackType, Tracked
    <3> QED
      BY <3>1, LenFacts DEF started
  <2> QED
    BY <1>1, <2>1 DEF Inv, TrackInv, TrackJoins
<1>3. b # 0
  <2>1. b = 0 => merge_entry(b).groups = {}
    BY DEF merge_entry
  <2> QED
    BY <1>2, <2>1
<1>4. merge_entry(b).at[1] = blk[b].at[1] /\ merge_entry(b).groups = blk[b].groups
  BY <1>2
<1>5. /\ \A q \in preds(b) : out(q).uses \subseteq relevant
      /\ blk[b].groups = {[value |-> e, edges |-> {d \in pred_edges(b) : out(d[1]) = e}] : e \in entries(b)}
  <2>1. /\ \A q \in preds(b) : out(q).uses \subseteq merge_entry(b).at[1].uses
        /\ merge_entry(b).groups =
             {[value |-> e, edges |-> {d \in pred_edges(b) : out(d[1]) = e}] : e \in entries(b)}
    BY <1>1, <1>2, <1>3, <1>4, MergeFacts
  <2> QED
    BY <1>4, <2>1
<1>6. PICK p \in preds(b) : /\ Ran(p) /\ Walked(p) /\ trace[b][1] = end(p)
                            /\ \A e : into(e, b) => (holds(edge_guard(e)) <=> e[1] = p)
  BY <1>3, TrueEdge
<1>7. p \in Block
  BY DEF preds
<1>8. /\ \A d \in pred_edges(b) : into(d, b) /\ d[1] \in preds(b)
      /\ \A q \in preds(b) : \E d \in pred_edges(b) : d[1] = q
  BY <1>1, PredEdges
<1>9. PICK s : s = [value |-> out(p), edges |-> {d \in pred_edges(b) : out(d[1]) = out(p)}]
  OBVIOUS
<1>10. s \in blk[b].groups /\ s.value = out(p) /\ s.edges = {d \in pred_edges(b) : out(d[1]) = out(p)}
  <2>1. out(p) \in entries(b)
    BY DEF entries
  <2> QED
    BY <1>5, <1>9, <2>1
<1>11. ASSUME NEW g \in blk[b].groups PROVE holds(group_guard(g)) <=> g = s
  <2>1. PICK e \in entries(b) : g = [value |-> e, edges |-> {d \in pred_edges(b) : out(d[1]) = e}]
    BY <1>5
  <2>2. g.edges = {d \in pred_edges(b) : out(d[1]) = e} /\ g.value = e
    BY <2>1
  <2>3. PICK G : G = {edge_guard(d) : d \in g.edges}
    OBVIOUS
  <2>4. G \in SUBSET Guard
    <3>1. \A d \in g.edges : edge_guard(d) \in Guard
      BY <1>8, <2>2, EdgeGuardFacts
    <3> QED
      BY <2>3, <3>1
  <2>5. holds(group_guard(g)) <=> \E d \in g.edges : holds(edge_guard(d))
    <3>1. holds(group_guard(g)) <=> \E x \in G : holds(x)
      BY <2>3, <2>4, OrFacts DEF group_guard
    <3> QED
      BY <2>3, <3>1
  <2>6. holds(group_guard(g)) <=> \E d \in g.edges : d[1] = p
    BY <1>6, <1>8, <2>2, <2>5
  <2>7. CASE g = s
    <3>1. PICK d \in pred_edges(b) : d[1] = p
      BY <1>8
    <3>2. d \in g.edges
      BY <1>10, <2>7, <3>1
    <3> QED
      BY <2>6, <2>7, <3>1, <3>2
  <2>8. ASSUME \E d \in g.edges : d[1] = p PROVE g = s
    <3>1. e = out(p)
      BY <2>2, <2>8
    <3> QED
      BY <1>9, <2>1, <3>1
  <2> QED
    BY <2>6, <2>7, <2>8
<1>12. PICK terms : terms = {g \in blk[b].groups : group_guard(g) # "False"}
  OBVIOUS
<1>13. PICK T : T = {g \in terms : holds(group_guard(g))}
  OBVIOUS
<1>14. s \in terms /\ s \in T /\ \A g \in T : g = s
  <2>1. holds(group_guard(s))
    BY <1>10, <1>11
  <2>2. group_guard(s) # "False"
    BY <2>1 DEF holds
  <2> QED
    BY <1>10, <1>11, <1>12, <1>13, <2>1, <2>2
<1>15. precedes(first(s.edges), first(s.edges))
  <2>1. s.edges # {} /\ \A d \in s.edges : into(d, b)
    <3>1. PICK d \in pred_edges(b) : d[1] = p
      BY <1>8
    <3> QED
      BY <1>8, <1>10, <3>1
  <2>2. first(s.edges) \in s.edges
    BY <1>1, <2>1, FirstEdge
  <2>3. first(s.edges)[2] \in {"taken", "fall"}
    BY <2>1, <2>2 DEF into, Edge
  <2> QED
    BY <2>3 DEF precedes
<1>16. (CHOOSE g \in T : \A h \in T : precedes(first(g.edges), first(h.edges))) = s
  BY <1>14, <1>15
<1>17. phi_value(b) = {expr_to_z3(s.value)}
  <2>1. T # {} /\ terms # {}
    BY <1>14
  <2> QED
    BY <1>12, <1>13, <1>16, <2>1 DEF phi_value
<1>18. expr_to_z3(out(p)) = end(p).reg
  <2>1. visited(p) /\ Len(reads[p]) = size(p) /\ size(p) \in Nat
    BY <1>6, <1>7, ReadsLen, EndFacts DEF Inv, visited
  <2>2. size(p) + 1 \in 1..(Len(reads[p]) + 1)
    BY <2>1
  <2>3. out(p) = blk[p].at[size(p) + 1] /\ end(p) = trace[p][size(p) + 1]
    BY DEF out, end
  <2> QED
    BY <1>5, <1>6, <1>7, <2>1, <2>2, <2>3, ValueAt
<1> QED
  BY <1>6, <1>10, <1>17, <1>18

-----------------------------------------------------------------------------
(* The steps of the walk. *)

\* The walk leaves the tracked program, the run and the context alone.
LEMMA Still ==
  ASSUME UNCHANGED trackVars, UNCHANGED runVars, UNCHANGED ctxVars
  PROVE  /\ prog' = prog /\ blk' = blk /\ trace' = trace /\ init' = init
         /\ slice' = slice /\ relevant' = relevant /\ fold' = fold
         /\ \A b \in Block : /\ size(b)' = size(b) /\ (Ran(b)' <=> Ran(b)) /\ (branch(b)' <=> branch(b))
                             /\ (takes(b)' <=> takes(b)) /\ end(b)' = end(b)
         /\ \A s, mc : agrees(s, mc) => agrees(s, mc)'
<1>1. /\ prog' = prog /\ blk' = blk /\ trace' = trace /\ init' = init
      /\ slice' = slice /\ relevant' = relevant /\ fold' = fold
  BY DEF trackVars, runVars, ctxVars
<1>2. ASSUME NEW b \in Block
      PROVE  /\ size(b)' = size(b) /\ (Ran(b)' <=> Ran(b)) /\ (branch(b)' <=> branch(b))
             /\ (takes(b)' <=> takes(b)) /\ end(b)' = end(b)
  <2>1. takes(b)' <=> takes(b)
    BY <1>1, GoesFrame
  <2> QED
    BY <1>1, <2>1 DEF size, Ran, branch, end
<1>3. \A s, mc : agrees(s, mc) => agrees(s, mc)'
  BY <1>1 DEF agrees
<1> QED
  BY <1>1, <1>2, <1>3

\* What the reads have right stays right.
LEMMA RightFrame ==
  ASSUME prog' = prog, blk' = blk, trace' = trace, relevant' = relevant,
         NEW b \in Block, NEW i, right(b, i), reads'[b][i] = reads[b][i]
  PROVE  right(b, i)'
  BY DEF right, is_source, keyof, applies

\* The walk comes to a block.
LEMMA WalkEntryStep ==
  ASSUME Ordered, Inv, NEW b \in Block, WalkEntry(b)
  PROVE  WalkInv'
<1>1. /\ phase = "walk" /\ phase' = phase /\ cur_block = None /\ b \in rest /\ preds(b) \cap rest = {}
      /\ cur_block' = b
      /\ cur_reach' = IF b = 0 THEN "True" ELSE _or_all({edge_guard(e) : e \in contribs(b)})
      /\ cur_sigma' = IF b = 0 THEN memory ELSE merge_sigma(contribs(b))
      /\ \E v \in phi_value(b) : phival' = [phival EXCEPT ![b] = v]
      /\ rest' = rest /\ info' = info /\ reads' = reads
      /\ UNCHANGED trackVars /\ UNCHANGED runVars /\ UNCHANGED ctxVars
  BY DEF WalkEntry
<1>2. Walking /\ b \in slice /\ b # None /\ ~Walked(b) /\ ~visited(b) /\ \A c \in Block : c # None
  BY <1>1, NamesAssumption DEF Walking, Inv, WalkInv, WalkType, Walked, visited
<1>3. /\ prog' = prog /\ blk' = blk /\ trace' = trace /\ init' = init
      /\ slice' = slice /\ relevant' = relevant /\ fold' = fold
  BY <1>1, Still
<1>4. \A c \in Block : /\ size(c)' = size(c) /\ (Ran(c)' <=> Ran(c)) /\ (branch(c)' <=> branch(c))
                       /\ (takes(c)' <=> takes(c)) /\ end(c)' = end(c)
  BY <1>1, Still
<1>5. \A c \in Block : (Walked(c)' <=> Walked(c)) /\ (visited(c)' <=> visited(c) \/ c = b)
  BY <1>1, <1>2, <1>3 DEF Walked, visited
<1>6. reads[b] = << >>
  BY <1>2 DEF Inv, WalkInv, WalkType
<1>7. PICK v \in phi_value(b) : phival' = [phival EXCEPT ![b] = v]
  BY <1>1
<1>8. phival'[b] = v /\ DOMAIN phival' = Block /\ \A c \in Block : c # b => phival'[c] = phival[c]
  BY <1>7 DEF Inv, WalkInv, WalkType
<1>9. WalkType'
  <2>1. \A c \in Block : \E S : reads'[c] \in Seq(S)
    BY <1>1 DEF Inv, WalkInv, WalkType
  <2>2. \A c \in Block :
          /\ Walked(c)' => Len(reads'[c]) = size(c)'
          /\ c = cur_block' => Len(reads'[c]) <= size(c)'
          /\ ~visited(c)' => reads'[c] = << >>
          /\ ~Walked(c)' => info'[c] = absent
    <3> SUFFICES ASSUME NEW c \in Block
                 PROVE  /\ Walked(c) => Len(reads[c]) = size(c)
                        /\ c = b => Len(reads[c]) <= size(c)
                        /\ ~visited(c) /\ c # b => reads[c] = << >>
                        /\ ~Walked(c) => info[c] = absent
      BY <1>1, <1>4, <1>5
    <3>1. c = b => Len(reads[c]) <= size(c)
      <4>1. size(b) \in Nat
        BY <1>2, EndFacts DEF Inv
      <4>2. Len(reads[b]) = 0
        BY <1>6
      <4> QED
        BY <4>1, <4>2
    <3> QED
      BY <3>1 DEF Inv, WalkInv, WalkType
  <2>3. /\ rest' \subseteq slice' /\ cur_block' \in rest' \cup {None} /\ (phase' = "done" => cur_block' = None)
        /\ DOMAIN info' = Block /\ DOMAIN reads' = Block /\ DOMAIN phival' = Block
    BY <1>1, <1>3, <1>8 DEF Inv, WalkInv, WalkType
  <2>4. absent' = absent
    BY DEF absent
  <2> QED
    BY <2>1, <2>2, <2>3, <2>4 DEF WalkType
<1>10. WalkReach'
  <2>1. cur_reach' \in Guard /\ (holds(cur_reach') <=> Ran(b))
    <3>1. CASE b = 0
      <4>1. cur_reach' = "True" /\ Ran(b)
        BY <1>1, <1>2, <3>1, EndFacts DEF Inv
      <4> QED
        BY <4>1 DEF holds, Guard
    <3>2. CASE b # 0
      BY <1>1, <1>2, <3>2, EntryReach
    <3> QED
      BY <3>1, <3>2
  <2>2. ASSUME NEW c \in Block, Walked(c)'
        PROVE  /\ {info'[c].reach, info'[c].edge_taken, info'[c].edge_fall} \subseteq Guard
               /\ holds(info'[c].reach) <=> Ran(c)'
               /\ ~branch(c)' => info'[c].edge_taken = "True" /\ info'[c].edge_fall = "True"
               /\ branch(c)' /\ Ran(c)' => /\ holds(info'[c].edge_taken) <=> takes(c)'
                                           /\ holds(info'[c].edge_fall) <=> ~takes(c)'
    <3>1. Walked(c)
      BY <1>5, <2>2
    <3> QED
      BY <1>1, <1>4, <3>1 DEF Inv, WalkInv, WalkReach
  <2>3. Ran(cur_block)' <=> Ran(b)
    BY <1>1, <1>3 DEF Ran
  <2> QED
    BY <2>1, <2>2, <2>3 DEF WalkReach, holds, Guard
<1>11. WalkChain'
  <2> SUFFICES ASSUME NEW d \in Block, NEW c \in Block, visited(d)', Ran(d), Ran(c), c < d
               PROVE  Walked(c)
    BY <1>4, <1>5 DEF WalkChain
  <2>1. CASE visited(d)
    BY <2>1 DEF Inv, WalkInv, WalkChain
  <2>2. CASE d = b
    <3>1. b # 0
      BY <2>2 DEF Block
    <3>2. PICK p \in preds(b) : Ran(p) /\ goes(p) = b /\ Walked(p)
      BY <1>1, <1>2, <2>2, <3>1, TrueEdge
    <3>3. p \in Block /\ p < b /\ p \notin exits
      BY <1>2, PathFacts DEF Inv
    <3>4. c <= p \/ b <= c
      BY <1>2, <3>2, <3>3, PathFacts DEF Inv
    <3>5. c <= p /\ c \in Int /\ p \in Int
      BY <2>2, <3>3, <3>4 DEF Block
    <3>6. CASE c = p
      BY <3>2, <3>6
    <3>7. CASE c < p
      BY <3>2, <3>3, <3>7 DEF Inv, WalkInv, WalkChain, visited
    <3> QED
      BY <3>5, <3>6, <3>7
  <2> QED
    BY <1>5, <2>1, <2>2
<1>12. WalkReads'
  <2> SUFFICES ASSUME NEW c \in Block, visited(c)', Ran(c), NEW i \in 1..Len(reads[c])
               PROVE  right(c, i)'
    BY <1>1, <1>4 DEF WalkReads
  <2>1. c # b
    <3>1. CASE c = b
      <4>1. Len(reads[c]) = 0
        BY <1>6, <3>1
      <4> QED
        BY <4>1
    <3> QED
      BY <3>1
  <2>2. right(c, i)
    BY <1>5, <2>1 DEF Inv, WalkInv, WalkReads
  <2> QED
    BY <1>1, <1>3, <2>2, RightFrame
<1>13. WalkPhis'
  <2> SUFFICES ASSUME NEW c \in Block, visited(c)', Ran(c), blk[c].groups # {}, blk[c].at[1].uses \subseteq relevant
               PROVE  phival'[c] = trace[c][1].reg
    BY <1>3, <1>4 DEF WalkPhis
  <2>1. CASE c = b
    <3>1. phi_value(b) = {trace[b][1].reg}
      BY <1>1, <1>2, <2>1, EntryPhi
    <3> QED
      BY <1>7, <1>8, <2>1, <3>1
  <2>2. CASE c # b
    BY <1>5, <1>8, <2>2 DEF Inv, WalkInv, WalkPhis
  <2> QED
    BY <2>1, <2>2
<1>14. WalkSigma'
  <2>1. ASSUME NEW c \in Block, Ran(c)', Walked(c)', NEW s, s = info'[c].sigma, NEW mc, mc = end(c)'
        PROVE  agrees(s, mc)'
    <3>1. Ran(c) /\ Walked(c) /\ s = info[c].sigma /\ mc = end(c)
      BY <1>1, <1>4, <1>5, <2>1
    <3>2. agrees(s, mc)
      BY <3>1 DEF Inv, WalkInv, WalkSigma
    <3> QED
      BY <1>1, <3>2, Still
  <2>2. ASSUME Ran(b)', NEW s, s = cur_sigma', NEW mc, mc = trace'[b][Len(reads'[b]) + 1]
        PROVE  agrees(s, mc)'
    <3>1. mc = trace[b][1] /\ Ran(b)
      <4>1. Len(reads'[b]) + 1 = 1
        BY <1>1, <1>6
      <4> QED
        BY <1>3, <1>4, <2>2, <4>1
    <3>2. agrees(s, mc)
      <4>1. CASE b = 0
        <5>1. /\ s = memory /\ init \in Input
              /\ mc = [reg |-> 0, cell |-> init.cell, present |-> init.present, value |-> init.value]
          BY <1>1, <1>2, <2>2, <3>1, <4>1, EndFacts DEF Inv
        <5>2. s = [cell |-> init.cell, present |-> init.present, value |-> init.value]
          BY <5>1 DEF memory
        <5>3. s \in Memory
          BY <5>1, <5>2 DEF Memory, Input
        <5> QED
          BY <5>1, <5>2, <5>3 DEF agrees
      <4>2. CASE b # 0
        BY <1>1, <1>2, <2>2, <3>1, <4>2, EntrySigma
      <4> QED
        BY <4>1, <4>2
    <3> QED
      BY <1>1, <3>2, Still
  <2> QED
    BY <1>1, <2>1, <2>2 DEF WalkSigma
<1> QED
  BY <1>9, <1>10, <1>11, <1>12, <1>13, <1>14 DEF WalkInv

\* The walk encodes an instruction.
LEMMA WalkItemStep ==
  ASSUME Inv, NEW b \in Block, WalkItem(b)
  PROVE  WalkInv'
<1>1. /\ phase = "walk" /\ phase' = phase /\ cur_block = b /\ Len(reads[b]) < size(b)
      /\ cur_block' = cur_block /\ cur_reach' = cur_reach
      /\ rest' = rest /\ info' = info /\ phival' = phival
      /\ UNCHANGED trackVars /\ UNCHANGED runVars /\ UNCHANGED ctxVars
  BY DEF WalkItem
<1>2. PICK i : i = Len(reads[b]) + 1
  OBVIOUS
<1>3. PICK o : o = prog.ops[b][i]
  OBVIOUS
<1>4. PICK x : x = item_value(b, i)
  OBVIOUS
<1>5. /\ reads' = [reads EXCEPT ![b] = Append(reads[b], x)]
      /\ cur_sigma' = IF is_write(o) /\ region(o) \in relevant /\ region(o) \notin fold THEN to_z3(b, i) ELSE cur_sigma
  BY <1>2, <1>3, <1>4 DEF WalkItem
<1>6. /\ prog' = prog /\ blk' = blk /\ trace' = trace /\ init' = init
      /\ slice' = slice /\ relevant' = relevant /\ fold' = fold
  BY <1>1, Still
<1>7. \A c \in Block : /\ size(c)' = size(c) /\ (Ran(c)' <=> Ran(c)) /\ (branch(c)' <=> branch(c))
                       /\ (takes(c)' <=> takes(c)) /\ end(c)' = end(c)
  BY <1>1, Still
<1>8. \A c \in Block : (Walked(c)' <=> Walked(c)) /\ (visited(c)' <=> visited(c))
  BY <1>1, <1>6 DEF Walked, visited
<1>9. Walking /\ visited(b) /\ ~Walked(b) /\ b # None
  BY <1>1, NamesAssumption DEF Walking, visited, Walked, Inv, WalkInv, WalkType
<1>10. /\ Len(reads[b]) \in Nat /\ size(b) \in Nat /\ i \in 1..size(b) /\ i <= size(b)
  <2>1. Len(reads[b]) \in Nat /\ size(b) \in Nat
    BY <1>9, ReadsLen, EndFacts DEF Inv
  <2> QED
    BY <1>1, <1>2, <2>1
<1>11. PICK S : reads[b] \in Seq(S)
  BY DEF Inv, WalkInv, WalkType
<1>12. /\ Append(reads[b], x) \in Seq(S \cup {x}) /\ Len(Append(reads[b], x)) = i
       /\ \A j \in 1..Len(reads[b]) : Append(reads[b], x)[j] = reads[b][j]
       /\ Append(reads[b], x)[i] = x
  <2>1. reads[b] \in Seq(S \cup {x}) /\ x \in S \cup {x}
    BY <1>11
  <2> QED
    BY <1>2, <2>1, AppendFacts
<1>13. /\ reads'[b] = Append(reads[b], x) /\ DOMAIN reads' = Block
       /\ \A c \in Block : c # b => reads'[c] = reads[c]
  BY <1>5 DEF Inv, WalkInv, WalkType
<1>14. WalkType'
  <2>1. \A c \in Block : \E U : reads'[c] \in Seq(U)
    <3> SUFFICES ASSUME NEW c \in Block PROVE \E U : reads'[c] \in Seq(U)
      OBVIOUS
    <3>1. CASE c = b
      BY <1>12, <1>13, <3>1
    <3>2. CASE c # b
      <4>1. PICK U : reads[c] \in Seq(U)
        BY DEF Inv, WalkInv, WalkType
      <4> QED
        BY <1>13, <3>2, <4>1
    <3> QED
      BY <3>1, <3>2
  <2>2. ASSUME NEW c \in Block
        PROVE  /\ Walked(c)' => Len(reads'[c]) = size(c)'
               /\ c = cur_block' => Len(reads'[c]) <= size(c)'
               /\ ~visited(c)' => reads'[c] = << >>
               /\ ~Walked(c)' => info'[c] = absent
    <3>1. CASE c = b
      <4>1. Len(reads'[b]) = i
        BY <1>12, <1>13
      <4>2. ~Walked(b)' /\ visited(b)' /\ info[b] = absent /\ size(b)' = size(b)
        BY <1>7, <1>8, <1>9 DEF Inv, WalkInv, WalkType
      <4> QED
        BY <1>1, <1>10, <3>1, <4>1, <4>2
    <3>2. CASE c # b
      <4>1. reads'[c] = reads[c] /\ c # cur_block'
        BY <1>1, <1>13, <3>2
      <4> QED
        BY <1>1, <1>7, <1>8, <4>1 DEF Inv, WalkInv, WalkType
    <3> QED
      BY <3>1, <3>2
  <2>3. /\ rest' \subseteq slice' /\ cur_block' \in rest' \cup {None} /\ (phase' = "done" => cur_block' = None)
        /\ DOMAIN info' = Block /\ DOMAIN reads' = Block /\ DOMAIN phival' = Block
    BY <1>1, <1>6, <1>13 DEF Inv, WalkInv, WalkType
  <2>4. absent' = absent
    BY DEF absent
  <2> QED
    BY <2>1, <2>2, <2>3, <2>4 DEF WalkType
<1>15. WalkReach'
  <2>1. cur_reach' \in Guard /\ (holds(cur_reach') <=> Ran(b))
    BY <1>1, <1>9 DEF Inv, WalkInv, WalkReach
  <2>2. ASSUME NEW c \in Block, Walked(c)'
        PROVE  /\ {info'[c].reach, info'[c].edge_taken, info'[c].edge_fall} \subseteq Guard
               /\ holds(info'[c].reach) <=> Ran(c)'
               /\ ~branch(c)' => info'[c].edge_taken = "True" /\ info'[c].edge_fall = "True"
               /\ branch(c)' /\ Ran(c)' => /\ holds(info'[c].edge_taken) <=> takes(c)'
                                           /\ holds(info'[c].edge_fall) <=> ~takes(c)'
    <3>1. Walked(c)
      BY <1>8, <2>2
    <3> QED
      BY <1>1, <1>7, <3>1 DEF Inv, WalkInv, WalkReach
  <2>3. Ran(cur_block)' <=> Ran(b)
    BY <1>1, <1>6 DEF Ran
  <2> QED
    BY <2>1, <2>2, <2>3 DEF WalkReach, holds, Guard
<1>16. WalkChain'
  BY <1>7, <1>8 DEF Inv, WalkInv, WalkChain
<1>17. PICK mc : mc = trace[b][i]
  OBVIOUS
<1>18. Ran(b) => item(b, i, o, mc)
  BY <1>1, <1>2, <1>3, <1>10, <1>17 DEF item
<1>19. WalkReads'
  <2> SUFFICES ASSUME NEW c \in Block, visited(c), Ran(c), NEW j \in 1..Len(reads'[c])
               PROVE  right(c, j)'
    BY <1>7, <1>8 DEF WalkReads
  <2>1. CASE c # b
    <3>1. reads'[c] = reads[c]
      BY <1>13, <2>1
    <3>2. right(c, j)
      BY <3>1 DEF Inv, WalkInv, WalkReads
    <3> QED
      BY <1>6, <3>1, <3>2, RightFrame
  <2>2. CASE c = b /\ j \in 1..Len(reads[b])
    <3>1. right(c, j)
      BY <2>2 DEF Inv, WalkInv, WalkReads
    <3>2. reads'[c][j] = reads[c][j]
      BY <1>12, <1>13, <2>2
    <3> QED
      BY <1>6, <3>1, <3>2, RightFrame
  <2>3. CASE c = b /\ j = i
    <3>1. reads'[b][i] = x
      BY <1>12, <1>13
    <3>2. /\ is_source(o) /\ blk[b].at[i + 1].uses \subseteq relevant => x = trace[b][i + 1].reg
          /\ o.op = "update" /\ "map" \in relevant =>
               (x = 1 <=> applies(o.flags, keyof(mc, o) \in mc.present))
      BY <1>4, <1>9, <1>18, <2>3, ItemRight
    <3>3. right(b, i)'
      BY <1>3, <1>6, <1>17, <3>1, <3>2 DEF right
    <3> QED
      BY <2>3, <3>3
  <2>4. c = b => j \in 1..Len(reads[b]) \/ j = i
    <3> SUFFICES ASSUME c = b PROVE j \in 1..Len(reads[b]) \/ j = i
      OBVIOUS
    <3>1. j \in 1..i
      BY <1>12, <1>13
    <3> QED
      BY <1>2, <1>10, <3>1
  <2> QED
    BY <2>1, <2>2, <2>3, <2>4
<1>20. WalkPhis'
  BY <1>1, <1>6, <1>7, <1>8 DEF Inv, WalkInv, WalkPhis
<1>21. WalkSigma'
  <2>1. ASSUME NEW c \in Block, Ran(c)', Walked(c)', NEW s, s = info'[c].sigma, NEW m, m = end(c)'
        PROVE  agrees(s, m)'
    <3>1. Ran(c) /\ Walked(c) /\ s = info[c].sigma /\ m = end(c)
      BY <1>1, <1>7, <1>8, <2>1
    <3>2. agrees(s, m)
      BY <3>1 DEF Inv, WalkInv, WalkSigma
    <3> QED
      BY <1>1, <3>2, Still
  <2>2. ASSUME Ran(b)', NEW s, s = cur_sigma', NEW m, m = trace'[b][Len(reads'[b]) + 1]
        PROVE  agrees(s, m)'
    <3>1. m = trace[b][i + 1] /\ Ran(b)
      BY <1>6, <1>7, <1>12, <1>13, <2>2
    <3>2. m = exec(mc, o)
      BY <1>9, <1>18, <3>1, ItemPlace
    <3>3. agrees(s, m)
      BY <1>5, <1>9, <1>18, <2>2, <3>1, <3>2, SigmaItem
    <3> QED
      BY <1>1, <3>3, Still
  <2> QED
    BY <1>1, <2>1, <2>2 DEF WalkSigma
<1> QED
  BY <1>14, <1>15, <1>16, <1>19, <1>20, <1>21 DEF WalkInv

\* The guards of the two edges of a block that runs.
LEMMA BranchGuards ==
  ASSUME Inv, Walking, NEW b \in Block, b = cur_block, Len(reads[b]) = size(b), NEW g \in branch_guards(b)
  PROVE  /\ g[1] \in Guard /\ g[2] \in Guard
         /\ ~branch(b) => g[1] = "True" /\ g[2] = "True"
         /\ branch(b) /\ Ran(b) => (holds(g[1]) <=> takes(b)) /\ (holds(g[2]) <=> ~takes(b))
<1>1. CASE ~branch(b)
  <2>1. g = <<"True", "True">>
    BY <1>1 DEF branch_guards
  <2> QED
    BY <1>1, <2>1 DEF Guard
<1>2. CASE branch(b) /\ prog.cond[b] # "zero"
  <2>1. PICK P : P = Formula(b \in init.free)
    OBVIOUS
  <2>2. g = <<P, _not(P)>>
    BY <1>2, <2>1 DEF branch_guards
  <2>3. P \in Guard /\ (holds(P) <=> b \in init.free)
    <3>1. CASE b \in init.free
      <4>1. P = "true"
        BY <2>1, <3>1 DEF Formula
      <4> QED
        BY <3>1, <4>1 DEF holds, Guard
    <3>2. CASE b \notin init.free
      <4>1. P = "false"
        BY <2>1, <3>2 DEF Formula
      <4> QED
        BY <3>2, <4>1 DEF holds, Guard
    <3> QED
      BY <3>1, <3>2
  <2>4. _not(P) \in Guard /\ (holds(_not(P)) <=> ~holds(P))
    BY <2>3, GuardFacts
  <2>5. takes(b) <=> b \in init.free
    BY <1>2 DEF takes
  <2>6. g[1] = P /\ g[2] = _not(P)
    BY <2>2
  <2> QED
    BY ONLY <1>2, <2>3, <2>4, <2>5, <2>6
<1>3. CASE branch(b) /\ prog.cond[b] = "zero"
  <2>1. PICK P \in {Formula(expr_to_z3(out(b)) = 0), Lit(expr_to_z3(out(b)) = 0)} : g = <<P, _not(P)>>
    BY <1>3 DEF branch_guards
  <2>2. P \in Guard /\ (holds(P) <=> expr_to_z3(out(b)) = 0)
    BY <2>1, FormulaFacts
  <2>3. _not(P) \in Guard /\ (holds(_not(P)) <=> ~holds(P))
    BY <2>2, GuardFacts
  <2>4. Ran(b) => expr_to_z3(out(b)) = end(b).reg
    <3> SUFFICES ASSUME Ran(b) PROVE expr_to_z3(out(b)) = end(b).reg
      OBVIOUS
    <3>1. visited(b) /\ size(b) \in Nat
      BY EndFacts DEF visited, Inv
    <3>2. out(b).uses \subseteq relevant
      <4>1. b \in slice
        BY <3>1, ReachFacts
      <4> QED
        BY <1>3, <4>1 DEF Inv, CtxInv, Walking, branch_uses
    <3>3. size(b) + 1 \in 1..(Len(reads[b]) + 1)
      BY <3>1
    <3>4. out(b) = blk[b].at[size(b) + 1] /\ end(b) = trace[b][size(b) + 1]
      BY DEF out, end
    <3> QED
      BY <3>1, <3>2, <3>3, <3>4, ValueAt
  <2>5. takes(b) <=> end(b).reg = 0
    BY <1>3 DEF takes
  <2>6. g[1] = P /\ g[2] = _not(P)
    BY <2>1
  <2> QED
    BY ONLY <1>3, <2>2, <2>3, <2>4, <2>5, <2>6
<1> QED
  BY <1>1, <1>2, <1>3

\* The walk leaves a block.
LEMMA WalkExitStep ==
  ASSUME Inv, NEW b \in Block, WalkExit(b)
  PROVE  WalkInv'
<1>1. /\ phase = "walk" /\ cur_block = b /\ Len(reads[b]) = size(b)
      /\ cur_block' = None /\ rest' = rest \ {b} /\ reads' = reads /\ phival' = phival
      /\ UNCHANGED trackVars /\ UNCHANGED runVars /\ UNCHANGED ctxVars
  BY DEF WalkExit
<1>2. PICK g \in branch_guards(b) :
        info' = [info EXCEPT ![b] = [reach |-> cur_reach, edge_taken |-> g[1],
                                     edge_fall |-> g[2], sigma |-> cur_sigma]]
  BY DEF WalkExit
<1>3. /\ info'[b] = [reach |-> cur_reach, edge_taken |-> g[1], edge_fall |-> g[2], sigma |-> cur_sigma]
      /\ DOMAIN info' = Block /\ \A c \in Block : c # b => info'[c] = info[c]
  BY <1>2 DEF Inv, WalkInv, WalkType
<1>4. /\ info'[b].reach = cur_reach /\ info'[b].edge_taken = g[1] /\ info'[b].edge_fall = g[2]
      /\ info'[b].sigma = cur_sigma
  BY <1>3
<1>5. /\ prog' = prog /\ blk' = blk /\ trace' = trace /\ init' = init
      /\ slice' = slice /\ relevant' = relevant /\ fold' = fold
  BY <1>1, Still
<1>6. \A c \in Block : /\ size(c)' = size(c) /\ (Ran(c)' <=> Ran(c)) /\ (branch(c)' <=> branch(c))
                       /\ (takes(c)' <=> takes(c)) /\ end(c)' = end(c)
  BY <1>1, Still
<1>7. Walking /\ visited(b) /\ b \in slice /\ b # None
  BY <1>1, NamesAssumption DEF Walking, visited, Inv, WalkInv, WalkType
<1>8. \A c \in Block : c # None /\ (Walked(c)' <=> Walked(c) \/ c = b) /\ (visited(c)' <=> visited(c))
  BY <1>1, <1>5, <1>7, NamesAssumption DEF Walked, visited
<1>9. WalkType'
  <2>1. \A c \in Block : \E U : reads'[c] \in Seq(U)
    BY <1>1 DEF Inv, WalkInv, WalkType
  <2>2. ASSUME NEW c \in Block
        PROVE  /\ Walked(c)' => Len(reads'[c]) = size(c)'
               /\ c = cur_block' => Len(reads'[c]) <= size(c)'
               /\ ~visited(c)' => reads'[c] = << >>
               /\ ~Walked(c)' => info'[c] = absent
    <3>1. CASE c = b
      BY <1>1, <1>6, <1>7, <1>8, <3>1
    <3>2. CASE c # b
      BY <1>1, <1>3, <1>6, <1>8, <3>2 DEF Inv, WalkInv, WalkType
    <3> QED
      BY <3>1, <3>2
  <2>3. /\ rest' \subseteq slice' /\ cur_block' \in rest' \cup {None} /\ (phase' = "done" => cur_block' = None)
        /\ DOMAIN info' = Block /\ DOMAIN reads' = Block /\ DOMAIN phival' = Block
    BY <1>1, <1>3, <1>5 DEF Inv, WalkInv, WalkType
  <2>4. absent' = absent
    BY DEF absent
  <2> QED
    BY <2>1, <2>2, <2>3, <2>4 DEF WalkType
<1>10. WalkReach'
  <2>1. ASSUME NEW c \in Block, Walked(c)'
        PROVE  /\ {info'[c].reach, info'[c].edge_taken, info'[c].edge_fall} \subseteq Guard
               /\ holds(info'[c].reach) <=> Ran(c)
               /\ ~branch(c) => info'[c].edge_taken = "True" /\ info'[c].edge_fall = "True"
               /\ branch(c) /\ Ran(c) => /\ holds(info'[c].edge_taken) <=> takes(c)
                                         /\ holds(info'[c].edge_fall) <=> ~takes(c)
    <3>1. CASE c = b
      <4>1. cur_reach \in Guard /\ (holds(cur_reach) <=> Ran(b))
        BY <1>1, <1>7 DEF Inv, WalkInv, WalkReach
      <4>2. /\ g[1] \in Guard /\ g[2] \in Guard
            /\ ~branch(b) => g[1] = "True" /\ g[2] = "True"
            /\ branch(b) /\ Ran(b) => (holds(g[1]) <=> takes(b)) /\ (holds(g[2]) <=> ~takes(b))
        BY <1>1, <1>7, BranchGuards
      <4> QED
        BY <1>4, <3>1, <4>1, <4>2
    <3>2. CASE c # b
      <4>1. Walked(c) /\ info'[c] = info[c]
        BY <1>3, <1>8, <2>1, <3>2
      <4> QED
        BY <4>1 DEF Inv, WalkInv, WalkReach
    <3> QED
      BY <3>1, <3>2
  <2>2. ASSUME NEW c \in Block, Walked(c)'
        PROVE  /\ {info'[c].reach, info'[c].edge_taken, info'[c].edge_fall} \subseteq Guard
               /\ holds(info'[c].reach) <=> Ran(c)'
               /\ ~branch(c)' => info'[c].edge_taken = "True" /\ info'[c].edge_fall = "True"
               /\ branch(c)' /\ Ran(c)' => /\ holds(info'[c].edge_taken) <=> takes(c)'
                                           /\ holds(info'[c].edge_fall) <=> ~takes(c)'
    BY <1>6, <2>1, <2>2
  <2> QED
    BY <1>1, <2>2 DEF WalkReach, holds, Guard
<1>11. WalkChain'
  BY <1>6, <1>8 DEF Inv, WalkInv, WalkChain
<1>12. WalkReads'
  <2> SUFFICES ASSUME NEW c \in Block, visited(c), Ran(c), NEW j \in 1..Len(reads[c])
               PROVE  right(c, j)'
    BY <1>1, <1>6, <1>8 DEF WalkReads
  <2>1. right(c, j)
    BY DEF Inv, WalkInv, WalkReads
  <2> QED
    BY <1>1, <1>5, <2>1, RightFrame
<1>13. WalkPhis'
  BY <1>1, <1>5, <1>6, <1>8 DEF Inv, WalkInv, WalkPhis
<1>14. WalkSigma'
  <2>1. ASSUME NEW c \in Block, Ran(c)', Walked(c)', NEW s, s = info'[c].sigma, NEW m, m = end(c)'
        PROVE  agrees(s, m)'
    <3>1. Ran(c) /\ m = end(c)
      BY <1>6, <2>1
    <3>2. CASE c = b
      <4>1. s = cur_sigma /\ m = trace[b][Len(reads[b]) + 1]
        BY <1>1, <1>4, <2>1, <3>1, <3>2 DEF end
      <4>2. agrees(s, m)
        BY <1>1, <3>1, <3>2, <4>1 DEF Inv, WalkInv, WalkSigma
      <4> QED
        BY <1>1, <4>2, Still
    <3>3. CASE c # b
      <4>1. Walked(c) /\ s = info[c].sigma
        BY <1>3, <1>8, <2>1, <3>3
      <4>2. agrees(s, m)
        BY <3>1, <4>1 DEF Inv, WalkInv, WalkSigma
      <4> QED
        BY <1>1, <4>2, Still
    <3> QED
      BY <3>2, <3>3
  <2> QED
    BY <1>1, <1>8, <2>1 DEF WalkSigma
<1> QED
  BY <1>9, <1>10, <1>11, <1>12, <1>13, <1>14 DEF WalkInv
-----------------------------------------------------------------------------
(* The invariant and the theorems. *)

\* Before a block is visited, nothing is known and nothing is wrong.
Fresh == /\ DOMAIN info = Block /\ DOMAIN reads = Block /\ DOMAIN phival = Block
         /\ \A b \in Block : info[b] = absent /\ reads[b] = << >>
         /\ rest = slice /\ cur_block = None

LEMMA FreshFacts == Fresh => WalkInv
<1> SUFFICES ASSUME Fresh PROVE WalkInv
  OBVIOUS
<1>1. \A b \in Block : ~Walked(b) /\ b # cur_block /\ ~visited(b)
  BY NamesAssumption DEF Walked, visited, Fresh
<1>2. \A b \in Block : reads[b] \in Seq(Int)
  <2>1. << >> \in Seq(Int)
    OBVIOUS
  <2> QED
    BY <2>1 DEF Fresh
<1>3. WalkType
  BY <1>1, <1>2 DEF WalkType, Fresh
<1>4. WalkReach
  BY <1>1 DEF WalkReach, Fresh
<1>5. WalkChain /\ WalkReads /\ WalkPhis
  BY <1>1 DEF WalkChain, WalkReads, WalkPhis
<1>6. WalkSigma
  BY <1>1 DEF WalkSigma
<1> QED
  BY <1>3, <1>4, <1>5, <1>6 DEF WalkInv

\* Until the walk starts, the context and the walk are as Init left them.
LEMMA BeforeWalk ==
  ASSUME CtxInv, WalkInv, phase \in {"track", "run", "slice"}
  PROVE  slice = {} /\ Fresh
<1>1. slice = {} /\ rest = {} /\ cur_block = None
  BY DEF CtxInv
<1>2. \A b \in Block : ~Walked(b) /\ ~visited(b)
  BY <1>1, NamesAssumption DEF Walked, visited
<1> QED
  BY <1>1, <1>2 DEF WalkInv, WalkType, Fresh

LEMMA IdleStep ==
  ASSUME CtxInv, WalkInv, phase \in {"track", "run", "slice"}, phase' \in {"track", "run", "slice"},
         UNCHANGED ctxVars, UNCHANGED walkVars
  PROVE  CtxInv' /\ WalkInv'
<1>1. /\ slice' = slice /\ rest' = rest /\ cur_block' = cur_block
      /\ info' = info /\ reads' = reads /\ phival' = phival
  BY DEF ctxVars, walkVars
<1>2. slice' = {} /\ Fresh'
  BY <1>1, BeforeWalk DEF Fresh
<1>3. CtxInv'
  BY <1>2 DEF CtxInv, Fresh
<1>4. WalkInv'
  BY <1>2, FreshFacts, PTL
<1> QED
  BY <1>3, <1>4

\* The walk starts with nothing visited.
LEMMA StartStep ==
  ASSUME Ordered, Inv, StartWalk
  PROVE  CtxInv' /\ WalkInv'
<1>1. /\ phase = "slice" /\ rest' = slice' /\ cur_block' = cur_block
      /\ info' = info /\ reads' = reads /\ phival' = phival
  BY DEF StartWalk
<1>2. Fresh'
  BY <1>1, BeforeWalk DEF Fresh, Inv
<1>3. WalkInv'
  BY <1>2, FreshFacts, PTL
<1> QED
  BY <1>3, CtxStart DEF Inv

\* A step that changes nothing.
LEMMA StutterStep ==
  ASSUME CtxInv, WalkInv, RunType, UNCHANGED vars
  PROVE  CtxInv' /\ WalkInv'
<1>1. /\ UNCHANGED trackVars /\ UNCHANGED runVars /\ UNCHANGED ctxVars /\ UNCHANGED walkVars /\ phase' = phase
  BY DEF vars
<1>2. /\ rest' = rest /\ cur_block' = cur_block /\ cur_reach' = cur_reach /\ cur_sigma' = cur_sigma
      /\ info' = info /\ reads' = reads /\ phival' = phival
  BY <1>1 DEF walkVars
<1>3. /\ prog' = prog /\ blk' = blk /\ trace' = trace /\ init' = init
      /\ slice' = slice /\ relevant' = relevant /\ fold' = fold
      /\ \A b \in Block : /\ size(b)' = size(b) /\ (Ran(b)' <=> Ran(b)) /\ (branch(b)' <=> branch(b))
                          /\ (takes(b)' <=> takes(b)) /\ end(b)' = end(b)
      /\ \A s, mc : agrees(s, mc) => agrees(s, mc)'
  BY <1>1, Still
<1>4. \A b : (Walked(b)' <=> Walked(b)) /\ (visited(b)' <=> visited(b))
  BY <1>2, <1>3 DEF Walked, visited
<1>5. CASE phase \in {"track", "run", "slice"}
  BY <1>1, <1>5, IdleStep
<1>6. CASE Walking
  <2>1. CtxInv'
    BY <1>1, <1>6, CtxFrame DEF Walking
  <2>2. WalkType'
    BY <1>1, <1>2, <1>3, <1>4 DEF WalkInv, WalkType
  <2>3. WalkReach'
    <3>1. cur_block' # None => cur_reach' \in Guard /\ (holds(cur_reach') <=> Ran(cur_block)')
      <4>1. (Ran(cur_block))' <=> Ran(cur_block)
        BY <1>2, <1>3 DEF Ran
      <4> QED
        BY <1>2, <4>1 DEF WalkInv, WalkReach
    <3>2. \A b \in Block : Walked(b)' =>
           /\ {info'[b].reach, info'[b].edge_taken, info'[b].edge_fall} \subseteq Guard
           /\ holds(info'[b].reach) <=> Ran(b)'
           /\ ~branch(b)' => info'[b].edge_taken = "True" /\ info'[b].edge_fall = "True"
           /\ branch(b)' /\ Ran(b)' => /\ holds(info'[b].edge_taken) <=> takes(b)'
                                       /\ holds(info'[b].edge_fall) <=> ~takes(b)'
      BY <1>2, <1>3, <1>4 DEF WalkInv, WalkReach
    <3> QED
      BY <3>1, <3>2 DEF WalkReach, holds, Guard
  <2>4. WalkChain'
    BY <1>3, <1>4 DEF WalkInv, WalkChain
  <2>5. WalkReads'
    <3> SUFFICES ASSUME NEW c \in Block, visited(c), Ran(c), NEW j \in 1..Len(reads[c]) PROVE right(c, j)'
      BY <1>2, <1>3, <1>4 DEF WalkReads
    <3>1. right(c, j)
      BY DEF WalkInv, WalkReads
    <3> QED
      BY <1>2, <1>3, <3>1, RightFrame
  <2>6. WalkPhis'
    BY <1>2, <1>3, <1>4 DEF WalkInv, WalkPhis
  <2>7. WalkSigma'
    <3> SUFFICES ASSUME NEW b \in Block, Ran(b)
                 PROVE  /\ Walked(b)' => agrees(info[b].sigma, end(b))'
                        /\ b = cur_block => agrees(cur_sigma, trace[b][Len(reads[b]) + 1])'
      BY <1>2, <1>3 DEF WalkSigma
    <3>1. PICK s : s = info[b].sigma
      OBVIOUS
    <3>2. PICK mc : mc = end(b)
      OBVIOUS
    <3>3. PICK t : t = cur_sigma
      OBVIOUS
    <3>4. PICK nc : nc = trace[b][Len(reads[b]) + 1]
      OBVIOUS
    <3>5. /\ Walked(b) => agrees(s, mc)
          /\ b = cur_block => agrees(t, nc)
      BY <3>1, <3>2, <3>3, <3>4 DEF WalkInv, WalkSigma
    <3>6. /\ Walked(b)' => agrees(s, mc)'
          /\ b = cur_block => agrees(t, nc)'
      BY <1>3, <1>4, <3>5
    <3>7. s = info'[b].sigma /\ mc = end(b)' /\ t = cur_sigma' /\ nc = trace'[b][Len(reads'[b]) + 1]
      BY <1>2, <1>3, <3>1, <3>2, <3>3, <3>4
    <3> QED
      BY <3>6, <3>7 DEF agrees
  <2> QED
    BY <2>1, <2>2, <2>3, <2>4, <2>5, <2>6, <2>7 DEF WalkInv
<1> QED
  BY <1>5, <1>6 DEF RunType, Walking

\* The inductive invariant: what the tracker recorded, what the run did, the
\* slice and the relevant regions, and the walk so far.
LEMMA ForwardInvariant ==
  ASSUME Ordered
  PROVE  Spec => []Inv
<1>1. Init => CtxInv /\ WalkInv
  <2> SUFFICES ASSUME Init PROVE CtxInv /\ WalkInv
    OBVIOUS
  <2>1. Fresh
    BY DEF Init, Fresh
  <2>2. CtxInv
    BY DEF Init, CtxInv
  <2> QED
    BY <2>1, <2>2, FreshFacts
<1>2. ASSUME Inv, [Next]_vars PROVE CtxInv' /\ WalkInv'
  <2>1. CtxInv /\ WalkInv /\ RunType
    BY <1>2 DEF Inv, RunInv
  <2>2. ASSUME NEW b \in Block, TrackEntry(b) \/ TrackOp(b) PROVE CtxInv' /\ WalkInv'
    <3>1. phase = "track" /\ phase' = "track" /\ UNCHANGED ctxVars /\ UNCHANGED walkVars
      BY <2>2 DEF TrackEntry, TrackOp
    <3> QED
      BY <2>1, <3>1, IdleStep
  <2>3. CASE Feed \/ RunOp \/ RunEdge
    <3>1. /\ phase \in {"track", "run", "slice"} /\ phase' \in {"track", "run", "slice"}
          /\ UNCHANGED ctxVars /\ UNCHANGED walkVars
      BY <2>3 DEF Feed, RunOp, RunEdge
    <3> QED
      BY <2>1, <3>1, IdleStep
  <2>4. CASE StartWalk
    BY <1>2, <2>4, StartStep
  <2>5. ASSUME NEW b \in Block, WalkEntry(b) \/ WalkItem(b) \/ WalkExit(b) PROVE CtxInv' /\ WalkInv'
    <3>1. /\ Walking /\ phase' \in {"walk", "done"}
          /\ UNCHANGED trackVars /\ UNCHANGED runVars /\ UNCHANGED ctxVars
      BY <2>5 DEF WalkEntry, WalkItem, WalkExit, Walking
    <3>2. CtxInv'
      BY <2>1, <3>1, CtxFrame
    <3>3. WalkInv'
      BY <1>2, <2>5, WalkEntryStep, WalkItemStep, WalkExitStep
    <3> QED
      BY <3>2, <3>3
  <2>6. CASE UNCHANGED vars
    BY <2>1, <2>6, StutterStep
  <2> QED
    BY <1>2, <2>2, <2>3, <2>4, <2>5, <2>6 DEF Next, Ended
<1>3. Spec => []TrackInv /\ []RunInv
  BY TrackInvariant, RunInvariant
<1>4. Inv <=> TrackInv /\ RunInv /\ CtxInv /\ WalkInv
  BY DEF Inv
<1> QED
  BY <1>1, <1>2, <1>3, <1>4, PTL DEF Spec

\* A block is walked only after the run.
LEMMA WalkedFacts ==
  ASSUME Inv, NEW b, Walked(b)
  PROVE  /\ Walking /\ b \in Block /\ visited(b)
         /\ size(b) \in Nat /\ Len(reads[b]) = size(b)
         /\ out(b) = blk[b].at[size(b) + 1] /\ end(b) = trace[b][size(b) + 1]
<1>1. slice # {} /\ phase \in {"track", "run", "slice", "walk", "done"}
  BY DEF Walked, Inv, RunInv, RunType
<1>2. Walking
  BY <1>1 DEF Inv, CtxInv, Walking
<1>3. b \in Block
  BY <1>2 DEF Walked, Inv, CtxInv, Walking
<1>4. size(b) \in Nat
  BY <1>2, <1>3, EndFacts DEF Inv
<1> QED
  BY <1>2, <1>3, <1>4 DEF visited, Inv, WalkInv, WalkType, out, end

\* The reach condition ForwardContext computes for a block holds of an input
\* exactly when the program, run on that input, executes the block: for every
\* program whose edges go forward, every query, every order of the walk and
\* every simplification of the guards.
THEOREM ReachIsExact ==
  ASSUME Ordered
  PROVE  Spec => []ReachExact
<1>1. Inv => ReachExact
  BY DEF Inv, WalkInv, WalkReach, ReachExact
<1>2. Spec => []Inv
  BY ForwardInvariant
<1> QED
  BY <1>1, <1>2, PTL

\* Loads, lookups and map reads of a walked block that runs, and its JoinValue,
\* have the value the run sees, whether Memory folds the region's writes or the
\* walk merges it in sigma, unless they depend on a region relevant_regions
\* left out.
THEOREM ReadsAreExact ==
  ASSUME Ordered
  PROVE  Spec => []ReadsExact
<1>1. ASSUME Inv PROVE ReadsExact
  <2> SUFFICES ASSUME NEW b \in Block, Walked(b), Ran(b)
               PROVE  /\ \A i \in 1..size(b) :
                           is_source(prog.ops[b][i]) /\ blk[b].at[i + 1].uses \subseteq relevant =>
                             reads[b][i] = trace[b][i + 1].reg
                      /\ blk[b].at[1].uses \subseteq relevant => expr_to_z3(blk[b].at[1]) = trace[b][1].reg
    BY DEF ReadsExact
  <2>1. Walking /\ visited(b) /\ size(b) \in Nat /\ Len(reads[b]) = size(b)
    BY <1>1, WalkedFacts
  <2>2. ASSUME NEW i \in 1..size(b), is_source(prog.ops[b][i]), blk[b].at[i + 1].uses \subseteq relevant
        PROVE  reads[b][i] = trace[b][i + 1].reg
    <3>1. right(b, i)
      BY <1>1, <2>1 DEF Inv, WalkInv, WalkReads
    <3> QED
      BY <2>2, <3>1 DEF right
  <2>3. blk[b].at[1].uses \subseteq relevant => expr_to_z3(blk[b].at[1]) = trace[b][1].reg
    <3>1. 1 \in 1..(Len(reads[b]) + 1)
      BY <2>1
    <3> QED
      BY <1>1, <2>1, <3>1, ValueAt
  <2> QED
    BY <2>2, <2>3
<1>2. Spec => []Inv
  BY ForwardInvariant
<1> QED
  BY <1>1, <1>2, PTL

\* The state a condition is decided in is the memory of the run at the end of
\* the block, in each region the query names: neither the slice, nor the writes
\* relevant_regions drops, nor the fold, nor the merge at joins loses anything.
THEOREM StatesAreExact ==
  ASSUME Ordered
  PROVE  Spec => []StateExact
<1>1. ASSUME Inv PROVE StateExact
  <2> SUFFICES ASSUME NEW b \in Block, Walked(b), Ran(b)
               PROVE  /\ \A c \in query.regions \cap Cell : StateCell(b, c) = end(b).cell[c]
                      /\ "map" \in query.regions => \A k \in Key :
                           /\ StatePresent(b, k) <=> k \in end(b).present
                           /\ StateValue(b, k) = end(b).value[k]
    BY DEF StateExact
  <2>1. /\ Walking /\ visited(b) /\ size(b) \in Nat /\ Len(reads[b]) = size(b)
        /\ end(b) = trace[b][size(b) + 1]
    BY <1>1, WalkedFacts
  <2>2. size(b) + 1 \in 1..(Len(reads[b]) + 1)
    BY <2>1
  <2>3. query.regions \subseteq relevant
    BY <1>1, <2>1 DEF Inv, CtxInv, Walking
  <2>4. agrees(info[b].sigma, end(b))
    BY <1>1 DEF Inv, WalkInv, WalkSigma
  <2>5. ASSUME NEW c \in query.regions \cap Cell PROVE StateCell(b, c) = end(b).cell[c]
    <3>1. FoldCell(c, b, size(b) + 1) = trace[b][size(b) + 1].cell[c]
      BY <1>1, <2>1, <2>2, <2>3, FoldCellFacts
    <3>2. c \notin fold => info[b].sigma.cell[c] = end(b).cell[c]
      BY <2>3, <2>4 DEF agrees
    <3> QED
      BY <2>1, <3>1, <3>2 DEF StateCell
  <2>6. ASSUME "map" \in query.regions, NEW k \in Key
        PROVE  (StatePresent(b, k) <=> k \in end(b).present) /\ StateValue(b, k) = end(b).value[k]
    <3>1. "map" \in relevant
      BY <2>3, <2>6
    <3>2. FoldValue(k, b, size(b) + 1) = trace[b][size(b) + 1].value[k]
      BY <1>1, <2>1, <2>2, <3>1, FoldValueFacts
    <3>3. FoldPresent(k, b, size(b) + 1) <=> k \in trace[b][size(b) + 1].present
      BY <1>1, <2>1, <2>2, <3>1, FoldPresentFacts
    <3>4. "map" \notin fold => info[b].sigma.present = end(b).present /\ info[b].sigma.value = end(b).value
      BY <2>4, <3>1 DEF agrees
    <3>5. StatePresent(b, k) <=> k \in end(b).present
      BY <2>1, <3>3, <3>4 DEF StatePresent
    <3>6. StateValue(b, k) = end(b).value[k]
      BY <2>1, <3>2, <3>4 DEF StateValue
    <3> QED
      BY <3>5, <3>6
  <2> QED
    BY <2>5, <2>6
<1>2. Spec => []Inv
  BY ForwardInvariant
<1> QED
  BY <1>1, <1>2, PTL

\* The return value ret_state reads at the exit that runs is the value the
\* program returns.
THEOREM ReturnIsExact ==
  ASSUME Ordered
  PROVE  Spec => []RetExact
<1>1. ASSUME Inv PROVE RetExact
  <2> SUFFICES ASSUME NEW b \in exits, Walked(b), Ran(b) PROVE expr_to_z3(out(b)) = end(b).reg
    BY DEF RetExact
  <2>1. /\ Walking /\ b \in Block /\ visited(b) /\ size(b) \in Nat /\ Len(reads[b]) = size(b)
        /\ out(b) = blk[b].at[size(b) + 1] /\ end(b) = trace[b][size(b) + 1]
    BY <1>1, WalkedFacts
  <2>2. size(b) + 1 \in 1..(Len(reads[b]) + 1)
    BY <2>1
  <2>3. out(b).uses \subseteq relevant
    <3>1. b \in slice
      BY DEF Walked
    <3> QED
      BY <1>1, <2>1, <3>1 DEF Inv, CtxInv, Walking
  <2> QED
    BY <1>1, <2>1, <2>2, <2>3, ValueAt
<1>2. Spec => []Inv
  BY ForwardInvariant
<1> QED
  BY <1>1, <1>2, PTL
=============================================================================
