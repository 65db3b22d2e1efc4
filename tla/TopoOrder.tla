------------------------------- MODULE TopoOrder -------------------------------
(***************************************************************************)
(* The block-level graph passes of verify/prune.py that every query runs   *)
(* first: forward_reachable, _slice_to for each target (as the caller      *)
(* _block_slice of verify/forward.py applies it), topo_order and           *)
(* ancestors.  One step is one iteration of a loop of the code.  The first *)
(* two walks only collect a set, so their stacks are modelled as sets from *)
(* which any member may be popped; the stack of topo_order decides its     *)
(* result and is kept as it is.  topo_order paints blocks white (0), gray  *)
(* (1) and black (2) and raises on an edge to a gray block or when its     *)
(* postorder does not cover the live blocks.                               *)
(***************************************************************************)
EXTENDS Integers, SequencesExt

CONSTANTS N,        \* number of basic blocks: Block.num ranges over 0..N-1
          None,     \* Python's None: an absent successor
          Graphs,   \* the CFGs to check, as records [t, f] of the two successor maps
          Targets   \* the target lists to check; None asks for every live block

Block == 0 .. N - 1

Graph == [t : [Block -> Block \cup {None}], f : [Block -> Block \cup {None}]]

\* topo_order's stack entries: (b, False) to visit b, (b, True) to finish it.
Entry == Block \X {"enter", "leave"}

ASSUME NAssumption == N \in Nat \ {0}
ASSUME NoneAssumption == None \notin Block
ASSUME GraphsAssumption == Graphs \subseteq Graph
ASSUME TargetsAssumption == Targets \subseteq (SUBSET Block) \cup {None}

VARIABLES
  blocks,   \* the CFG; read only
  targets,  \* the blocks asked about, or None; read only
  pc,       \* the loop being run, or how the passes ended
  pending,  \* targets whose backward walk has not started
  work,     \* the blocks on the stack of forward_reachable or _slice_to
  seen,     \* forward_reachable's `seen`, _slice_to's `bwd`
  keep,     \* _block_slice's `keep`
  live,     \* the set topo_order is given
  color, stack, order,   \* topo_order's locals
  anc       \* ancestors' result: a function on the blocks of `order` done so far

vars == <<blocks, targets, pc, pending, work, seen, keep, live, color, stack, order, anc>>
graphVars == <<blocks, targets>>
walkVars == <<pending, work, seen, keep, live>>
topoVars == <<color, stack, order>>

-----------------------------------------------------------------------------
(* The graph. *)

\* build_cfg records each edge at both ends, so preds is the converse of successors.
successors(b) == {u \in Block : blocks.t[b] = u \/ blocks.f[b] = u}
preds(b) == {p \in Block : b \in successors(p)}

-----------------------------------------------------------------------------
Init ==
  /\ blocks \in Graphs
  /\ targets \in Targets
  /\ pc = "reach"
  /\ pending = {}
  /\ work = {0}
  /\ seen = {}
  /\ keep = {}
  /\ live = {}
  /\ color = [b \in Block |-> 0]
  /\ stack = << >>
  /\ order = << >>
  /\ anc = << >>

\* Faulty variant: `if b in seen: continue` is missing.
ForwardReachableStepAgain(b) ==
  /\ pc = "reach"
  /\ b \in work
  /\ seen' = seen \cup {b}
  /\ work' = (work \ {b}) \cup successors(b)
  /\ UNCHANGED <<graphVars, pc, pending, keep, live, topoVars, anc>>

\* One iteration of forward_reachable's loop.
ForwardReachableStep(b) ==
  /\ pc = "reach"
  /\ b \in work
  /\ seen' = seen \cup {b}
  /\ work' = (work \ {b}) \cup (IF b \in seen THEN {} ELSE successors(b))
  /\ UNCHANGED <<graphVars, pc, pending, keep, live, topoVars, anc>>

\* topo_order's first line, with the live set it was called with.
StartTopo(l) ==
  /\ pc' = "topo"
  /\ live' = l
  /\ stack' = <<<<0, "enter">>>>
  /\ UNCHANGED <<color, order>>

\* forward_reachable returns; without targets every live block is kept, with
\* targets _block_slice starts from {0}.
ForwardReachableReturn ==
  /\ pc = "reach"
  /\ work = {}
  /\ IF targets = None
     THEN StartTopo(seen) /\ UNCHANGED <<pending, keep>>
     ELSE /\ pc' = "slice"
          /\ live' = seen
          /\ keep' = {0}
          /\ pending' = targets
          /\ UNCHANGED topoVars
  /\ seen' = {}
  /\ UNCHANGED <<graphVars, work, anc>>

\* Faulty variant: `if t in live` is missing.
NextTargetUnfiltered(t) ==
  /\ pc = "slice"
  /\ work = {}
  /\ t \in pending
  /\ pending' = pending \ {t}
  /\ keep' = keep \cup seen
  /\ seen' = {}
  /\ work' = {t}
  /\ UNCHANGED <<graphVars, pc, live, topoVars, anc>>

\* Faulty variant: `keep = ` instead of `keep |= `.
NextTargetForgets(t) ==
  /\ pc = "slice"
  /\ work = {}
  /\ t \in pending
  /\ pending' = pending \ {t}
  /\ seen' = {}
  /\ work' = {t} \cap live
  /\ UNCHANGED <<graphVars, pc, keep, live, topoVars, anc>>

\* _block_slice takes the next target; one that block 0 cannot reach is skipped.
NextTarget(t) ==
  /\ pc = "slice"
  /\ work = {}
  /\ t \in pending
  /\ pending' = pending \ {t}
  /\ keep' = keep \cup seen
  /\ seen' = {}
  /\ work' = {t} \cap live
  /\ UNCHANGED <<graphVars, pc, live, topoVars, anc>>

\* One iteration of _slice_to's loop: the live predecessors not yet seen are
\* pushed.
SliceToStep(b) ==
  /\ pc = "slice"
  /\ b \in work
  /\ LET bwd == seen \cup {b} IN
       /\ seen' = bwd
       /\ work' = (work \ {b}) \cup
                  (IF b \in seen THEN {} ELSE (preds(b) \cap live) \ bwd)
  /\ UNCHANGED <<graphVars, pc, pending, keep, live, topoVars, anc>>

\* Every target's slice has been collected: topo_order is called on the union.
BlockSliceReturn ==
  /\ pc = "slice"
  /\ work = {}
  /\ pending = {}
  /\ keep' = keep \cup seen
  /\ seen' = {}
  /\ StartTopo(keep \cup seen)
  /\ UNCHANGED <<graphVars, pending, work, anc>>

\* Faulty variant: `color[b] = 2` is missing.
TopoFinishGray ==
  /\ pc = "topo"
  /\ stack # << >>
  /\ Last(stack)[2] = "leave"
  /\ order' = Append(order, Last(stack)[1])
  /\ stack' = Front(stack)
  /\ UNCHANGED <<graphVars, pc, walkVars, color, anc>>

\* A (b, "leave") entry: all that b leads to is finished, so b joins the postorder.
TopoFinish ==
  /\ pc = "topo"
  /\ stack # << >>
  /\ Last(stack)[2] = "leave"
  /\ LET b == Last(stack)[1] IN
       /\ color' = [color EXCEPT ![b] = 2]
       /\ order' = Append(order, b)
       /\ stack' = Front(stack)
  /\ UNCHANGED <<graphVars, pc, walkVars, anc>>

\* A (b, "enter") entry whose block has been painted since it was pushed.
TopoSkip ==
  /\ pc = "topo"
  /\ stack # << >>
  /\ Last(stack)[2] = "enter"
  /\ color[Last(stack)[1]] # 0
  /\ stack' = Front(stack)
  /\ UNCHANGED <<graphVars, pc, walkVars, color, order, anc>>

\* topo_order's push of one successor u that is not gray (u may be None).
PushUnlessBlack(s, u) ==
  IF u \in live /\ color[u] # 2 THEN Append(s, <<u, "enter">>) ELSE s

\* Its loop over the successors of b: the taken edge first, the fall-through
\* edge only when it leads elsewhere.
PushSuccessors(s, b) ==
  LET afterTaken == PushUnlessBlack(s, blocks.t[b])
  IN  IF blocks.f[b] = blocks.t[b] THEN afterTaken
      ELSE PushUnlessBlack(afterTaken, blocks.f[b])

\* Faulty variant: `if color.get(u):` takes a join for a cycle.
PaintedSuccessors(b) == {u \in successors(b) \cap live : u = b \/ color[u] # 0}

\* The successors of b that stop the sort: b itself or a block still gray.
GraySuccessors(b) == {u \in successors(b) \cap live : u = b \/ color[u] = 1}

\* A (b, "enter") entry of a white block: paint it gray, push (b, "leave") and
\* above it the live successors that are not black.
TopoExpand ==
  /\ pc = "topo"
  /\ stack # << >>
  /\ Last(stack)[2] = "enter"
  /\ LET b == Last(stack)[1] IN
       /\ color[b] = 0
       /\ GraySuccessors(b) = {}
       /\ color' = [color EXCEPT ![b] = 1]
       /\ stack' = PushSuccessors(Append(Front(stack), <<b, "leave">>), b)
  /\ UNCHANGED <<graphVars, pc, walkVars, order, anc>>

\* RuntimeError "prune: cycle detected at block ...".
TopoCycle ==
  /\ pc = "topo"
  /\ stack # << >>
  /\ Last(stack)[2] = "enter"
  /\ LET b == Last(stack)[1] IN
       /\ color[b] = 0
       /\ GraySuccessors(b) # {}
       /\ color' = [color EXCEPT ![b] = 1]
  /\ pc' = "cycle"
  /\ UNCHANGED <<graphVars, walkVars, stack, order, anc>>

\* Faulty variant: `order.reverse()` is missing.
TopoReturnPostorder ==
  /\ pc = "topo"
  /\ stack = << >>
  /\ pc' = IF Len(order) = Cardinality(live) THEN "anc" ELSE "uncovered"
  /\ UNCHANGED <<graphVars, walkVars, topoVars, anc>>

\* The loop is over: reverse the postorder and compare it with the live set.
TopoReturn ==
  /\ pc = "topo"
  /\ stack = << >>
  /\ order' = Reverse(order)
  /\ pc' = IF Len(order) = Cardinality(live) THEN "anc" ELSE "uncovered"
  /\ UNCHANGED <<graphVars, walkVars, color, stack, anc>>

\* Faulty variant: `s |= anc[p]` is missing.
AncestorsStepDirect ==
  /\ pc = "anc"
  /\ Cardinality(DOMAIN anc) < Len(order)
  /\ LET b == order[Cardinality(DOMAIN anc) + 1]
     IN  anc' = [x \in DOMAIN anc \cup {b} |-> IF x = b THEN preds(b) \cap DOMAIN anc ELSE anc[x]]
  /\ UNCHANGED <<graphVars, pc, walkVars, topoVars>>

\* One iteration of ancestors: the predecessors done so far, and theirs.
AncestorsStep ==
  /\ pc = "anc"
  /\ Cardinality(DOMAIN anc) < Len(order)
  /\ LET b  == order[Cardinality(DOMAIN anc) + 1]
         ps == {p \in preds(b) : p \in DOMAIN anc}
         s  == ps \cup UNION {anc[p] : p \in ps}
     IN  anc' = [x \in DOMAIN anc \cup {b} |-> IF x = b THEN s ELSE anc[x]]
  /\ UNCHANGED <<graphVars, pc, walkVars, topoVars>>

AncestorsReturn ==
  /\ pc = "anc"
  /\ Cardinality(DOMAIN anc) = Len(order)
  /\ pc' = "done"
  /\ UNCHANGED <<graphVars, walkVars, topoVars, anc>>

\* The passes have returned or raised.
Ended == pc \in {"done", "cycle", "uncovered"} /\ UNCHANGED vars

Next ==
  \/ \E b \in work : ForwardReachableStep(b) \/ SliceToStep(b)
  \/ ForwardReachableReturn
  \/ \E t \in pending : NextTarget(t)
  \/ BlockSliceReturn
  \/ TopoFinish \/ TopoSkip \/ TopoExpand \/ TopoCycle \/ TopoReturn
  \/ AncestorsStep \/ AncestorsReturn
  \/ Ended

\* A sequential pass: as long as a step is possible it is taken.
Spec == Init /\ [][Next]_vars /\ WF_vars(Next)
-----------------------------------------------------------------------------
(* Properties. *)

\* The values every variable keeps to.
TypeOK ==
  /\ blocks \in Graph
  /\ targets \in (SUBSET Block) \cup {None}
  /\ pc \in {"reach", "slice", "topo", "anc", "done", "cycle", "uncovered"}
  /\ pending \subseteq Block
  /\ work \subseteq Block
  /\ seen \subseteq Block
  /\ keep \subseteq Block
  /\ live \subseteq Block
  /\ color \in [Block -> 0..2]
  /\ stack \in Seq(Entry)
  /\ order \in Seq(Block)

Sorted == pc \in {"anc", "done"}

\* topo_order returns each live block once, and no edge between live blocks
\* leads to a block at the same or an earlier place: what the walk of
\* ForwardContext relies on when it reads its predecessors' states.
TopologicalOrder ==
  Sorted =>
    /\ {order[i] : i \in 1..Len(order)} = live
    /\ \A i, j \in 1..Len(order) : order[i] = order[j] => i = j
    /\ \A i, j \in 1..Len(order) :
         order[j] \in successors(order[i]) => i < j

\* The second RuntimeError of topo_order is dead code: a slice always contains
\* a path from block 0 to each of its blocks, so the sort covers it.
SortCoversLive == pc # "uncovered"

\* The blocks that b reaches along one or more edges within S: those that no set
\* leaves out that holds the successors of b and of its own members in S.
ReachableWithin(b, S) ==
  LET closed == {T \in SUBSET S : \A x \in T \cup {b} : successors(x) \cap S \subseteq T}
  IN  S \ UNION {S \ T : T \in closed}

\* topo_order raises "cycle detected" on exactly the slices with a cycle that
\* block 0 reaches, never on a join or on an edge between branches.
CycleExact ==
  /\ pc = "cycle" => \E b \in live : b \in ReachableWithin(b, live)
  /\ Sorted => \A b \in live : b \notin ReachableWithin(b, live)

fromEntry == {0} \cup ReachableWithin(0, Block)
leadsTo(b) == {b} \cup ReachableWithin(b, Block)

\* The slice is block 0 and exactly the blocks on a path from block 0 to a
\* target: nothing a query depends on is pruned and nothing else is encoded.
SliceExact ==
  pc = "topo" =>
    live = {b \in fromEntry : b = 0 \/ targets = None \/ leadsTo(b) \cap targets # {}}

\* ancestors returns, for each live block, the live blocks with a path to it:
\* the set Memory uses to tell which writes can have happened before a block.
AncestorsExact ==
  pc = "done" =>
    /\ DOMAIN anc = live
    /\ \A b \in live : anc[b] \subseteq live
    /\ \A a \in live : {b \in live : a \in anc[b]} = ReachableWithin(a, live)

\* On every CFG, cyclic ones included, the passes return or raise.
Terminates == <>(pc \in {"done", "cycle", "uncovered"})

-----------------------------------------------------------------------------
(* The inductive invariant behind these properties. *)

\* Each member of S is reached from block 0 by edges that stay in S.
Connected(S) ==
  \A T \in SUBSET Block :
    (0 \in T /\ \A b \in T : successors(b) \cap S \subseteq T) => S \subseteq T

\* forward_reachable: what is seen or waits is in every set that contains
\* block 0 and is closed under successors, and the successors of a seen
\* block are seen or wait.
ReachInv ==
  pc = "reach" =>
    /\ order = << >> /\ stack = << >> /\ color = [b \in Block |-> 0]
    /\ 0 \in seen \cup work
    /\ \A b \in seen : successors(b) \subseteq seen \cup work
    /\ \A T \in SUBSET Block :
         (0 \in T /\ \A b \in T : successors(b) \subseteq T) => seen \cup work \subseteq T

\* _slice_to: the live predecessors of a seen block are seen or wait; those of
\* a kept block, other than the entry, are kept.
SliceInv ==
  pc = "slice" =>
    /\ order = << >> /\ stack = << >> /\ color = [b \in Block |-> 0]
    /\ 0 \in keep
    /\ keep \cup seen \cup work \subseteq live
    /\ \A b \in seen : preds(b) \cap live \subseteq seen \cup work
    /\ \A b \in keep \ {0} : preds(b) \cap live \subseteq keep
    /\ Connected(live)
    /\ 0 \in live

\* What topo_order is given.
LiveInv == pc \in {"topo", "anc", "done", "uncovered"} => Connected(live) /\ 0 \in live

\* The gray blocks are those with a (b, "leave") entry, and each has one.
GrayInv ==
  /\ \A i \in 1..Len(stack) : stack[i][1] \in live
  /\ \A i \in 1..Len(stack) : stack[i][2] = "leave" => color[stack[i][1]] = 1
  /\ \A i, j \in 1..Len(stack) :
       stack[i][2] = "leave" /\ stack[j][2] = "leave" /\ stack[i][1] = stack[j][1] => i = j
  /\ \A b \in Block : color[b] = 1 => \E i \in 1..Len(stack) : stack[i] = <<b, "leave">>

\* A live successor of a gray block is black or waits above it, and is never a
\* gray block below it.
SuccessorInv ==
  \A i \in 1..Len(stack) : stack[i][2] = "leave" =>
    \A u \in successors(stack[i][1]) \cap live :
      /\ color[u] = 2 \/ \E j \in (i+1)..Len(stack) : stack[j][1] = u
      /\ \A k \in 1..i : stack[k] # <<u, "leave">>

\* The postorder holds the black blocks, each once and after its successors.
PostorderInv ==
  /\ \A b \in Block : color[b] = 2 <=> \E i \in 1..Len(order) : order[i] = b
  /\ \A i, j \in 1..Len(order) : order[i] = order[j] => i = j
  /\ \A b \in Block : color[b] = 2 => b \in live
  /\ \A i \in 1..Len(order) : \A u \in successors(order[i]) \cap live :
       \E j \in 1..(i-1) : order[j] = u

EntryInv == color[0] = 0 => \E i \in 1..Len(stack) : stack[i][1] = 0

DfsInv == pc = "topo" => GrayInv /\ SuccessorInv /\ PostorderInv /\ EntryInv

\* The reason the order is topological and complete.
OrderInv == TypeOK /\ ReachInv /\ SliceInv /\ LiveInv /\ DfsInv /\ TopologicalOrder /\ SortCoversLive

\* _block_slice: what was collected leads to a target, and all that leads to a
\* target already walked is kept; the walk of the last one taken may still run.
CollectInv ==
  pc = "slice" =>
    /\ targets # None /\ pending \subseteq targets
    /\ live = fromEntry
    /\ \A b \in (keep \ {0}) \cup seen \cup work : leadsTo(b) \cap targets # {}
    /\ \A t \in targets \ pending :
         \/ t \in live => t \in seen \cup work
         \/ \A b \in live \ keep : t \notin leadsTo(b)

\* A gray block leads to all that waits above it.
PathInv ==
  pc = "topo" =>
    \A i \in 1..Len(stack) : stack[i][2] = "leave" =>
      {stack[j][1] : j \in (i+1)..Len(stack)} \subseteq ReachableWithin(stack[i][1], live)

\* ancestors has done a first part of the order, each block with its ancestors.
AncestorsInv ==
  IF Sorted
  THEN /\ Cardinality(DOMAIN anc) \in 0 .. Len(order)
       /\ DOMAIN anc = {order[i] : i \in 1 .. Cardinality(DOMAIN anc)}
       /\ \A b \in DOMAIN anc : anc[b] \subseteq live
       /\ \A a \in live : {b \in DOMAIN anc : a \in anc[b]} = ReachableWithin(a, live) \cap DOMAIN anc
  ELSE DOMAIN anc = {}

\* What holds in every state of the passes and is kept by every step.
IndInv == OrderInv /\ CollectInv /\ PathInv /\ AncestorsInv
=============================================================================
