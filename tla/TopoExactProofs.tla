---------------------------- MODULE TopoExactProofs ----------------------------
(***************************************************************************)
(* For every CFG and target list: the slice is exactly what leads from the *)
(* entry to a target, topo_order raises on exactly the slices with a       *)
(* cycle, and ancestors returns exactly the ancestors.                     *)
(***************************************************************************)
EXTENDS TopoOrderProofs

-----------------------------------------------------------------------------
(* Reachability. *)

\* What a set has to hold to be closed under the edges within S, from b on.
Closed(b, S, T) == \A x \in T \cup {b} : successors(x) \cap S \subseteq T

\* Reachability is the least such set.
LEMMA ReachableLeast ==
  ASSUME NEW S, NEW b
  PROVE  /\ ReachableWithin(b, S) \subseteq S
         /\ \A T \in SUBSET S : Closed(b, S, T) => ReachableWithin(b, S) \subseteq T
         /\ \A c \in S : (\A T \in SUBSET S : Closed(b, S, T) => c \in T) => c \in ReachableWithin(b, S)
<1> DEFINE closed == {T \in SUBSET S : \A x \in T \cup {b} : successors(x) \cap S \subseteq T}
<1>1. ReachableWithin(b, S) = S \ UNION {S \ T : T \in closed}
  BY Zenon DEF ReachableWithin
<1>2. \A T \in SUBSET S : Closed(b, S, T) <=> T \in closed
  BY Zenon DEF Closed
<1> HIDE DEF closed
<1>3. ASSUME NEW c \in S
      PROVE  c \in ReachableWithin(b, S) <=> \A T \in closed : c \in T
  <2>1. c \in UNION {S \ T : T \in closed} <=> \E T \in closed : c \notin T
    OBVIOUS
  <2> QED
    BY <1>1, <2>1
<1>4. ReachableWithin(b, S) \subseteq S
  BY <1>1
<1>5. closed \subseteq SUBSET S
  BY DEF closed
<1> QED
  BY <1>2, <1>3, <1>4, <1>5, Zenon

\* Reachability holds the successors and is closed under them.
LEMMA ReachableClosed ==
  ASSUME NEW S, NEW b
  PROVE  /\ successors(b) \cap S \subseteq ReachableWithin(b, S)
         /\ \A x \in ReachableWithin(b, S) : successors(x) \cap S \subseteq ReachableWithin(b, S)
<1>1. ASSUME NEW x, x \in ReachableWithin(b, S) \/ x = b, NEW y \in successors(x) \cap S
      PROVE  y \in ReachableWithin(b, S)
  <2> SUFFICES ASSUME NEW T \in SUBSET S, Closed(b, S, T) PROVE y \in T
    BY ReachableLeast, Zenon
  <2>1. x \in T \cup {b}
    BY <1>1, ReachableLeast, Zenon
  <2> QED
    BY <2>1, Zenon DEF Closed
<1> QED
  BY <1>1

\* Reachability is transitive.
LEMMA ReachableTransitive ==
  ASSUME NEW S, NEW b, NEW c \in ReachableWithin(b, S)
  PROVE  ReachableWithin(c, S) \subseteq ReachableWithin(b, S)
<1>1. ReachableWithin(b, S) \in SUBSET S
  BY ReachableLeast
<1>2. Closed(c, S, ReachableWithin(b, S))
  BY ReachableClosed, Zenon DEF Closed
<1> QED
  BY <1>1, <1>2, ReachableLeast, Zenon

\* The last edge of a path.
LEMMA ReachableLast ==
  ASSUME NEW S, NEW b, NEW c \in ReachableWithin(b, S)
  PROVE  c \in S /\ \E p \in ReachableWithin(b, S) \cup {b} : c \in successors(p)
<1> DEFINE T == {x \in S : \E p \in ReachableWithin(b, S) \cup {b} : x \in successors(p)}
<1>1. \A x \in T : x \in ReachableWithin(b, S)
  BY ReachableClosed
<1>2. Closed(b, S, T)
  BY <1>1 DEF Closed
<1>3. ReachableWithin(b, S) \subseteq T
  <2>1. T \in SUBSET S
    OBVIOUS
  <2> HIDE DEF T
  <2> QED
    BY <1>2, <2>1, ReachableLeast, Zenon
<1> QED
  BY <1>3

\* It depends on nothing but the graph.
LEMMA ReachableFixed ==
  ASSUME blocks' = blocks
  PROVE  /\ \A b : successors(b)' = successors(b)
         /\ \A b : preds(b)' = preds(b)
         /\ \A b, S : ReachableWithin(b, S)' = ReachableWithin(b, S)
<1>1. \A b : successors(b)' = successors(b)
  BY DEF successors
<1> QED
  BY <1>1, Zenon DEF ReachableWithin, preds

-----------------------------------------------------------------------------
(* The slice. *)

\* The successors of a block are blocks.
LEMMA SuccessorsAreBlocks ==
  ASSUME NEW b
  PROVE  successors(b) \subseteq Block
BY DEF successors

\* What the entry reaches is closed under successors.
LEMMA EntryClosed ==
  /\ fromEntry \subseteq Block /\ 0 \in fromEntry
  /\ \A x \in fromEntry : successors(x) \subseteq fromEntry
<1>1. ReachableWithin(0, Block) \subseteq Block
  BY ReachableLeast
<1>2. /\ successors(0) \cap Block \subseteq ReachableWithin(0, Block)
      /\ \A x \in ReachableWithin(0, Block) : successors(x) \cap Block \subseteq ReachableWithin(0, Block)
  BY ReachableClosed
<1> QED
  BY <1>1, <1>2, SuccessorsAreBlocks, EntryIsBlock DEF fromEntry

\* forward_reachable returns exactly what the entry reaches.
LEMMA ForwardIsExact ==
  ASSUME TypeOK, ReachInv, pc = "reach", work = {}
  PROVE  seen = fromEntry
<1>1. /\ 0 \in seen /\ seen \in SUBSET Block
      /\ \A b \in seen : successors(b) \subseteq seen
      /\ \A T \in SUBSET Block :
           (0 \in T /\ \A b \in T : successors(b) \subseteq T) => seen \subseteq T
  BY DEF ReachInv, TypeOK
<1>2. seen \subseteq fromEntry
  BY <1>1, EntryClosed
<1>3. ReachableWithin(0, Block) \subseteq seen
  <2>1. Closed(0, Block, seen)
    BY <1>1 DEF Closed
  <2> QED
    BY <1>1, <2>1, ReachableLeast, Zenon
<1> QED
  BY <1>1, <1>2, <1>3 DEF fromEntry

\* A predecessor of a block leads wherever the block does.
LEMMA LeadsBack ==
  ASSUME NEW b \in Block, NEW p \in preds(b)
  PROVE  leadsTo(b) \subseteq leadsTo(p)
<1>1. b \in ReachableWithin(p, Block)
  BY ReachableClosed DEF preds
<1>2. ReachableWithin(b, Block) \subseteq ReachableWithin(p, Block)
  BY <1>1, ReachableTransitive
<1> QED
  BY <1>1, <1>2 DEF leadsTo

\* A finished backward walk has collected every live block that leads to one of
\* its blocks.
LEMMA WalkIsComplete ==
  ASSUME NEW L \in SUBSET Block, \A x \in L : successors(x) \subseteq L,
         NEW S \in SUBSET L, \A b \in S : preds(b) \cap L \subseteq S,
         NEW b \in L \ S, NEW t \in S
  PROVE  t \notin leadsTo(b)
<1>1. \A x \in L \ S : successors(x) \subseteq L \ S
  BY DEF preds
<1>2. Closed(b, Block, L \ S)
  BY <1>1 DEF Closed
<1>3. ReachableWithin(b, Block) \subseteq L \ S
  BY <1>2, ReachableLeast
<1> QED
  BY <1>3 DEF leadsTo

\* Nothing the entry reaches leads to a block that it does not reach.
LEMMA LeadsWithin ==
  ASSUME NEW b \in fromEntry
  PROVE  leadsTo(b) \subseteq fromEntry
<1>1. Closed(b, Block, fromEntry)
  BY EntryClosed DEF Closed
<1> QED
  BY <1>1, EntryClosed, ReachableLeast DEF leadsTo

\* What does not depend on the graph's use.
LEMMA LeadsFixed ==
  ASSUME blocks' = blocks
  PROVE  fromEntry' = fromEntry /\ \A b : leadsTo(b)' = leadsTo(b)
BY ReachableFixed DEF fromEntry, leadsTo

\* What a finished walk tells of the targets taken so far.
LEMMA WalkedTargets ==
  ASSUME TypeOK, SliceInv, CollectInv, pc = "slice", work = {}, NEW t \in targets \ pending,
         NEW b \in live \ (keep \cup seen)
  PROVE  t \notin leadsTo(b)
<1>1. live = fromEntry /\ b \in fromEntry
  BY DEF CollectInv
<1>2. CASE t \in live => t \in seen
  <2>1. CASE t \in live
    <3>1. live \in SUBSET Block /\ seen \in SUBSET live /\ (\A x \in seen : preds(x) \cap live \subseteq seen)
      BY DEF SliceInv, TypeOK
    <3>2. \A x \in live : successors(x) \subseteq live
      BY <1>1, EntryClosed
    <3>3. t \in seen /\ b \in live \ seen
      BY <1>2, <2>1
    <3> QED
      BY <3>1, <3>2, <3>3, WalkIsComplete
  <2>2. CASE t \notin live
    BY <1>1, <2>2, LeadsWithin
  <2> QED
    BY <2>1, <2>2
<1>3. CASE \A x \in live \ keep : t \notin leadsTo(x)
  BY <1>3
<1> QED
  BY <1>2, <1>3 DEF CollectInv

\* forward_reachable's return starts the collection.
LEMMA CollectStarts ==
  ASSUME OrderInv, ForwardReachableReturn
  PROVE  CollectInv' /\ SliceExact'
<1>1. /\ TypeOK /\ ReachInv /\ pc = "reach" /\ work = {} /\ blocks' = blocks /\ targets' = targets
      /\ work' = {} /\ seen' = {} /\ live' = seen
  BY DEF OrderInv, ForwardReachableReturn, graphVars, StartTopo
<1>2. live' = fromEntry /\ fromEntry' = fromEntry /\ \A b : leadsTo(b)' = leadsTo(b)
  BY <1>1, ForwardIsExact, LeadsFixed
<1>3. CASE targets = None
  <2>1. pc' = "topo"
    BY <1>3 DEF ForwardReachableReturn, StartTopo
  <2> QED
    BY <1>1, <1>2, <1>3, <2>1 DEF CollectInv, SliceExact
<1>4. CASE targets # None
  <2>1. pc' = "slice" /\ keep' = {0} /\ pending' = targets
    BY <1>4 DEF ForwardReachableReturn
  <2> QED
    BY <1>1, <1>2, <1>4, <2>1 DEF CollectInv, SliceExact
<1> QED
  BY <1>3, <1>4

\* _block_slice's next target.
LEMMA NextTargetCollects ==
  ASSUME OrderInv, CollectInv, NEW t \in pending, NextTarget(t)
  PROVE  CollectInv'
<1>1. /\ TypeOK /\ SliceInv /\ pc = "slice" /\ work = {} /\ pc' = "slice"
      /\ blocks' = blocks /\ targets' = targets /\ live' = live
      /\ pending' = pending \ {t} /\ keep' = keep \cup seen /\ seen' = {} /\ work' = {t} \cap live
  BY DEF OrderInv, NextTarget, graphVars
<1>2. fromEntry' = fromEntry /\ \A b : leadsTo(b)' = leadsTo(b)
  BY <1>1, LeadsFixed
<1>3. /\ targets # None /\ pending \subseteq targets /\ live = fromEntry
      /\ \A b \in (keep \ {0}) \cup seen \cup work : leadsTo(b) \cap targets # {}
  BY <1>1 DEF CollectInv
<1>4. ASSUME NEW b \in (keep' \ {0}) \cup seen' \cup work'
      PROVE  leadsTo(b) \cap targets # {}
  <2>1. CASE b = t
    BY <1>3, <2>1 DEF leadsTo
  <2> QED
    BY <1>1, <1>3, <2>1
<1>5. ASSUME NEW s \in targets \ pending'
      PROVE  \/ s \in live => s \in seen' \cup work'
             \/ \A b \in live \ keep' : s \notin leadsTo(b)
  <2>1. CASE s = t
    BY <1>1, <2>1
  <2>2. CASE s \in targets \ pending
    BY <1>1, <2>2, WalkedTargets
  <2> QED
    BY <1>1, <2>1, <2>2
<1> QED
  BY <1>1, <1>2, <1>3, <1>4, <1>5 DEF CollectInv

\* One iteration of _slice_to.
LEMMA SliceToCollects ==
  ASSUME OrderInv, CollectInv, NEW b \in work, SliceToStep(b)
  PROVE  CollectInv'
<1>1. /\ TypeOK /\ pc = "slice" /\ pc' = "slice"
      /\ blocks' = blocks /\ targets' = targets /\ live' = live
      /\ pending' = pending /\ keep' = keep /\ seen' = seen \cup {b}
      /\ work' = (work \ {b}) \cup (IF b \in seen THEN {} ELSE (preds(b) \cap live) \ (seen \cup {b}))
  BY DEF OrderInv, SliceToStep, graphVars
<1>2. fromEntry' = fromEntry /\ \A x : leadsTo(x)' = leadsTo(x)
  BY <1>1, LeadsFixed
<1>3. /\ targets # None /\ pending \subseteq targets /\ live = fromEntry
      /\ \A x \in (keep \ {0}) \cup seen \cup work : leadsTo(x) \cap targets # {}
      /\ \A t \in targets \ pending :
           \/ t \in live => t \in seen \cup work
           \/ \A x \in live \ keep : t \notin leadsTo(x)
  BY <1>1 DEF CollectInv
<1>4. ASSUME NEW x \in (keep' \ {0}) \cup seen' \cup work'
      PROVE  leadsTo(x) \cap targets # {}
  <2>1. CASE x \in preds(b)
    <3>1. b \in Block
      BY <1>1 DEF TypeOK
    <3> QED
      BY <1>3, <2>1, <3>1, LeadsBack
  <2> QED
    BY <1>1, <1>3, <2>1
<1>5. seen \cup work \subseteq seen' \cup work'
  BY <1>1
<1> QED
  BY <1>1, <1>2, <1>3, <1>4, <1>5 DEF CollectInv

\* _block_slice's result.
LEMMA BlockSliceIsExact ==
  ASSUME OrderInv, CollectInv, BlockSliceReturn
  PROVE  CollectInv' /\ SliceExact'
<1>1. /\ TypeOK /\ SliceInv /\ pc = "slice" /\ work = {} /\ pending = {} /\ pc' = "topo"
      /\ blocks' = blocks /\ targets' = targets /\ live' = keep \cup seen
  BY DEF OrderInv, BlockSliceReturn, StartTopo, graphVars
<1>2. fromEntry' = fromEntry /\ \A b : leadsTo(b)' = leadsTo(b)
  BY <1>1, LeadsFixed
<1>3. /\ targets # None /\ live = fromEntry
      /\ \A b \in (keep \ {0}) \cup seen : leadsTo(b) \cap targets # {}
  BY <1>1 DEF CollectInv
<1>4. 0 \in keep /\ keep \cup seen \subseteq live
  BY <1>1 DEF SliceInv
<1>5. ASSUME NEW b \in fromEntry, leadsTo(b) \cap targets # {}
      PROVE  b \in keep \cup seen
  BY <1>1, <1>3, <1>5, WalkedTargets
<1>6. keep \cup seen = {b \in fromEntry : b = 0 \/ targets = None \/ leadsTo(b) \cap targets # {}}
  BY <1>3, <1>4, <1>5
<1> QED
  BY <1>1, <1>2, <1>6 DEF CollectInv, SliceExact

-----------------------------------------------------------------------------
(* Cycles. *)

\* Popping an entry keeps what is known of those below it.
LEMMA PopKeepsPaths ==
  ASSUME TypeOK, PathInv, pc = "topo", stack # << >>, stack' = Front(stack),
         blocks' = blocks, live' = live
  PROVE  PathInv'
<1>1. /\ Len(stack) \in Nat \ {0} /\ Len(stack') = Len(stack) - 1
      /\ \A i \in 1..Len(stack') : stack'[i] = stack[i]
  BY StackPopped
<1> SUFFICES ASSUME NEW i \in 1..Len(stack'), stack'[i][2] = "leave", NEW j \in (i+1)..Len(stack')
             PROVE  stack'[j][1] \in ReachableWithin(stack'[i][1], live)
  BY ReachableFixed DEF PathInv
<1>2. i \in 1..Len(stack) /\ j \in (i+1)..Len(stack) /\ stack'[i] = stack[i] /\ stack'[j] = stack[j]
  BY <1>1
<1> QED
  BY <1>2 DEF PathInv

\* What topo_order leaves on the stack when it enters a block.
LEMMA ExpandedStack ==
  ASSUME TypeOK, TopoExpand
  PROVE  \E n \in Nat \ {0}, m \in Nat, b \in Block :
           /\ n = Len(stack) /\ m = Len(stack') /\ m >= n
           /\ stack[n] = <<b, "enter">>
           /\ \A i \in 1..(n - 1) : stack'[i] = stack[i]
           /\ stack'[n] = <<b, "leave">>
           /\ \A i \in (n+1)..m : stack'[i][2] = "enter" /\ stack'[i][1] \in successors(b) \cap live
<1>1. PICK n \in Nat \ {0} : n = Len(stack)
  BY StackTop DEF TopoExpand
<1>2. PICK b \in Block : b = Last(stack)[1]
  BY StackTop DEF TopoExpand
<1>3. stack' = PushSuccessors(Append(Front(stack), <<b, "leave">>), b)
  BY <1>2 DEF TopoExpand
<1>4. PICK s : s = Append(Front(stack), <<b, "leave">>)
  OBVIOUS
<1>5. /\ s \in Seq(Entry)
      /\ Len(s) = n
      /\ \A i \in 1..(n - 1) : s[i] = stack[i]
      /\ s[n] = <<b, "leave">>
  <2>1. /\ Front(stack) \in Seq(Entry)
        /\ Len(Front(stack)) = n - 1
        /\ \A i \in 1..(n - 1) : Front(stack)[i] = stack[i]
    BY <1>1, StackTop DEF TopoExpand
  <2>2. <<b, "leave">> \in Entry
    BY DEF Entry
  <2> HIDE DEF Entry
  <2> QED
    BY <1>1, <1>4, <2>1, <2>2
<1>6. SuccessorsPushedOn(s, b, stack')
  BY <1>3, <1>4, <1>5, PushSuccessorsFacts
<1>7. PICK m \in Nat : m = Len(stack') /\ m >= n
  BY <1>1, <1>5, <1>6 DEF SuccessorsPushedOn
<1>8. \A i \in 1..n : stack'[i] = s[i]
  BY <1>5, <1>6 DEF SuccessorsPushedOn
<1>9. \A i \in (n+1)..m : stack'[i][2] = "enter" /\ stack'[i][1] \in successors(b) \cap live
  BY <1>5, <1>6, <1>7 DEF SuccessorsPushedOn
<1>10. /\ \A i \in 1..(n - 1) : stack'[i] = stack[i]
       /\ stack'[n] = <<b, "leave">>
  BY <1>1, <1>5, <1>8
<1>11. stack[n] = <<b, "enter">>
  BY <1>1, <1>2, StackTop DEF TopoExpand, Entry
<1> QED
  BY <1>1, <1>7, <1>9, <1>10, <1>11

\* Entering a block: what leads to it leads to its successors.
LEMMA ExpandKeepsPaths ==
  ASSUME TypeOK, PathInv, TopoExpand
  PROVE  PathInv'
<1>1. pc = "topo" /\ blocks' = blocks /\ live' = live
  BY DEF TopoExpand, graphVars, walkVars
<1>2. PICK n \in Nat \ {0}, m \in Nat, b \in Block :
        /\ n = Len(stack) /\ m = Len(stack') /\ m >= n
        /\ stack[n] = <<b, "enter">>
        /\ \A i \in 1..(n - 1) : stack'[i] = stack[i]
        /\ stack'[n] = <<b, "leave">>
        /\ \A i \in (n+1)..m : stack'[i][2] = "enter" /\ stack'[i][1] \in successors(b) \cap live
  BY ExpandedStack
<1> SUFFICES ASSUME NEW i \in 1..m, stack'[i][2] = "leave", NEW j \in (i+1)..m
             PROVE  stack'[j][1] \in ReachableWithin(stack'[i][1], live)
  BY <1>1, <1>2, ReachableFixed DEF PathInv
<1>3. CASE i = n
  <2>1. stack'[i][1] = b /\ stack'[j][1] \in successors(b) \cap live
    BY <1>2, <1>3
  <2> QED
    BY <2>1, ReachableClosed
<1>4. CASE i \in 1..(n - 1)
  <2>1. stack[i][2] = "leave" /\ stack'[i] = stack[i]
    BY <1>2, <1>4
  <2>2. PICK g : g = stack[i][1]
    OBVIOUS
  <2>3. \A k \in (i+1)..n : stack[k][1] \in ReachableWithin(g, live)
    <3>1. i \in 1..Len(stack)
      BY <1>2, <1>4
    <3>2. {stack[k][1] : k \in (i+1)..Len(stack)} \subseteq ReachableWithin(g, live)
      BY <1>1, <2>1, <2>2, <3>1 DEF PathInv
    <3> QED
      BY <1>2, <3>2
  <2>4. b \in ReachableWithin(g, live)
    <3>1. n \in (i+1)..n /\ stack[n][1] = b
      BY <1>2, <1>4
    <3> QED
      BY <2>3, <3>1
  <2>5. stack'[j][1] \in ReachableWithin(g, live)
    <3>1. CASE j \in (i+1)..(n - 1)
      BY <1>2, <1>4, <2>3, <3>1
    <3>2. CASE j = n
      BY <1>2, <2>4, <3>2
    <3>3. CASE j \in (n+1)..m
      BY <1>2, <2>4, <3>3, ReachableClosed
    <3> QED
      BY <1>2, <1>4, <3>1, <3>2, <3>3
  <2> QED
    BY <2>1, <2>2, <2>5
<1>5. i = n \/ i \in 1..(n - 1)
  BY <1>2
<1> QED
  BY <1>3, <1>4, <1>5

\* An edge to a gray block closes a cycle.
LEMMA CycleIsReal ==
  ASSUME TypeOK, DfsInv, PathInv, TopoCycle
  PROVE  \E b \in live : b \in ReachableWithin(b, live)
<1>1. pc = "topo" /\ stack # << >> /\ GrayInv
  BY DEF TopoCycle, DfsInv
<1>2. PICK n \in Nat \ {0} : n = Len(stack)
  BY <1>1, StackTop
<1>3. PICK b \in Block : b = Last(stack)[1]
  BY <1>1, StackTop
<1>4. stack[n] = <<b, "enter">> /\ b \in live
  BY <1>1, <1>2, <1>3, StackTop DEF TopoCycle, Entry, GrayInv
<1>5. PICK u \in successors(b) \cap live : u = b \/ color[u] = 1
  BY <1>3 DEF TopoCycle, GraySuccessors
<1>6. u \in ReachableWithin(b, live)
  BY ReachableClosed
<1>7. CASE u = b
  BY <1>4, <1>6, <1>7
<1>8. CASE color[u] = 1
  <2>1. u \in Block
    BY DEF TypeOK
  <2>2. PICK i \in 1..n : stack[i] = <<u, "leave">>
    BY <1>1, <1>2, <1>8, <2>1 DEF GrayInv
  <2>3. i # n
    BY <1>4, <2>2
  <2>4. n \in (i+1)..n /\ stack[i][2] = "leave" /\ stack[i][1] = u /\ stack[n][1] = b
    BY <1>4, <2>2, <2>3
  <2>5. b \in ReachableWithin(u, live)
    BY <1>1, <1>2, <2>4 DEF PathInv
  <2> QED
    BY <1>4, <1>6, <2>5, ReachableTransitive
<1> QED
  BY <1>5, <1>7, <1>8

\* A sorted slice has no cycle: from a block only later ones are reached.
LEMMA SortedReach ==
  ASSUME TypeOK, Sorted, TopologicalOrder, NEW i \in 1..Len(order), NEW c \in ReachableWithin(order[i], live)
  PROVE  \E j \in (i+1)..Len(order) : order[j] = c
<1>1. Len(order) \in Nat /\ {order[k] : k \in 1..Len(order)} = live
  BY DEF TypeOK, TopologicalOrder
<1> DEFINE T == {order[j] : j \in (i+1)..Len(order)}
<1>2. T \subseteq live
  BY <1>1
<1>3. ASSUME NEW k \in i..Len(order), NEW u \in successors(order[k]) \cap live
      PROVE  u \in T
  <2>1. PICK j \in 1..Len(order) : order[j] = u
    BY <1>1
  <2>2. k \in 1..Len(order)
    BY <1>1
  <2>3. k < j
    BY <2>1, <2>2 DEF TopologicalOrder
  <2> QED
    BY <1>1, <2>1, <2>2, <2>3
<1>4. Closed(order[i], live, T)
  <2> SUFFICES ASSUME NEW x \in T \cup {order[i]}, NEW u \in successors(x) \cap live
               PROVE  u \in T
    BY DEF Closed
  <2>1. PICK k \in i..Len(order) : x = order[k]
    BY <1>1
  <2> QED
    BY <1>3, <2>1
<1>5. ReachableWithin(order[i], live) \subseteq T
  <2> HIDE DEF T
  <2> QED
    BY <1>2, <1>4, ReachableLeast, Zenon
<1> QED
  BY <1>5

\* In particular no block reaches itself.
LEMMA SortedHasNoCycle == TypeOK /\ Sorted /\ TopologicalOrder => CycleExact
<1> SUFFICES ASSUME TypeOK, Sorted, TopologicalOrder, NEW b \in live, b \in ReachableWithin(b, live)
             PROVE  FALSE
  BY DEF CycleExact, Sorted
<1>1. Len(order) \in Nat
  BY DEF TypeOK
<1>2. PICK i \in 1..Len(order) : order[i] = b
  BY DEF TopologicalOrder
<1>3. PICK j \in (i+1)..Len(order) : order[j] = b
  BY <1>2, SortedReach
<1> QED
  BY <1>1, <1>2, <1>3 DEF TopologicalOrder

-----------------------------------------------------------------------------
(* Ancestors. *)

\* One iteration of ancestors: the live predecessors of the next block have been
\* done, and what reaches it reaches it through one of them.
LEMMA AncestorsStepIsExact ==
  ASSUME TypeOK, TopologicalOrder, AncestorsInv, AncestorsStep
  PROVE  AncestorsInv'
<1>1. /\ pc = "anc" /\ pc' = "anc" /\ Sorted /\ Sorted'
      /\ blocks' = blocks /\ live' = live /\ order' = order
  BY DEF AncestorsStep, graphVars, walkVars, topoVars, Sorted
<1>2. PICK k : k = Cardinality(DOMAIN anc)
  OBVIOUS
<1>3. PICK D : D = DOMAIN anc
  OBVIOUS
<1>4. PICK l \in Nat : l = Len(order)
  BY DEF TypeOK
<1>5. /\ k \in 0..l /\ k < l /\ D = {order[i] : i \in 1..k}
      /\ \A b \in D : anc[b] \subseteq live
      /\ \A a \in live : {b \in D : a \in anc[b]} = ReachableWithin(a, live) \cap D
  BY <1>1, <1>2, <1>3, <1>4 DEF AncestorsInv, AncestorsStep
<1>6. /\ {order[i] : i \in 1..l} = live
      /\ \A i, j \in 1..l : order[i] = order[j] => i = j
      /\ \A i, j \in 1..l : order[j] \in successors(order[i]) => i < j
  BY <1>1, <1>4 DEF TopologicalOrder
<1>7. PICK b : b = order[k + 1]
  OBVIOUS
<1>8. k + 1 \in 1..l /\ b \in live /\ D \subseteq live /\ b \notin D /\ live \subseteq Block
  <2>1. k + 1 \in 1..l /\ \A i \in 1..k : i \in 1..l /\ i # k + 1
    BY <1>5
  <2> QED
    BY <1>5, <1>6, <1>7, <2>1 DEF TypeOK
<1>9. ASSUME NEW p \in live, b \in successors(p) PROVE p \in D
  <2>1. PICK i \in 1..l : p = order[i]
    BY <1>6
  <2>2. i < k + 1
    BY <1>6, <1>7, <1>8, <1>9, <2>1
  <2>3. i \in 1..k
    BY <1>5, <2>2
  <2> QED
    BY <1>5, <2>1, <2>3
<1> DEFINE ps == {p \in preds(b) : p \in D}
           s == ps \cup UNION {anc[p] : p \in ps}
<1>10. anc' = [x \in D \cup {b} |-> IF x = b THEN s ELSE anc[x]]
  BY <1>2, <1>3, <1>7, Zenon DEF AncestorsStep
<1>11. s \subseteq live
  BY <1>5, <1>8
<1>12. ASSUME NEW a \in live
       PROVE  a \in s <=> b \in ReachableWithin(a, live)
  <2>1. ASSUME b \in ReachableWithin(a, live) PROVE a \in s
    <3>1. PICK p \in ReachableWithin(a, live) \cup {a} : b \in successors(p)
      BY <2>1, ReachableLast
    <3>2. p \in live
      BY ReachableLeast
    <3>3. p \in ps
      BY <1>8, <1>9, <3>1, <3>2 DEF preds
    <3>4. p = a \/ a \in anc[p]
      BY <1>5, <3>1, <3>3
    <3> QED
      BY <3>3, <3>4
  <2>2. ASSUME a \in s PROVE b \in ReachableWithin(a, live)
    <3>1. CASE a \in ps
      BY <1>8, <3>1, ReachableClosed DEF preds
    <3>2. CASE a \in UNION {anc[p] : p \in ps}
      <4>1. PICK p \in ps : a \in anc[p]
        BY <3>2
      <4>2. p \in ReachableWithin(a, live) /\ b \in successors(p)
        BY <1>5, <4>1 DEF preds
      <4> QED
        BY <1>8, <4>2, ReachableClosed
    <3> QED
      BY <2>2, <3>1, <3>2
  <2> QED
    BY <2>1, <2>2
<1> HIDE DEF s
<1>13. PICK E : E = D \cup {b}
  OBVIOUS
<1>14. /\ DOMAIN anc' = E /\ anc'[b] = s
       /\ \A x \in D : anc'[x] = anc[x]
  BY <1>8, <1>10, <1>13
<1>15. Cardinality(E) = k + 1
  <2>1. IsFiniteSet(Block)
    <3>1. 0 \in Int /\ N - 1 \in Int
      BY NAssumption
    <3> QED
      BY <3>1, FS_Interval DEF Block
  <2>2. IsFiniteSet(D)
    BY <1>8, <2>1, FS_Subset
  <2> QED
    BY <1>2, <1>3, <1>8, <1>13, <2>2, FS_AddElement
<1>16. E = {order[i] : i \in 1..(k + 1)}
  BY <1>5, <1>7, <1>13
<1>17. \A x \in E : anc'[x] \subseteq live
  BY <1>5, <1>11, <1>13, <1>14
<1>18. ASSUME NEW a \in live
       PROVE  {x \in E : a \in anc'[x]} = ReachableWithin(a, live) \cap E
  <2>1. ASSUME NEW x \in E PROVE a \in anc'[x] <=> x \in ReachableWithin(a, live)
    BY <1>5, <1>12, <1>13, <1>14
  <2> QED
    BY <2>1
<1>19. k + 1 \in 0..l
  BY <1>5
<1> QED
  BY <1>1, <1>4, <1>14, <1>15, <1>16, <1>17, <1>18, <1>19, ReachableFixed DEF AncestorsInv

\* When ancestors returns, it has done all live blocks.
LEMMA AncestorsComplete ==
  ASSUME TypeOK, TopologicalOrder, AncestorsInv, Sorted, Cardinality(DOMAIN anc) = Len(order)
  PROVE  /\ DOMAIN anc = live
         /\ \A b \in live : anc[b] \subseteq live
         /\ \A a \in live : {b \in live : a \in anc[b]} = ReachableWithin(a, live)
<1>1. DOMAIN anc = live
  BY DEF AncestorsInv, TopologicalOrder
<1>2. \A a \in live : ReachableWithin(a, live) \subseteq live
  BY ReachableLeast
<1> QED
  BY <1>1, <1>2 DEF AncestorsInv

-----------------------------------------------------------------------------
(* The theorems. *)

\* All that the passes keep.
ExactInv == IndInv /\ SliceExact /\ CycleExact /\ AncestorsExact

\* The passes start in the invariant.
LEMMA ExactInit == Init => ExactInv
<1> SUFFICES ASSUME Init PROVE ExactInv
  OBVIOUS
<1>1. OrderInv
  BY OrderInit
<1>2. pc = "reach" /\ DOMAIN anc = {}
  BY DEF Init
<1> QED
  BY <1>1, <1>2 DEF ExactInv, IndInv, CollectInv, PathInv, AncestorsInv, SliceExact, CycleExact,
                    AncestorsExact, Sorted

\* A step before topo_order returns, other than one that finds a cycle, has only
\* the slice and the stack to keep.
LEMMA Unsorted ==
  ASSUME ExactInv, OrderInv', pc \in {"reach", "slice", "topo"}, pc' \in {"reach", "slice", "topo"},
         anc' = anc, CollectInv', SliceExact', PathInv'
  PROVE  ExactInv'
<1>1. DOMAIN anc' = {}
  BY DEF ExactInv, IndInv, AncestorsInv, Sorted
<1> QED
  BY <1>1 DEF ExactInv, IndInv, AncestorsInv, CycleExact, AncestorsExact, Sorted

\* A step of topo_order that leaves the slice alone.
LEMMA SliceKept ==
  ASSUME SliceExact, pc = "topo", blocks' = blocks, targets' = targets, live' = live
  PROVE  SliceExact'
BY LeadsFixed DEF SliceExact

\* topo_order starts with one entry.
LEMMA PathsStart ==
  ASSUME NEW l, StartTopo(l)
  PROVE  PathInv'
<1>1. stack' = <<<<0, "enter">>>>
  BY DEF StartTopo
<1>2. Len(stack') = 1 /\ stack'[1] = <<0, "enter">>
  BY <1>1
<1> QED
  BY <1>2 DEF PathInv

\* Every step of the passes keeps the invariant.
LEMMA ExactStep == ExactInv /\ [Next]_vars => ExactInv'
<1> SUFFICES ASSUME ExactInv, [Next]_vars PROVE ExactInv'
  OBVIOUS
<1>1. OrderInv'
  BY OrderStep DEF ExactInv, IndInv
<1>2. /\ OrderInv /\ TypeOK /\ DfsInv /\ TopologicalOrder /\ CollectInv /\ PathInv /\ AncestorsInv
      /\ SliceExact /\ CycleExact /\ AncestorsExact /\ TypeOK' /\ TopologicalOrder'
  BY <1>1 DEF ExactInv, IndInv, OrderInv
<1>3. ASSUME NEW b \in work, ForwardReachableStep(b) PROVE ExactInv'
  <2>1. pc = "reach" /\ pc' = "reach" /\ anc' = anc
    BY <1>3 DEF ForwardReachableStep
  <2>2. CollectInv' /\ SliceExact' /\ PathInv'
    BY <2>1 DEF CollectInv, SliceExact, PathInv
  <2> QED
    BY <1>1, <2>1, <2>2, Unsorted
<1>4. CASE ForwardReachableReturn
  <2>1. pc = "reach" /\ pc' \in {"slice", "topo"} /\ anc' = anc
    BY <1>4 DEF ForwardReachableReturn, StartTopo
  <2>2. PathInv'
    BY <1>4, PathsStart DEF ForwardReachableReturn, PathInv
  <2> QED
    BY <1>1, <1>2, <1>4, <2>1, <2>2, CollectStarts, Unsorted
<1>5. ASSUME NEW t \in pending, NextTarget(t) PROVE ExactInv'
  <2>1. pc = "slice" /\ pc' = "slice" /\ anc' = anc
    BY <1>5 DEF NextTarget
  <2>2. SliceExact' /\ PathInv'
    BY <2>1 DEF SliceExact, PathInv
  <2> QED
    BY <1>1, <1>2, <1>5, <2>1, <2>2, NextTargetCollects, Unsorted
<1>6. ASSUME NEW b \in work, SliceToStep(b) PROVE ExactInv'
  <2>1. pc = "slice" /\ pc' = "slice" /\ anc' = anc
    BY <1>6 DEF SliceToStep
  <2>2. SliceExact' /\ PathInv'
    BY <2>1 DEF SliceExact, PathInv
  <2> QED
    BY <1>1, <1>2, <1>6, <2>1, <2>2, SliceToCollects, Unsorted
<1>7. CASE BlockSliceReturn
  <2>1. pc = "slice" /\ pc' = "topo" /\ anc' = anc
    BY <1>7 DEF BlockSliceReturn, StartTopo
  <2>2. PathInv'
    BY <1>7, PathsStart DEF BlockSliceReturn
  <2> QED
    BY <1>1, <1>2, <1>7, <2>1, <2>2, BlockSliceIsExact, Unsorted
<1>8. ASSUME pc = "topo", pc' = "topo", blocks' = blocks, targets' = targets, live' = live,
             anc' = anc, PathInv'
      PROVE  ExactInv'
  <2>1. CollectInv'
    BY <1>8 DEF CollectInv
  <2> QED
    BY <1>1, <1>2, <1>8, <2>1, SliceKept, Unsorted
<1>9. CASE TopoFinish
  <2>1. pc = "topo" /\ pc' = "topo" /\ stack # << >> /\ stack' = Front(stack)
        /\ blocks' = blocks /\ targets' = targets /\ live' = live /\ anc' = anc
    BY <1>9 DEF TopoFinish, graphVars, walkVars
  <2> QED
    BY <1>2, <1>8, <2>1, PopKeepsPaths
<1>10. CASE TopoSkip
  <2>1. pc = "topo" /\ pc' = "topo" /\ stack # << >> /\ stack' = Front(stack)
        /\ blocks' = blocks /\ targets' = targets /\ live' = live /\ anc' = anc
    BY <1>10 DEF TopoSkip, graphVars, walkVars
  <2> QED
    BY <1>2, <1>8, <2>1, PopKeepsPaths
<1>11. CASE TopoExpand
  <2>1. pc = "topo" /\ pc' = "topo"
        /\ blocks' = blocks /\ targets' = targets /\ live' = live /\ anc' = anc
    BY <1>11 DEF TopoExpand, graphVars, walkVars
  <2> QED
    BY <1>2, <1>8, <1>11, <2>1, ExpandKeepsPaths
<1>12. CASE TopoCycle
  <2>1. pc = "topo" /\ pc' = "cycle" /\ blocks' = blocks /\ live' = live /\ anc' = anc
    BY <1>12 DEF TopoCycle, graphVars, walkVars
  <2>2. \E b \in live : b \in ReachableWithin(b, live)
    BY <1>2, <1>12, CycleIsReal
  <2>3. CycleExact'
    BY <2>1, <2>2, ReachableFixed DEF CycleExact, Sorted
  <2>4. DOMAIN anc' = {}
    BY <1>2, <2>1 DEF AncestorsInv, Sorted
  <2> QED
    BY <1>1, <2>1, <2>3, <2>4
    DEF ExactInv, IndInv, CollectInv, PathInv, SliceExact, AncestorsInv, AncestorsExact, Sorted
<1>13. ASSUME pc' \in {"anc", "done"}, blocks' = blocks, live' = live, AncestorsInv', AncestorsExact'
       PROVE  ExactInv'
  <2>1. Sorted'
    BY <1>13 DEF Sorted
  <2>2. CycleExact'
    BY <1>2, <2>1, SortedHasNoCycle, PTL
  <2> QED
    BY <1>1, <1>13, <2>1, <2>2 DEF ExactInv, IndInv, CollectInv, PathInv, SliceExact
<1>14. CASE TopoReturn
  <2>1. pc = "topo" /\ pc' = "anc" /\ blocks' = blocks /\ live' = live /\ anc' = anc
    BY <1>1, <1>14 DEF TopoReturn, graphVars, walkVars, OrderInv, SortCoversLive
  <2>2. DOMAIN anc' = {}
    BY <1>2, <2>1 DEF AncestorsInv, Sorted
  <2>3. Len(order') \in Nat
    BY <1>2 DEF TypeOK
  <2>4. AncestorsInv'
    BY <2>1, <2>2, <2>3, FS_EmptySet DEF AncestorsInv, Sorted
  <2> QED
    BY <1>13, <2>1, <2>4 DEF AncestorsExact
<1>15. CASE AncestorsStep
  <2>1. pc' = "anc" /\ blocks' = blocks /\ live' = live
    BY <1>15 DEF AncestorsStep, graphVars, walkVars
  <2> QED
    BY <1>2, <1>13, <1>15, <2>1, AncestorsStepIsExact DEF AncestorsExact
<1>16. CASE AncestorsReturn
  <2>1. /\ pc = "anc" /\ pc' = "done" /\ blocks' = blocks /\ live' = live /\ order' = order /\ anc' = anc
        /\ Sorted /\ Sorted' /\ Cardinality(DOMAIN anc) = Len(order)
    BY <1>16 DEF AncestorsReturn, graphVars, walkVars, topoVars, Sorted
  <2>2. AncestorsInv'
    BY <1>2, <2>1, ReachableFixed DEF AncestorsInv
  <2>3. AncestorsExact'
    BY <1>2, <2>1, AncestorsComplete, ReachableFixed DEF AncestorsExact
  <2> QED
    BY <1>13, <2>1, <2>2, <2>3
<1>17. CASE UNCHANGED vars
  <2>1. /\ blocks' = blocks /\ targets' = targets /\ pc' = pc /\ pending' = pending /\ work' = work
        /\ seen' = seen /\ keep' = keep /\ live' = live /\ stack' = stack /\ order' = order /\ anc' = anc
    BY <1>17 DEF vars
  <2>2. CollectInv' /\ SliceExact'
    BY <1>2, <2>1, LeadsFixed DEF CollectInv, SliceExact
  <2>3. PathInv' /\ CycleExact'
    BY <1>2, <2>1, ReachableFixed DEF PathInv, CycleExact, Sorted
  <2>4. AncestorsInv' /\ AncestorsExact'
    BY <1>2, <2>1, ReachableFixed DEF AncestorsInv, AncestorsExact, Sorted
  <2> QED
    BY <1>1, <2>2, <2>3, <2>4 DEF ExactInv, IndInv
<1> QED
  BY <1>3, <1>4, <1>5, <1>6, <1>7, <1>9, <1>10, <1>11, <1>12, <1>14, <1>15, <1>16, <1>17
  DEF Next, Ended

\* What holds in every state of the passes, on every CFG and for all targets.
THEOREM ExactInvariant == Spec => []ExactInv
BY ExactInit, ExactStep, PTL DEF Spec

\* The inductive invariant the run checks holds in every state.
THEOREM InductiveInvariant == Spec => []IndInv
<1>1. ExactInv => IndInv
  BY DEF ExactInv
<1> QED
  BY <1>1, ExactInvariant, PTL

\* Whatever the CFG and the targets, the slice topo_order is given is block 0 and
\* exactly the blocks on a path from it to a target.
THEOREM SliceIsExact == Spec => []SliceExact
<1>1. ExactInv => SliceExact
  BY DEF ExactInv
<1> QED
  BY <1>1, ExactInvariant, PTL

\* Whatever the CFG and the targets, topo_order raises "cycle detected" only on a
\* slice with a cycle, and sorts only one without.
THEOREM CyclesAreExact == Spec => []CycleExact
<1>1. ExactInv => CycleExact
  BY DEF ExactInv
<1> QED
  BY <1>1, ExactInvariant, PTL

\* Whatever the CFG and the targets, ancestors returns for each live block exactly
\* the live blocks that reach it.
THEOREM AncestorsAreExact == Spec => []AncestorsExact
<1>1. ExactInv => AncestorsExact
  BY DEF ExactInv
<1> QED
  BY <1>1, ExactInvariant, PTL
=============================================================================
