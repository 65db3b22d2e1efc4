---------------------------- MODULE TopoOrderProofs ----------------------------
(***************************************************************************)
(* For every CFG and every target list: topo_order returns a topological   *)
(* order of the whole slice, and its coverage error cannot happen.         *)
(***************************************************************************)
EXTENDS TopoOrder, FiniteSetTheorems, SequenceTheorems, TLAPS

-----------------------------------------------------------------------------
(* Sequences. *)

\* Python's stack.pop(): what is left below the popped entry.
LEMMA PopProperties ==
  ASSUME NEW S, NEW s \in Seq(S), s # << >>
  PROVE  /\ Len(s) \in Nat \ {0}
         /\ Last(s) = s[Len(s)]
         /\ Last(s) \in S
         /\ Front(s) \in Seq(S)
         /\ Len(Front(s)) = Len(s) - 1
         /\ \A i \in 1..(Len(s) - 1) : Front(s)[i] = s[i]
<1>1. Len(s) \in Nat \ {0}
  BY EmptySeq
<1>2. \A i \in 1..Len(s) : s[i] \in S
  OBVIOUS
<1>3. /\ SubSeq(s, 1, Len(s) - 1) \in Seq(S)
      /\ Len(SubSeq(s, 1, Len(s) - 1)) = Len(s) - 1
      /\ \A i \in 1..(Len(s) - 1) : SubSeq(s, 1, Len(s) - 1)[i] = s[i]
  <2>1. PICK m \in Nat : m = Len(s) - 1
    BY <1>1
  <2>2. \A i \in 1..m : s[i] \in S
    BY <1>2, <2>1
  <2>3. /\ SubSeq(s, 1, m) \in Seq(S)
        /\ Len(SubSeq(s, 1, m)) = IF 1 <= m THEN m - 1 + 1 ELSE 0
        /\ \A i \in 1..(m - 1 + 1) : SubSeq(s, 1, m)[i] = s[1 + i - 1]
    BY <2>2, SubSeqProperties, 1 \in Int, m \in Int
  <2>4. /\ SubSeq(s, 1, m) \in Seq(S)
        /\ Len(SubSeq(s, 1, m)) = m
        /\ \A i \in 1..m : SubSeq(s, 1, m)[i] = s[i]
    BY <2>3
  <2> QED
    BY <2>1, <2>4, Zenon
<1> QED
  BY <1>1, <1>2, <1>3 DEF Last, Front

\* Python's stack.append().
LEMMA AppendFacts ==
  ASSUME NEW S, NEW s \in Seq(S), NEW e \in S
  PROVE  /\ Append(s, e) \in Seq(S)
         /\ Len(Append(s, e)) = Len(s) + 1
         /\ \A i \in 1..Len(s) : Append(s, e)[i] = s[i]
         /\ Append(s, e)[Len(s) + 1] = e
OBVIOUS

\* Python's order.reverse().
LEMMA ReverseFacts ==
  ASSUME NEW S, NEW s \in Seq(S)
  PROVE  /\ Reverse(s) \in Seq(S)
         /\ Len(Reverse(s)) = Len(s)
         /\ \A i \in 1..Len(s) : Reverse(s)[i] = s[(Len(s) - i) + 1]
BY DEF Reverse

\* A sequence without repetitions is as long as the set of its elements is large.
LEMMA InjectiveLength ==
  ASSUME NEW S, NEW s \in Seq(S),
         \A i, j \in 1..Len(s) : s[i] = s[j] => i = j
  PROVE  Cardinality({s[i] : i \in 1..Len(s)}) = Len(s)
<1> DEFINE R == {s[i] : i \in 1..Len(s)}
<1>1. Len(s) \in Nat
  OBVIOUS
<1>2. s \in Bijection(1..Len(s), R)
  <2>1. s \in [1..Len(s) -> R]
    OBVIOUS
  <2>2. \A y \in R : \E i \in 1..Len(s) : s[i] = y
    OBVIOUS
  <2> QED
    BY <2>1, <2>2 DEF Bijection, Injection, Surjection, IsInjective
<1>3. ExistsBijection(1..Len(s), R)
  BY <1>2 DEF ExistsBijection
<1> QED
  BY <1>1, <1>3, FS_CountingElements

-----------------------------------------------------------------------------
(* What TopoExpand's pushes leave on the stack. *)

\* r is s with at most one entry, that of the live block u, on top of it.
PushedOn(s, u, r) ==
  /\ r \in Seq(Entry)
  /\ Len(r) >= Len(s)
  /\ \A i \in 1..Len(s) : r[i] = s[i]
  /\ \A i \in (Len(s)+1)..Len(r) : r[i] = <<u, "enter">> /\ u \in live
  /\ u \in live /\ color[u] # 2 => Len(r) = Len(s) + 1

\* A push keeps what is below and adds only the successor, to be entered.
LEMMA PushUnlessBlackFacts ==
  ASSUME TypeOK, NEW s \in Seq(Entry), NEW u \in Block \cup {None},
         NEW r, r = PushUnlessBlack(s, u)
  PROVE  PushedOn(s, u, r)
<1>1. CASE u \in live /\ color[u] # 2
  <2>1. <<u, "enter">> \in Entry
    BY <1>1 DEF TypeOK, Entry
  <2>2. r = Append(s, <<u, "enter">>)
    BY <1>1 DEF PushUnlessBlack
  <2>3. /\ r \in Seq(Entry)
        /\ Len(r) = Len(s) + 1
        /\ \A i \in 1..Len(s) : r[i] = s[i]
        /\ r[Len(s) + 1] = <<u, "enter">>
    BY <2>1, <2>2
  <2>4. Len(s) \in Nat
    OBVIOUS
  <2> QED
    BY <1>1, <2>3, <2>4 DEF PushedOn
<1>2. CASE ~(u \in live /\ color[u] # 2)
  <2>1. r = s
    BY <1>2 DEF PushUnlessBlack
  <2>2. Len(s) \in Nat
    OBVIOUS
  <2> QED
    BY <1>2, <2>1, <2>2 DEF PushedOn
<1> QED
  BY <1>1, <1>2

\* r is s with live successors of b on top, those that are not black among them.
SuccessorsPushedOn(s, b, r) ==
  /\ r \in Seq(Entry)
  /\ Len(r) >= Len(s)
  /\ \A i \in 1..Len(s) : r[i] = s[i]
  /\ \A i \in (Len(s)+1)..Len(r) :
       r[i][2] = "enter" /\ r[i][1] \in successors(b) \cap live
  /\ \A u \in successors(b) \cap live : color[u] # 2 =>
       \E i \in (Len(s)+1)..Len(r) : r[i] = <<u, "enter">>

\* The loop over the successors keeps what is below, adds only live successors
\* and adds every live successor that is not black.
LEMMA PushSuccessorsFacts ==
  ASSUME TypeOK, NEW s \in Seq(Entry), NEW b \in Block,
         NEW r, r = PushSuccessors(s, b)
  PROVE  SuccessorsPushedOn(s, b, r)
<1>t. PICK t : t = blocks.t[b]
  OBVIOUS
<1>f. PICK f : f = blocks.f[b]
  OBVIOUS
<1>p. PICK p : p = PushUnlessBlack(s, t)
  OBVIOUS
<1>q. PICK q : q = PushUnlessBlack(p, f)
  OBVIOUS
<1>1. t \in Block \cup {None} /\ f \in Block \cup {None}
  BY <1>t, <1>f DEF TypeOK, Graph
<1>2. successors(b) = {u \in Block : u = t \/ u = f}
  BY <1>t, <1>f DEF successors
<1>3. live \subseteq Block
  BY DEF TypeOK
<1>4. PushedOn(s, t, p)
  BY <1>1, <1>p, PushUnlessBlackFacts
<1>5. PushedOn(p, f, q)
  <2>1. p \in Seq(Entry)
    BY <1>4 DEF PushedOn
  <2> QED
    BY <1>1, <1>q, <2>1, PushUnlessBlackFacts
<1>6. Len(s) \in Nat /\ Len(p) \in Nat /\ Len(q) \in Nat
  BY <1>4, <1>5 DEF PushedOn
<1>7. CASE f = t
  <2>1. r = p
    BY <1>7, <1>t, <1>f, <1>p DEF PushSuccessors
  <2> QED
    BY <1>2, <1>3, <1>4, <1>6, <1>7, <2>1 DEF PushedOn, SuccessorsPushedOn
<1>8. CASE f # t
  <2>1. r = q
    BY <1>8, <1>t, <1>f, <1>p, <1>q DEF PushSuccessors
  <2>2. \A i \in (Len(s)+1)..Len(q) : q[i][2] = "enter" /\ q[i][1] \in successors(b) \cap live
    <3> SUFFICES ASSUME NEW i \in (Len(s)+1)..Len(q)
                 PROVE  q[i][2] = "enter" /\ q[i][1] \in successors(b) \cap live
      OBVIOUS
    <3>1. CASE i <= Len(p)
      <4>1. q[i] = <<t, "enter">> /\ t \in live
        BY <1>4, <1>5, <1>6, <3>1 DEF PushedOn
      <4> QED
        BY <1>2, <1>3, <4>1
    <3>2. CASE i > Len(p)
      <4>1. q[i] = <<f, "enter">> /\ f \in live
        BY <1>5, <1>6, <3>2 DEF PushedOn
      <4> QED
        BY <1>2, <1>3, <4>1
    <3> QED
      BY <1>6, <3>1, <3>2
  <2>3. ASSUME NEW u \in successors(b) \cap live, color[u] # 2
        PROVE  \E i \in (Len(s)+1)..Len(q) : q[i] = <<u, "enter">>
    <3>1. CASE u = t
      <4>1. Len(p) = Len(s) + 1
        BY <1>4, <2>3, <3>1 DEF PushedOn
      <4>2. Len(p) \in (Len(s)+1)..Len(q) /\ q[Len(p)] = <<u, "enter">>
        BY <1>4, <1>5, <1>6, <3>1, <4>1 DEF PushedOn
      <4> QED
        BY <4>2
    <3>2. CASE u = f
      <4>1. Len(q) = Len(p) + 1
        BY <1>5, <2>3, <3>2 DEF PushedOn
      <4>2. Len(q) \in (Len(s)+1)..Len(q) /\ q[Len(q)] = <<u, "enter">>
        BY <1>4, <1>5, <1>6, <3>2, <4>1 DEF PushedOn
      <4> QED
        BY <4>2
    <3> QED
      BY <1>2, <3>1, <3>2
  <2> QED
    BY <1>4, <1>5, <1>6, <2>1, <2>2, <2>3 DEF PushedOn, SuccessorsPushedOn
<1> QED
  BY <1>7, <1>8

-----------------------------------------------------------------------------
(* Type correctness. *)

\* The entry block exists.
LEMMA EntryIsBlock == 0 \in Block
BY NAssumption DEF Block

\* The top of topo_order's stack.
LEMMA StackTop ==
  ASSUME TypeOK, stack # << >>
  PROVE  /\ Len(stack) \in Nat \ {0}
         /\ Last(stack) = stack[Len(stack)]
         /\ Last(stack) \in Entry
         /\ Last(stack)[1] \in Block
         /\ Front(stack) \in Seq(Entry)
         /\ Len(Front(stack)) = Len(stack) - 1
         /\ \A i \in 1..(Len(stack) - 1) : Front(stack)[i] = stack[i]
<1>1. stack \in Seq(Entry)
  BY DEF TypeOK
<1>2. /\ Len(stack) \in Nat \ {0}
      /\ Last(stack) = stack[Len(stack)]
      /\ Last(stack) \in Entry
      /\ Front(stack) \in Seq(Entry)
      /\ Len(Front(stack)) = Len(stack) - 1
      /\ \A i \in 1..(Len(stack) - 1) : Front(stack)[i] = stack[i]
  BY <1>1, PopProperties
<1>3. Last(stack)[1] \in Block
  BY <1>2 DEF Entry
<1> QED
  BY <1>2, <1>3

\* Every step of the passes keeps the variables to their types.
LEMMA TypeStep == TypeOK /\ [Next]_vars => TypeOK'
<1> SUFFICES ASSUME TypeOK, [Next]_vars PROVE TypeOK'
  OBVIOUS
<1> USE EntryIsBlock
<1>1. ASSUME NEW b \in work, ForwardReachableStep(b) PROVE TypeOK'
  BY <1>1 DEF TypeOK, ForwardReachableStep, graphVars, topoVars, successors
<1>2. ASSUME NEW b \in work, SliceToStep(b) PROVE TypeOK'
  BY <1>2 DEF TypeOK, SliceToStep, graphVars, topoVars
<1>3. ASSUME NEW l \in SUBSET Block, StartTopo(l), targets' = targets, blocks' = blocks,
             pending' \subseteq Block, work' \subseteq Block, seen' \subseteq Block,
             keep' \subseteq Block
      PROVE  TypeOK'
  <2>1. stack' \in Seq(Entry)
    <3>1. <<0, "enter">> \in Entry
      BY DEF Entry
    <3> QED
      BY <1>3, <3>1 DEF StartTopo
  <2> QED
    BY <1>3, <2>1 DEF TypeOK, StartTopo
<1>4. CASE ForwardReachableReturn
  <2>1. CASE targets = None
    <3>1. StartTopo(seen)
      BY <1>4, <2>1 DEF ForwardReachableReturn
    <3>2. seen \in SUBSET Block
      BY DEF TypeOK
    <3> QED
      BY <1>3, <1>4, <2>1, <3>1, <3>2 DEF TypeOK, ForwardReachableReturn, graphVars
  <2>2. CASE targets # None
    BY <1>4, <2>2 DEF TypeOK, ForwardReachableReturn, graphVars, topoVars
  <2> QED
    BY <2>1, <2>2
<1>5. ASSUME NEW t \in pending, NextTarget(t) PROVE TypeOK'
  BY <1>5 DEF TypeOK, NextTarget, graphVars, topoVars
<1>6. CASE BlockSliceReturn
  <2>1. StartTopo(keep \cup seen)
    BY <1>6 DEF BlockSliceReturn
  <2>2. keep \cup seen \in SUBSET Block
    BY DEF TypeOK
  <2> QED
    BY <1>3, <1>6, <2>1, <2>2 DEF TypeOK, BlockSliceReturn, graphVars
<1>7. ASSUME stack # << >>
      PROVE  /\ Last(stack)[1] \in Block
             /\ Front(stack) \in Seq(Entry)
  BY <1>7, StackTop
<1>8. CASE TopoFinish
  BY <1>7, <1>8 DEF TypeOK, TopoFinish, graphVars, walkVars
<1>9. CASE TopoSkip
  BY <1>7, <1>9 DEF TypeOK, TopoSkip, graphVars, walkVars
<1>10. CASE TopoExpand
  <2>1. stack # << >>
    BY <1>10 DEF TopoExpand
  <2>2. PICK b \in Block : b = Last(stack)[1]
    BY <1>7, <2>1
  <2>3. Append(Front(stack), <<b, "leave">>) \in Seq(Entry)
    BY <1>7, <2>1 DEF Entry
  <2>4. stack' = PushSuccessors(Append(Front(stack), <<b, "leave">>), b)
    BY <1>10, <2>2 DEF TopoExpand
  <2>5. stack' \in Seq(Entry)
    BY <2>3, <2>4, PushSuccessorsFacts DEF SuccessorsPushedOn
  <2> QED
    BY <1>10, <2>2, <2>5 DEF TypeOK, TopoExpand, graphVars, walkVars
<1>11. CASE TopoCycle
  BY <1>7, <1>11 DEF TypeOK, TopoCycle, graphVars, walkVars
<1>12. CASE TopoReturn
  BY <1>12, ReverseFacts DEF TypeOK, TopoReturn, graphVars, walkVars
<1>13. CASE AncestorsStep
  BY <1>13 DEF TypeOK, AncestorsStep, graphVars, walkVars, topoVars
<1>14. CASE AncestorsReturn
  BY <1>14 DEF TypeOK, AncestorsReturn, graphVars, walkVars, topoVars
<1>15. CASE UNCHANGED vars
  BY <1>15 DEF TypeOK, vars
<1> QED
  BY <1>1, <1>2, <1>4, <1>5, <1>6, <1>8, <1>9, <1>10, <1>11, <1>12, <1>13, <1>14, <1>15
  DEF Next, Ended

\* The passes start with their variables typed.
LEMMA TypeInit == Init => TypeOK
BY EntryIsBlock, GraphsAssumption, TargetsAssumption DEF Init, TypeOK

\* The variables of the passes keep to their types on every CFG.
THEOREM TypeCorrect == Spec => []TypeOK
BY TypeInit, TypeStep, PTL DEF Spec

-----------------------------------------------------------------------------
(* The depth-first search of topo_order. *)

\* What a step that pops the top entry and keeps the rest does to the stack.
LEMMA StackPopped ==
  ASSUME TypeOK, stack # << >>, stack' = Front(stack)
  PROVE  /\ Len(stack) \in Nat \ {0}
         /\ Len(stack') = Len(stack) - 1
         /\ \A i \in 1..Len(stack') : stack'[i] = stack[i]
BY StackTop

\* Finishing a block keeps the depth-first invariant: its successors are black.
LEMMA FinishKeepsDfs ==
  ASSUME TypeOK, TypeOK', DfsInv, TopoFinish
  PROVE  DfsInv'
<1>1. PICK n \in Nat \ {0} : n = Len(stack)
  BY StackPopped DEF TopoFinish
<1>2. PICK b \in Block : b = Last(stack)[1]
  BY StackTop DEF TopoFinish
<1>3. /\ pc = "topo" /\ pc' = "topo" /\ live' = live /\ blocks' = blocks
      /\ color' = [color EXCEPT ![b] = 2]
      /\ order' = Append(order, b)
  BY <1>2 DEF TopoFinish, walkVars, graphVars
<1>4. /\ Len(stack') = n - 1
      /\ \A i \in 1..(n - 1) : stack'[i] = stack[i]
  BY <1>1, StackPopped DEF TopoFinish
<1>5. stack[n] = <<b, "leave">>
  BY <1>1, <1>2, StackTop DEF TopoFinish, Entry
<1>6. GrayInv /\ SuccessorInv /\ PostorderInv /\ EntryInv
  BY <1>3 DEF DfsInv
<1>7. color \in [Block -> 0..2] /\ order \in Seq(Block) /\ live \subseteq Block
  BY DEF TypeOK
<1>8. \A c \in Block : successors(c)' = successors(c) /\ successors(c) \subseteq Block
  BY <1>3 DEF successors
<1>9. color[b] = 1 /\ b \in live
  BY <1>1, <1>5, <1>6 DEF GrayInv
<1>10. \A i \in 1..(n - 1) : stack[i][2] = "leave" => stack[i][1] # b
  BY <1>1, <1>5, <1>6 DEF GrayInv
<1>11. \A i \in 1..n : stack[i][1] \in Block
  BY <1>1 DEF TypeOK, Entry
<1>12. GrayInv'
  <2>1. \A i \in 1..Len(stack') : stack'[i][1] \in live'
    BY <1>1, <1>3, <1>4, <1>6 DEF GrayInv
  <2>2. \A i \in 1..Len(stack') : stack'[i][2] = "leave" => color'[stack'[i][1]] = 1
    BY <1>1, <1>3, <1>4, <1>6, <1>7, <1>10, <1>11 DEF GrayInv
  <2>3. \A i, j \in 1..Len(stack') :
          stack'[i][2] = "leave" /\ stack'[j][2] = "leave" /\ stack'[i][1] = stack'[j][1] => i = j
    BY <1>1, <1>4, <1>6 DEF GrayInv
  <2>4. ASSUME NEW c \in Block, color'[c] = 1
        PROVE  \E i \in 1..Len(stack') : stack'[i] = <<c, "leave">>
    <3>1. c # b /\ color[c] = 1
      BY <1>3, <1>7, <2>4
    <3>2. PICK i \in 1..n : stack[i] = <<c, "leave">>
      BY <1>1, <1>6, <3>1 DEF GrayInv
    <3>3. i # n
      BY <1>5, <3>1, <3>2
    <3> QED
      BY <1>1, <1>4, <3>2, <3>3
  <2> QED
    BY <2>1, <2>2, <2>3, <2>4 DEF GrayInv
<1>13. SuccessorInv'
  <2> SUFFICES ASSUME NEW i \in 1..Len(stack'), stack'[i][2] = "leave",
                      NEW u \in successors(stack[i][1])' \cap live'
               PROVE  /\ color'[u] = 2 \/ \E j \in (i+1)..Len(stack') : stack'[j][1] = u
                      /\ \A k \in 1..i : stack'[k] # <<u, "leave">>
    BY DEF SuccessorInv
  <2>1. /\ i \in 1..(n - 1)
        /\ stack[i][2] = "leave"
        /\ u \in successors(stack[i][1]) \cap live
        /\ u \in Block
    BY <1>1, <1>3, <1>4, <1>7 DEF successors
  <2>2. /\ color[u] = 2 \/ \E j \in (i+1)..n : stack[j][1] = u
        /\ \A k \in 1..i : stack[k] # <<u, "leave">>
    BY <1>1, <1>6, <2>1 DEF SuccessorInv
  <2>3. color'[u] = 2 \/ \E j \in (i+1)..Len(stack') : stack'[j][1] = u
    <3>1. CASE color[u] = 2
      BY <1>3, <1>7, <2>1, <3>1
    <3>2. ASSUME NEW j \in (i+1)..n, stack[j][1] = u, j = n
          PROVE  color'[u] = 2
      BY <1>3, <1>5, <1>7, <3>2
    <3>3. ASSUME NEW j \in (i+1)..n, stack[j][1] = u, j # n
          PROVE  j \in (i+1)..Len(stack') /\ stack'[j][1] = u
      BY <1>4, <2>1, <3>3
    <3> QED
      BY <2>2, <3>1, <3>2, <3>3
  <2>4. \A k \in 1..i : stack'[k] # <<u, "leave">>
    BY <1>1, <1>4, <2>1, <2>2
  <2> QED
    BY <2>3, <2>4
<1>14. PostorderInv'
  <2>1. PICK m \in Nat : m = Len(order)
    BY <1>7
  <2>2. /\ Len(order') = m + 1
        /\ \A i \in 1..m : order'[i] = order[i]
        /\ order'[m + 1] = b
    BY <1>3, <1>7, <2>1, AppendFacts
  <2>3. \A i \in 1..m : order[i] \in Block /\ order[i] # b
    <3>1. \A i \in 1..m : order[i] \in Block
      BY <1>7, <2>1
    <3>2. \A i \in 1..m : color[order[i]] = 2
      BY <1>6, <2>1, <3>1 DEF PostorderInv
    <3> QED
      BY <1>9, <3>1, <3>2
  <2>4. \A c \in Block : color'[c] = 2 <=> \E i \in 1..Len(order') : order'[i] = c
    <3> SUFFICES ASSUME NEW c \in Block
                 PROVE  color'[c] = 2 <=> \E i \in 1..(m + 1) : order'[i] = c
      BY <2>2
    <3>1. CASE c = b
      <4>1. m + 1 \in 1..(m + 1)
        BY <2>1
      <4> QED
        BY <1>3, <1>7, <2>2, <3>1, <4>1
    <3>2. CASE c # b
      <4>1. color'[c] = color[c]
        BY <1>3, <1>7, <3>2
      <4>2. color[c] = 2 <=> \E i \in 1..m : order[i] = c
        BY <1>6, <2>1 DEF PostorderInv
      <4> QED
        BY <2>1, <2>2, <3>2, <4>1, <4>2
    <3> QED
      BY <3>1, <3>2
  <2>5. \A i, j \in 1..Len(order') : order'[i] = order'[j] => i = j
    BY <1>6, <2>1, <2>2, <2>3 DEF PostorderInv
  <2>6. \A c \in Block : color'[c] = 2 => c \in live'
    BY <1>3, <1>6, <1>7, <1>9 DEF PostorderInv
  <2>7. ASSUME NEW i \in 1..(m + 1), NEW u \in successors(order'[i]) \cap live
        PROVE  \E j \in 1..(i - 1) : order'[j] = u
    <3>1. CASE i <= m
      <4>1. u \in successors(order[i]) \cap live /\ i \in 1..m
        BY <2>1, <2>2, <3>1
      <4>2. \E j \in 1..(i - 1) : order[j] = u
        BY <1>6, <2>1, <4>1 DEF PostorderInv
      <4> QED
        BY <2>1, <2>2, <4>1, <4>2
    <3>2. CASE i = m + 1
      <4>1. u \in successors(b) \cap live /\ u \in Block
        BY <1>7, <2>2, <3>2
      <4>2. n \in 1..n /\ stack[n][2] = "leave" /\ stack[n][1] = b
        BY <1>5
      <4>3. color[u] = 2 \/ \E j \in (n+1)..n : stack[j][1] = u
        BY <1>1, <1>6, <4>1, <4>2 DEF SuccessorInv
      <4>4. color[u] = 2
        BY <4>3
      <4>5. \E j \in 1..m : order[j] = u
        BY <1>6, <2>1, <4>1, <4>4 DEF PostorderInv
      <4> QED
        BY <2>1, <2>2, <3>2, <4>5
    <3> QED
      BY <2>1, <3>1, <3>2
  <2>8. \A i \in 1..Len(order') : \A u \in successors(order[i])' \cap live' :
          \E j \in 1..(i - 1) : order'[j] = u
    BY <1>3, <2>2, <2>7 DEF successors
  <2> QED
    BY <2>4, <2>5, <2>6, <2>8 DEF PostorderInv
<1>15. EntryInv'
  <2> SUFFICES ASSUME color'[0] = 0 PROVE \E i \in 1..(n - 1) : stack'[i][1] = 0
    BY <1>4 DEF EntryInv
  <2>1. color[0] = 0 /\ 0 # b
    BY <1>3, <1>7, EntryIsBlock
  <2>2. PICK i \in 1..n : stack[i][1] = 0
    BY <1>1, <1>6, <2>1 DEF EntryInv
  <2>3. i # n
    BY <1>5, <2>1, <2>2
  <2> QED
    BY <1>4, <2>2, <2>3
<1> QED
  BY <1>12, <1>13, <1>14, <1>15 DEF DfsInv

\* Dropping an entry whose block was painted meanwhile keeps the invariant: a
\* gray block that waits above a gray predecessor was entered above it too.
LEMMA SkipKeepsDfs ==
  ASSUME TypeOK, DfsInv, TopoSkip
  PROVE  DfsInv'
<1>1. PICK n \in Nat \ {0} : n = Len(stack)
  BY StackPopped DEF TopoSkip
<1>2. PICK b \in Block : b = Last(stack)[1]
  BY StackTop DEF TopoSkip
<1>3. /\ pc = "topo" /\ pc' = "topo" /\ live' = live /\ blocks' = blocks
      /\ color' = color /\ order' = order /\ color[b] # 0
  BY <1>2 DEF TopoSkip, walkVars, graphVars
<1>4. /\ Len(stack') = n - 1
      /\ \A i \in 1..(n - 1) : stack'[i] = stack[i]
  BY <1>1, StackPopped DEF TopoSkip
<1>5. stack[n] = <<b, "enter">>
  BY <1>1, <1>2, StackTop DEF TopoSkip, Entry
<1>6. GrayInv /\ SuccessorInv /\ PostorderInv /\ EntryInv
  BY <1>3 DEF DfsInv
<1>7. color \in [Block -> 0..2] /\ live \subseteq Block
  BY DEF TypeOK
<1>8. GrayInv'
  <2>1. /\ \A i \in 1..Len(stack') : stack'[i][1] \in live'
        /\ \A i \in 1..Len(stack') : stack'[i][2] = "leave" => color'[stack'[i][1]] = 1
    BY <1>1, <1>3, <1>4, <1>6 DEF GrayInv
  <2>2. \A i, j \in 1..Len(stack') :
          stack'[i][2] = "leave" /\ stack'[j][2] = "leave" /\ stack'[i][1] = stack'[j][1] => i = j
    BY <1>1, <1>4, <1>6 DEF GrayInv
  <2>3. ASSUME NEW c \in Block, color'[c] = 1
        PROVE  \E i \in 1..Len(stack') : stack'[i] = <<c, "leave">>
    <3>1. PICK i \in 1..n : stack[i] = <<c, "leave">>
      BY <1>1, <1>3, <1>6, <2>3 DEF GrayInv
    <3>2. i # n
      BY <1>5, <3>1
    <3> QED
      BY <1>1, <1>4, <3>1, <3>2
  <2> QED
    BY <2>1, <2>2, <2>3 DEF GrayInv
<1>9. SuccessorInv'
  <2> SUFFICES ASSUME NEW i \in 1..Len(stack'), stack'[i][2] = "leave",
                      NEW u \in successors(stack[i][1])' \cap live'
               PROVE  /\ color'[u] = 2 \/ \E j \in (i+1)..Len(stack') : stack'[j][1] = u
                      /\ \A k \in 1..i : stack'[k] # <<u, "leave">>
    BY DEF SuccessorInv
  <2>1. /\ i \in 1..(n - 1)
        /\ stack[i][2] = "leave"
        /\ u \in successors(stack[i][1]) \cap live
        /\ u \in Block
    BY <1>1, <1>3, <1>4, <1>7 DEF successors
  <2>2. /\ color[u] = 2 \/ \E j \in (i+1)..n : stack[j][1] = u
        /\ \A k \in 1..i : stack[k] # <<u, "leave">>
    BY <1>1, <1>6, <2>1 DEF SuccessorInv
  <2>3. ASSUME NEW j \in (i+1)..n, stack[j][1] = u, color[u] # 2
        PROVE  \E k \in (i+1)..Len(stack') : stack'[k][1] = u
    <3>1. CASE j # n
      <4>1. j \in (i+1)..Len(stack') /\ stack'[j][1] = u
        BY <1>4, <2>1, <2>3, <3>1
      <4> QED
        BY <4>1
    <3>2. CASE j = n
      <4>1. u = b /\ color[u] = 1
        BY <1>3, <1>5, <1>7, <2>3, <3>2
      <4>2. PICK k \in 1..n : stack[k] = <<u, "leave">>
        BY <1>1, <1>6, <2>1, <4>1 DEF GrayInv
      <4>3. k # n
        BY <1>5, <4>2
      <4>4. ~(k <= i)
        BY <2>1, <2>2, <4>2
      <4>5. k \in (i+1)..Len(stack') /\ stack'[k][1] = u
        BY <1>4, <2>1, <4>2, <4>3, <4>4
      <4> QED
        BY <4>5
    <3> QED
      BY <3>1, <3>2
  <2>4. \A k \in 1..i : stack'[k] # <<u, "leave">>
    BY <1>1, <1>4, <2>1, <2>2
  <2> QED
    BY <1>3, <2>2, <2>3, <2>4
<1>10. PostorderInv'
  BY <1>3, <1>6 DEF PostorderInv, successors
<1>11. EntryInv'
  BY <1>1, <1>3, <1>4, <1>5, <1>6 DEF EntryInv
<1> QED
  BY <1>8, <1>9, <1>10, <1>11 DEF DfsInv

\* Entering a block keeps the invariant: none of its live successors is gray,
\* and those that are white now wait above it.
LEMMA ExpandKeepsDfs ==
  ASSUME TypeOK, DfsInv, TopoExpand
  PROVE  DfsInv'
<1>1. PICK n \in Nat \ {0} : n = Len(stack)
  BY StackTop DEF TopoExpand
<1>2. PICK b \in Block : b = Last(stack)[1]
  BY StackTop DEF TopoExpand
<1>3. /\ pc = "topo" /\ pc' = "topo" /\ live' = live /\ blocks' = blocks /\ order' = order
      /\ color[b] = 0
      /\ color' = [color EXCEPT ![b] = 1]
      /\ GraySuccessors(b) = {}
      /\ stack' = PushSuccessors(Append(Front(stack), <<b, "leave">>), b)
  BY <1>2 DEF TopoExpand, walkVars, graphVars
<1>4. PICK s : s = Append(Front(stack), <<b, "leave">>)
  OBVIOUS
<1>5. /\ s \in Seq(Entry)
      /\ Len(s) = n
      /\ \A i \in 1..(n - 1) : s[i] = stack[i]
      /\ s[n] = <<b, "leave">>
  <2>1. /\ Front(stack) \in Seq(Entry)
        /\ Len(Front(stack)) = n - 1
        /\ \A i \in 1..(n - 1) : Front(stack)[i] = stack[i]
    BY <1>1, StackTop DEF TopoExpand
  <2>2. <<b, "leave">> \in Entry
    BY DEF Entry
  <2> HIDE DEF Entry
  <2> QED
    BY <1>1, <1>4, <2>1, <2>2
<1>6. SuccessorsPushedOn(s, b, stack')
  BY <1>3, <1>4, <1>5, PushSuccessorsFacts
<1>7. PICK m \in Nat : m = Len(stack') /\ m >= n
  BY <1>1, <1>5, <1>6 DEF SuccessorsPushedOn
<1>8. /\ \A i \in 1..(n - 1) : stack'[i] = stack[i]
      /\ stack'[n] = <<b, "leave">>
      /\ \A i \in (n+1)..m : stack'[i][2] = "enter" /\ stack'[i][1] \in successors(b) \cap live
      /\ \A u \in successors(b) \cap live : color[u] # 2 =>
           \E i \in (n+1)..m : stack'[i] = <<u, "enter">>
  <2>1. \A i \in 1..n : stack'[i] = s[i]
    BY <1>5, <1>6 DEF SuccessorsPushedOn
  <2>2. \A i \in (n+1)..m : stack'[i][2] = "enter" /\ stack'[i][1] \in successors(b) \cap live
    BY <1>5, <1>6, <1>7 DEF SuccessorsPushedOn
  <2>3. ASSUME NEW u \in successors(b) \cap live, color[u] # 2
        PROVE  \E i \in (n+1)..m : stack'[i] = <<u, "enter">>
    <3>1. \E i \in (Len(s)+1)..Len(stack') : stack'[i] = <<u, "enter">>
      BY <1>6, <2>3 DEF SuccessorsPushedOn
    <3> QED
      BY <1>5, <1>7, <3>1
  <2>4. /\ \A i \in 1..(n - 1) : stack'[i] = stack[i]
        /\ stack'[n] = <<b, "leave">>
    BY <1>1, <1>5, <2>1
  <2> QED
    BY <2>2, <2>3, <2>4
<1>9. stack[n] = <<b, "enter">>
  BY <1>1, <1>2, StackTop DEF TopoExpand, Entry
<1>10. GrayInv /\ SuccessorInv /\ PostorderInv /\ EntryInv
  BY <1>3 DEF DfsInv
<1>11. color \in [Block -> 0..2] /\ live \subseteq Block
  BY DEF TypeOK
<1>12. \A i \in 1..m : stack'[i][2] = "leave" => i = n \/ (i \in 1..(n - 1) /\ stack[i][2] = "leave")
  BY <1>1, <1>7, <1>8
<1>13. \A i \in 1..(n - 1) : stack[i][2] = "leave" => stack[i][1] # b /\ color[stack[i][1]] = 1
  BY <1>1, <1>3, <1>10 DEF GrayInv
<1>14. \A i \in 1..n : stack[i][1] \in live
  BY <1>1, <1>10 DEF GrayInv
<1>15. GrayInv'
  <2>1. \A i \in 1..m : stack'[i][1] \in live'
    BY <1>1, <1>3, <1>7, <1>8, <1>9, <1>14
  <2>2. \A i \in 1..m : stack'[i][2] = "leave" => color'[stack'[i][1]] = 1
    BY <1>3, <1>8, <1>11, <1>12, <1>13, <1>14
  <2>3. \A i, j \in 1..m :
          stack'[i][2] = "leave" /\ stack'[j][2] = "leave" /\ stack'[i][1] = stack'[j][1] => i = j
    BY <1>1, <1>8, <1>10, <1>12, <1>13 DEF GrayInv
  <2>4. ASSUME NEW c \in Block, color'[c] = 1
        PROVE  \E i \in 1..m : stack'[i] = <<c, "leave">>
    <3>1. CASE c = b
      BY <1>1, <1>7, <1>8, <3>1
    <3>2. CASE c # b
      <4>1. PICK i \in 1..n : stack[i] = <<c, "leave">>
        BY <1>1, <1>3, <1>10, <1>11, <2>4, <3>2 DEF GrayInv
      <4>2. i \in 1..(n - 1) /\ i \in 1..m
        BY <1>7, <1>9, <4>1
      <4> QED
        BY <1>8, <4>1, <4>2
    <3> QED
      BY <3>1, <3>2
  <2> QED
    BY <1>7, <2>1, <2>2, <2>3, <2>4 DEF GrayInv
<1>16. SuccessorInv'
  <2> SUFFICES ASSUME NEW i \in 1..Len(stack'), stack'[i][2] = "leave",
                      NEW u \in successors(stack[i][1])' \cap live'
               PROVE  /\ color'[u] = 2 \/ \E j \in (i+1)..Len(stack') : stack'[j][1] = u
                      /\ \A k \in 1..i : stack'[k] # <<u, "leave">>
    BY DEF SuccessorInv
  <2>1. /\ i \in 1..m
        /\ u \in successors(stack'[i][1]) \cap live
        /\ u \in Block
    BY <1>3, <1>7, <1>11 DEF successors
  <2>2. CASE i = n
    <3>1. u \in successors(b) \cap live
      BY <1>8, <2>1, <2>2
    <3>2. u # b /\ color[u] # 1
      BY <1>3, <3>1 DEF GraySuccessors
    <3>3. color'[u] = color[u]
      BY <1>3, <1>11, <2>1, <3>2
    <3>4. color'[u] = 2 \/ \E j \in (i+1)..Len(stack') : stack'[j][1] = u
      <4>1. CASE color[u] = 2
        BY <3>3, <4>1
      <4>2. CASE color[u] # 2
        <5>1. PICK j \in (n+1)..m : stack'[j] = <<u, "enter">>
          BY <1>8, <3>1, <4>2
        <5>2. j \in (i+1)..Len(stack') /\ stack'[j][1] = u
          BY <1>7, <2>2, <5>1
        <5> QED
          BY <5>2
      <4> QED
        BY <4>1, <4>2
    <3>5. \A k \in 1..i : stack'[k] # <<u, "leave">>
      BY <1>1, <1>8, <1>13, <2>2, <3>2
    <3> QED
      BY <3>4, <3>5
  <2>3. CASE i \in 1..(n - 1) /\ stack[i][2] = "leave"
    <3>1. u \in successors(stack[i][1]) \cap live
      BY <1>8, <2>1, <2>3
    <3>2. /\ color[u] = 2 \/ \E j \in (i+1)..n : stack[j][1] = u
          /\ \A k \in 1..i : stack[k] # <<u, "leave">>
      BY <1>1, <1>10, <2>3, <3>1 DEF SuccessorInv
    <3>3. color[u] = 2 => color'[u] = 2
      BY <1>3, <1>11, <2>1
    <3>4. ASSUME NEW j \in (i+1)..n, stack[j][1] = u
          PROVE  j \in (i+1)..Len(stack') /\ stack'[j][1] = u
      BY <1>1, <1>7, <1>8, <1>9, <2>3, <3>4
    <3>5. \A k \in 1..i : stack'[k] # <<u, "leave">>
      BY <1>1, <1>8, <2>3, <3>2
    <3> QED
      BY <3>2, <3>3, <3>4, <3>5
  <2> QED
    BY <1>12, <2>1, <2>2, <2>3
<1>17. PostorderInv'
  <2>1. \A c \in Block : color'[c] = 2 <=> color[c] = 2
    BY <1>3, <1>11
  <2> QED
    BY <1>3, <1>10, <2>1 DEF PostorderInv, successors
<1>18. EntryInv'
  <2> SUFFICES ASSUME color'[0] = 0 PROVE \E i \in 1..m : stack'[i][1] = 0
    BY <1>7 DEF EntryInv
  <2>1. color[0] = 0 /\ 0 # b
    BY <1>3, <1>11, EntryIsBlock
  <2>2. PICK i \in 1..n : stack[i][1] = 0
    BY <1>1, <1>10, <2>1 DEF EntryInv
  <2>3. i \in 1..(n - 1) /\ i \in 1..m
    BY <1>7, <1>9, <2>1, <2>2
  <2> QED
    BY <1>8, <2>2, <2>3
<1> QED
  BY <1>15, <1>16, <1>17, <1>18 DEF DfsInv

\* topo_order starts with nothing painted and block 0 on the stack.
LEMMA StartBeginsDfs ==
  ASSUME TypeOK, order = << >>, color = [b \in Block |-> 0], stack = << >>,
         NEW l, 0 \in l, StartTopo(l)
  PROVE  DfsInv'
<1>1. /\ stack' = <<<<0, "enter">>>> /\ color' = color /\ order' = << >> /\ live' = l
  BY DEF StartTopo
<1>2. Len(stack') = 1 /\ stack'[1] = <<0, "enter">> /\ Len(order') = 0
  BY <1>1
<1>3. \A b \in Block : color'[b] = 0
  BY <1>1
<1>4. GrayInv'
  BY <1>1, <1>2, <1>3 DEF GrayInv
<1>5. SuccessorInv'
  BY <1>2 DEF SuccessorInv
<1>6. PostorderInv'
  BY <1>2, <1>3 DEF PostorderInv
<1>7. EntryInv'
  BY <1>2 DEF EntryInv
<1> QED
  BY <1>4, <1>5, <1>6, <1>7 DEF DfsInv

\* When the stack is empty every live block is black: the black blocks contain
\* block 0 and are closed under live successors.
LEMMA AllBlackAtReturn ==
  ASSUME TypeOK, DfsInv, LiveInv, pc = "topo", stack = << >>
  PROVE  {order[i] : i \in 1..Len(order)} = live
<1>1. GrayInv /\ PostorderInv /\ EntryInv /\ Connected(live) /\ 0 \in live
  BY DEF DfsInv, LiveInv
<1>2. color \in [Block -> 0..2] /\ order \in Seq(Block) /\ live \subseteq Block
  BY DEF TypeOK
<1>3. Len(stack) = 0
  OBVIOUS
<1>4. color[0] = 2
  BY <1>1, <1>2, <1>3, EntryIsBlock DEF GrayInv, EntryInv
<1> DEFINE black == {b \in Block : color[b] = 2}
<1>5. \A b \in black : successors(b) \cap live \subseteq black
  <2> SUFFICES ASSUME NEW b \in black, NEW u \in successors(b) \cap live
               PROVE  u \in black
    OBVIOUS
  <2>1. PICK i \in 1..Len(order) : order[i] = b
    BY <1>1 DEF PostorderInv
  <2>2. PICK j \in 1..(i - 1) : order[j] = u
    BY <1>1, <2>1 DEF PostorderInv
  <2>3. j \in 1..Len(order) /\ u \in Block
    BY <1>2, <2>1, <2>2
  <2> QED
    BY <1>1, <2>2, <2>3 DEF PostorderInv
<1>6. live \subseteq black
  BY <1>1, <1>4, <1>5, EntryIsBlock DEF Connected
<1>7. black \subseteq live
  BY <1>1 DEF PostorderInv
<1>8. {order[i] : i \in 1..Len(order)} = black
  <2>1. \A i \in 1..Len(order) : order[i] \in Block
    BY <1>2
  <2> QED
    BY <1>1, <2>1 DEF PostorderInv
<1> QED
  BY <1>6, <1>7, <1>8

\* topo_order's return: the lengths agree, and the reversed postorder is
\* topological.
LEMMA ReturnSorts ==
  ASSUME TypeOK, DfsInv, LiveInv, TopoReturn
  PROVE  pc' = "anc" /\ TopologicalOrder'
<1>1. /\ pc = "topo" /\ stack = << >> /\ live' = live /\ blocks' = blocks
      /\ order' = Reverse(order)
      /\ pc' = IF Len(order) = Cardinality(live) THEN "anc" ELSE "uncovered"
  BY DEF TopoReturn, walkVars, graphVars
<1>2. {order[i] : i \in 1..Len(order)} = live
  BY <1>1, AllBlackAtReturn
<1>3. PostorderInv
  BY <1>1 DEF DfsInv
<1>4. order \in Seq(Block)
  BY DEF TypeOK
<1>5. Cardinality(live) = Len(order)
  BY <1>2, <1>3, <1>4, InjectiveLength DEF PostorderInv
<1>6. PICK m \in Nat : m = Len(order)
  BY <1>4
<1>7. Len(order') = m /\ \A i \in 1..m : order'[i] = order[(m - i) + 1]
  BY <1>1, <1>4, <1>6, ReverseFacts
<1>8. {order'[i] : i \in 1..Len(order')} = live'
  <2>1. ASSUME NEW i \in 1..m PROVE order'[i] \in live
    BY <1>2, <1>6, <1>7
  <2>2. ASSUME NEW b \in live PROVE \E i \in 1..m : order'[i] = b
    <3>1. PICK k \in 1..m : order[k] = b
      BY <1>2, <1>6
    <3>2. (m - k) + 1 \in 1..m /\ (m - ((m - k) + 1)) + 1 = k
      BY <1>6
    <3> QED
      BY <1>7, <3>1, <3>2
  <2> QED
    BY <1>1, <1>7, <2>1, <2>2
<1>9. ASSUME NEW i \in 1..m, NEW j \in 1..m, order'[j] \in successors(order'[i])
      PROVE  i < j
  <2>1. PICK k \in 1..m : k = (m - i) + 1 /\ order'[i] = order[k]
    <3>1. (m - i) + 1 \in 1..m
      BY <1>6
    <3> QED
      BY <1>7, <3>1
  <2>2. PICK l \in 1..m : l = (m - j) + 1 /\ order'[j] = order[l]
    <3>1. (m - j) + 1 \in 1..m
      BY <1>6
    <3> QED
      BY <1>7, <3>1
  <2>3. order[l] \in successors(order[k]) \cap live
    BY <1>2, <1>6, <1>9, <2>1, <2>2
  <2>4. PICK x \in 1..(k - 1) : order[x] = order[l]
    BY <1>3, <1>6, <2>3 DEF PostorderInv
  <2>5. x \in 1..m /\ x = l
    BY <1>3, <1>6, <2>1, <2>2, <2>4 DEF PostorderInv
  <2> QED
    BY <1>6, <2>1, <2>2, <2>4, <2>5
<1>10. \A i, j \in 1..Len(order') : (order[j] \in successors(order[i]))' => i < j
  BY <1>1, <1>7, <1>9 DEF successors
<1>11. ASSUME NEW i \in 1..m, NEW j \in 1..m, order'[i] = order'[j] PROVE i = j
  <2>1. (m - i) + 1 \in 1..m /\ (m - j) + 1 \in 1..m
    BY <1>6
  <2>2. order[(m - i) + 1] = order[(m - j) + 1]
    BY <1>7, <1>11
  <2>3. (m - i) + 1 = (m - j) + 1
    BY <1>3, <1>6, <2>1, <2>2 DEF PostorderInv
  <2> QED
    BY <1>6, <2>3
<1> QED
  BY <1>1, <1>5, <1>7, <1>8, <1>10, <1>11 DEF TopologicalOrder

-----------------------------------------------------------------------------
(* The two set walks. *)

\* forward_reachable's result is reached from block 0 within itself.
LEMMA ReachedIsConnected ==
  ASSUME TypeOK, ReachInv, pc = "reach", work = {}
  PROVE  Connected(seen) /\ 0 \in seen
<1>1. 0 \in seen /\ \A b \in seen : successors(b) \subseteq seen
  BY DEF ReachInv
<1>2. ASSUME NEW T \in SUBSET Block, 0 \in T,
             \A b \in T : successors(b) \cap seen \subseteq T
      PROVE  seen \subseteq T
  <2>1. T \cap seen \in SUBSET Block
    OBVIOUS
  <2>2. 0 \in T \cap seen /\ \A b \in T \cap seen : successors(b) \subseteq T \cap seen
    BY <1>1, <1>2
  <2>3. seen \subseteq T \cap seen
    BY <2>1, <2>2 DEF ReachInv
  <2> QED
    BY <2>3
<1> QED
  BY <1>1, <1>2 DEF Connected

\* A slice is reached from block 0 within itself: a path from block 0 that left
\* the slice could not come back to it.
LEMMA SliceIsConnected ==
  ASSUME TypeOK, NEW k, k \subseteq live, 0 \in k, Connected(live),
         \A b \in k \ {0} : preds(b) \cap live \subseteq k
  PROVE  Connected(k)
<1> SUFFICES ASSUME NEW T \in SUBSET Block, 0 \in T,
                    \A b \in T : successors(b) \cap k \subseteq T
             PROVE  k \subseteq T
  BY DEF Connected
<1> DEFINE U == (T \cap live) \cup (live \ k)
<1>1. live \subseteq Block
  BY DEF TypeOK
<1>2. U \in SUBSET Block /\ 0 \in U
  BY <1>1
<1>3. ASSUME NEW b \in U, NEW u \in successors(b) \cap live
      PROVE  u \in U
  <2>1. CASE u \notin k
    BY <2>1
  <2>2. CASE u \in k /\ b \in T
    BY <2>2
  <2>3. CASE u \in k /\ b \notin T
    <3>1. b \in live \ k /\ b \in Block /\ u \in Block
      BY <1>1, <2>3
    <3>2. b \in preds(u)
      BY <3>1 DEF preds
    <3>3. u = 0
      BY <2>3, <3>1, <3>2
    <3> QED
      BY <3>3
  <2> QED
    BY <2>1, <2>2, <2>3
<1>4. live \subseteq U
  BY <1>2, <1>3 DEF Connected
<1> QED
  BY <1>4

-----------------------------------------------------------------------------
(* The inductive invariant. *)

\* forward_reachable starts from block 0 with nothing sliced or sorted yet.
LEMMA OrderInit == Init => OrderInv
<1> SUFFICES ASSUME Init PROVE OrderInv
  OBVIOUS
<1>1. TypeOK
  BY TypeInit
<1>2. ReachInv
  BY DEF Init, ReachInv
<1> QED
  BY <1>1, <1>2 DEF Init, OrderInv, SliceInv, LiveInv, DfsInv, TopologicalOrder, Sorted,
                    SortCoversLive

\* The parts of OrderInv that the phase pc = p leaves open.
LEMMA InReach ==
  ASSUME TypeOK', pc' = "reach", ReachInv' PROVE OrderInv'
BY DEF OrderInv, SliceInv, LiveInv, DfsInv, TopologicalOrder, Sorted, SortCoversLive

\* The same while _block_slice works through its targets.
LEMMA InSlice ==
  ASSUME TypeOK', pc' = "slice", SliceInv' PROVE OrderInv'
BY DEF OrderInv, ReachInv, LiveInv, DfsInv, TopologicalOrder, Sorted, SortCoversLive

\* The same during topo_order's search.
LEMMA InTopo ==
  ASSUME TypeOK', pc' = "topo", LiveInv', DfsInv' PROVE OrderInv'
BY DEF OrderInv, ReachInv, SliceInv, TopologicalOrder, Sorted, SortCoversLive

\* The same while ancestors reads the sorted order.
LEMMA InSorted ==
  ASSUME TypeOK', pc' \in {"anc", "done"}, LiveInv', TopologicalOrder' PROVE OrderInv'
BY DEF OrderInv, ReachInv, SliceInv, DfsInv, SortCoversLive

\* A step that leaves the graph and the live set alone leaves their
\* connectedness alone.
LEMMA ConnectedKept ==
  ASSUME LiveInv, blocks' = blocks, live' = live,
         pc \in {"topo", "anc", "done", "uncovered"}
  PROVE  LiveInv'
BY DEF LiveInv, Connected, successors

\* Every step of the passes keeps the inductive invariant.
LEMMA OrderStep == OrderInv /\ [Next]_vars => OrderInv'
<1> SUFFICES ASSUME OrderInv, [Next]_vars PROVE OrderInv'
  OBVIOUS
<1>1. TypeOK /\ TypeOK'
  BY TypeStep DEF OrderInv
<1>2. ReachInv /\ SliceInv /\ LiveInv /\ DfsInv /\ TopologicalOrder /\ SortCoversLive
  BY DEF OrderInv
<1>3. ASSUME NEW b \in work, ForwardReachableStep(b) PROVE OrderInv'
  <2>1. /\ pc = "reach" /\ pc' = "reach" /\ blocks' = blocks
        /\ order' = order /\ stack' = stack /\ color' = color
        /\ seen' = seen \cup {b}
        /\ work' = (work \ {b}) \cup (IF b \in seen THEN {} ELSE successors(b))
    BY <1>3 DEF ForwardReachableStep, graphVars, topoVars
  <2>2. \A c \in Block : successors(c)' = successors(c)
    BY <2>1 DEF successors
  <2>3. /\ order = << >> /\ stack = << >> /\ color = [c \in Block |-> 0]
        /\ 0 \in seen \cup work
        /\ \A c \in seen : successors(c) \subseteq seen \cup work
        /\ \A T \in SUBSET Block :
             (0 \in T /\ \A c \in T : successors(c) \subseteq T) => seen \cup work \subseteq T
    BY <1>2, <2>1 DEF ReachInv
  <2>4. b \in Block /\ seen \subseteq Block /\ seen' \subseteq Block
    BY <1>1 DEF TypeOK
  <2>5. 0 \in seen' \cup work'
    BY <2>1, <2>3
  <2>6. \A c \in seen' : successors(c)' \subseteq seen' \cup work'
    BY <2>1, <2>2, <2>3, <2>4
  <2>7. ASSUME NEW T \in SUBSET Block, 0 \in T, \A c \in T : successors(c)' \subseteq T
        PROVE  seen' \cup work' \subseteq T
    <3>1. \A c \in T : successors(c) \subseteq T
      BY <2>2, <2>7
    <3>2. seen \cup work \subseteq T
      BY <2>3, <2>7, <3>1
    <3> QED
      BY <1>3, <2>1, <3>1, <3>2
  <2>8. ReachInv'
    BY <2>1, <2>3, <2>5, <2>6, <2>7 DEF ReachInv
  <2> QED
    BY <1>1, <2>1, <2>8, InReach
<1>4. CASE ForwardReachableReturn
  <2>1. /\ pc = "reach" /\ work = {} /\ blocks' = blocks /\ work' = {} /\ seen' = {}
    BY <1>4 DEF ForwardReachableReturn, graphVars
  <2>2. Connected(seen) /\ 0 \in seen
    BY <1>1, <1>2, <2>1, ReachedIsConnected
  <2>3. order = << >> /\ stack = << >> /\ color = [c \in Block |-> 0]
    BY <1>2, <2>1 DEF ReachInv
  <2>4. ASSUME live' = seen PROVE Connected(live)' /\ 0 \in live'
    BY <2>1, <2>2, <2>4 DEF Connected, successors
  <2>5. CASE targets = None
    <3>1. StartTopo(seen)
      BY <1>4, <2>5 DEF ForwardReachableReturn
    <3>2. DfsInv'
      BY <1>1, <2>2, <2>3, <3>1, StartBeginsDfs
    <3>3. live' = seen /\ pc' = "topo"
      BY <3>1 DEF StartTopo
    <3>4. LiveInv'
      BY <2>4, <3>3 DEF LiveInv
    <3> QED
      BY <1>1, <3>2, <3>3, <3>4, InTopo
  <2>6. CASE targets # None
    <3>1. /\ pc' = "slice" /\ live' = seen /\ keep' = {0}
          /\ order' = order /\ stack' = stack /\ color' = color
      BY <1>4, <2>6 DEF ForwardReachableReturn, topoVars
    <3>2. SliceInv'
      BY <2>1, <2>2, <2>3, <2>4, <3>1 DEF SliceInv
    <3> QED
      BY <1>1, <3>1, <3>2, InSlice
  <2> QED
    BY <2>5, <2>6
<1>5. ASSUME pc = "slice", pc' = "slice", blocks' = blocks, live' = live
      PROVE  /\ Connected(live)' /\ 0 \in live'
             /\ \A b \in Block : preds(b)' = preds(b)
  BY <1>2, <1>5 DEF SliceInv, Connected, successors, preds
<1>6. ASSUME NEW t \in pending, NextTarget(t) PROVE OrderInv'
  <2>1. /\ pc = "slice" /\ pc' = "slice" /\ blocks' = blocks /\ live' = live
        /\ work = {} /\ seen' = {} /\ keep' = keep \cup seen /\ work' = {t} \cap live
        /\ order' = order /\ stack' = stack /\ color' = color
    BY <1>6 DEF NextTarget, graphVars, topoVars
  <2>2. keep \subseteq Block /\ seen \subseteq Block
    BY <1>1 DEF TypeOK
  <2>3. SliceInv'
    BY <1>2, <1>5, <2>1, <2>2 DEF SliceInv
  <2> QED
    BY <1>1, <2>1, <2>3, InSlice
<1>7. ASSUME NEW b \in work, SliceToStep(b) PROVE OrderInv'
  <2>1. /\ pc = "slice" /\ pc' = "slice" /\ blocks' = blocks /\ live' = live
        /\ keep' = keep /\ seen' = seen \cup {b}
        /\ work' = (work \ {b}) \cup
                   (IF b \in seen THEN {} ELSE (preds(b) \cap live) \ (seen \cup {b}))
        /\ order' = order /\ stack' = stack /\ color' = color
    BY <1>7 DEF SliceToStep, graphVars, topoVars
  <2>2. b \in Block /\ seen \subseteq Block /\ keep \subseteq Block
    BY <1>1 DEF TypeOK
  <2>3. \A c \in seen' : preds(c)' \cap live' \subseteq seen' \cup work'
    BY <1>2, <1>5, <2>1, <2>2 DEF SliceInv
  <2>4. keep' \cup seen' \cup work' \subseteq live'
    BY <1>2, <1>7, <2>1 DEF SliceInv
  <2>5. \A c \in keep' \ {0} : preds(c)' \cap live' \subseteq keep'
    BY <1>2, <1>5, <2>1, <2>2 DEF SliceInv
  <2>6. SliceInv'
    BY <1>2, <1>5, <2>1, <2>3, <2>4, <2>5 DEF SliceInv
  <2> QED
    BY <1>1, <2>1, <2>6, InSlice
<1>8. CASE BlockSliceReturn
  <2>1. /\ pc = "slice" /\ work = {} /\ blocks' = blocks
        /\ StartTopo(keep \cup seen)
    BY <1>8 DEF BlockSliceReturn, graphVars
  <2>2. pc' = "topo" /\ live' = keep \cup seen
    BY <2>1 DEF StartTopo
  <2>3. /\ keep \cup seen \subseteq live /\ 0 \in keep \cup seen /\ Connected(live)
        /\ \A b \in (keep \cup seen) \ {0} : preds(b) \cap live \subseteq keep \cup seen
        /\ order = << >> /\ stack = << >> /\ color = [b \in Block |-> 0]
    BY <1>2, <2>1 DEF SliceInv
  <2>4. Connected(keep \cup seen)
    BY <1>1, <2>3, SliceIsConnected
  <2>5. LiveInv'
    BY <2>1, <2>2, <2>3, <2>4 DEF LiveInv, Connected, successors
  <2>6. DfsInv'
    BY <1>1, <2>1, <2>3, StartBeginsDfs
  <2> QED
    BY <1>1, <2>2, <2>5, <2>6, InTopo
<1>9. ASSUME pc = "topo", pc' = "topo", blocks' = blocks, live' = live, DfsInv'
      PROVE  OrderInv'
  BY <1>1, <1>2, <1>9, ConnectedKept, InTopo
<1>10. CASE TopoFinish
  BY <1>1, <1>2, <1>9, <1>10, FinishKeepsDfs DEF TopoFinish, graphVars, walkVars
<1>11. CASE TopoSkip
  BY <1>1, <1>2, <1>9, <1>11, SkipKeepsDfs DEF TopoSkip, graphVars, walkVars
<1>12. CASE TopoExpand
  BY <1>1, <1>2, <1>9, <1>12, ExpandKeepsDfs DEF TopoExpand, graphVars, walkVars
<1>13. CASE TopoCycle
  <2>1. pc' = "cycle"
    BY <1>13 DEF TopoCycle
  <2> QED
    BY <1>1, <2>1 DEF OrderInv, ReachInv, SliceInv, LiveInv, DfsInv, TopologicalOrder, Sorted,
                      SortCoversLive
<1>14. CASE TopoReturn
  <2>1. pc' = "anc" /\ TopologicalOrder'
    BY <1>1, <1>2, <1>14, ReturnSorts
  <2>2. LiveInv'
    BY <1>2, <1>14, ConnectedKept DEF TopoReturn, graphVars, walkVars
  <2> QED
    BY <1>1, <2>1, <2>2, InSorted
<1>15. ASSUME pc = "anc", pc' \in {"anc", "done"}, blocks' = blocks, live' = live, order' = order
      PROVE  OrderInv'
  <2>1. LiveInv'
    BY <1>2, <1>15, ConnectedKept
  <2>2. TopologicalOrder'
    BY <1>2, <1>15 DEF TopologicalOrder, Sorted, successors
  <2> QED
    BY <1>1, <1>15, <2>1, <2>2, InSorted
<1>16. CASE AncestorsStep
  BY <1>15, <1>16 DEF AncestorsStep, graphVars, walkVars, topoVars
<1>17. CASE AncestorsReturn
  BY <1>15, <1>17 DEF AncestorsReturn, graphVars, walkVars, topoVars
<1>18. CASE UNCHANGED vars
  <2> USE <1>18 DEF vars
  <2>1. ReachInv'
    BY <1>2 DEF ReachInv, successors
  <2>2. SliceInv'
    BY <1>2 DEF SliceInv, Connected, preds, successors
  <2>3. LiveInv'
    BY <1>2 DEF LiveInv, Connected, successors
  <2>4. DfsInv'
    <3>1. GrayInv' = GrayInv
      BY DEF GrayInv
    <3>2. SuccessorInv' = SuccessorInv
      BY DEF SuccessorInv, successors
    <3>3. PostorderInv' = PostorderInv
      BY DEF PostorderInv, successors
    <3>4. EntryInv' = EntryInv
      BY DEF EntryInv
    <3> QED
      BY <1>2, <3>1, <3>2, <3>3, <3>4 DEF DfsInv
  <2>5. TopologicalOrder' /\ SortCoversLive'
    BY <1>2 DEF TopologicalOrder, Sorted, SortCoversLive, successors
  <2> QED
    BY <1>1, <2>1, <2>2, <2>3, <2>4, <2>5 DEF OrderInv
<1> QED
  BY <1>3, <1>4, <1>6, <1>7, <1>8, <1>10, <1>11, <1>12, <1>13, <1>14, <1>16, <1>17, <1>18
  DEF Next, Ended

\* The inductive invariant holds in every state of the passes.
THEOREM OrderInvariant == Spec => []OrderInv
BY OrderInit, OrderStep, PTL DEF Spec

\* Whatever the CFG and the targets, topo_order returns each live block once
\* and every edge between live blocks leads forward in what it returns.
THEOREM OrderIsTopological == Spec => []TopologicalOrder
<1>1. OrderInv => TopologicalOrder
  BY DEF OrderInv
<1> QED
  BY <1>1, OrderInvariant, PTL

\* Whatever the CFG and the targets, the coverage RuntimeError of topo_order
\* is never raised.
THEOREM CoverageErrorIsDead == Spec => []SortCoversLive
<1>1. OrderInv => SortCoversLive
  BY DEF OrderInv
<1> QED
  BY <1>1, OrderInvariant, PTL

=============================================================================
