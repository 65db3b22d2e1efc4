----------------------------- MODULE PktViewProofs -----------------------------
(***************************************************************************)
(* The packet views of PktView, for every program: the view Tracker names  *)
(* is the view of the run, bounds checks and tests of adjust results go    *)
(* the way the run goes, and a program that reloads its pointers is not    *)
(* refused.                                                                *)
(***************************************************************************)
EXTENDS PktView, SequenceTheorems, TLAPS

-----------------------------------------------------------------------------
(* The operators. *)

\* A view is not one of the two values that stand for the lack of one.
LEMMA ViewFacts ==
  /\ Entry \in View /\ Site \subseteq View /\ View \subseteq Known /\ None \in Known
  /\ NoPtr \notin Known /\ None # NoPtr /\ None \notin View
  /\ None \notin Block /\ None \notin Int
  BY NAssumption, NoneAssumption DEF Known, View, Site, Entry, NoPtr, Block

\* The program's tables, and where its edges go.
LEMMA ProgFacts ==
  ASSUME prog \in Programs, NEW b \in Block
  PROVE  /\ prog.ops[b] \in Seq(Op) /\ prog.cond[b] \in Cond
         /\ prog.t[b] \in Block \cup {None} /\ prog.f[b] \in Block \cup {None}
         /\ prog.t[b] # None => prog.t[b] > b
         /\ prog.f[b] # None => prog.f[b] > b /\ prog.f[b] # prog.entry
  BY ProgramsAssumption DEF Program

\* A block's predecessors are tracked before it.
LEMMA PredsFacts ==
  ASSUME prog \in Programs, NEW b \in Block, NEW p \in preds(b)
  PROVE  p \in Block /\ p < b /\ (prog.t[p] = b \/ prog.f[p] = b)
<1>1. p \in Block /\ (prog.t[p] = b \/ prog.f[p] = b)
  BY DEF preds
<1>2. b # None
  BY ViewFacts
<1> QED
  BY <1>1, <1>2, ProgFacts DEF Block

\* agreed returns the one member, or the other value.
LEMMA AgreedFacts ==
  ASSUME NEW S, NEW other
  PROVE  /\ \A v \in S : S = {v} => agreed(S, other) = v
         /\ ~(\E v \in S : S = {v}) => agreed(S, other) = other
         /\ agreed(S, other) # other => S = {agreed(S, other)}
<1>1. ASSUME NEW v \in S, S = {v} PROVE agreed(S, other) = v
  <2>1. agreed(S, other) = CHOOSE x \in S : TRUE
    BY <1>1 DEF agreed
  <2> QED
    BY <1>1, <2>1
<1>2. ~(\E v \in S : S = {v}) => agreed(S, other) = other
  BY DEF agreed
<1> QED
  BY <1>1, <1>2

isHead(o) == o.op = "adjust" /\ o.kind = "head"

\* What one instruction does to Tracker's state.
LEMMA TrackOpFacts ==
  ASSUME NEW s \in State, NEW o \in Op, NEW i \in Site
  PROVE  LET t == track_op(s, o, i) IN
         /\ t \in State
         /\ t.ctx = IF isHead(o) THEN None ELSE s.ctx
         /\ t.p = IF o.op = "data" THEN s.ctx ELSE s.p
         /\ t.e = IF o.op = "end" THEN s.ctx ELSE s.e
         /\ o.op \in {"data", "end", "add"} => t.r = s.r
         /\ o.op \notin {"data", "end", "add"} => t.r.idx = i /\ (t.r.is = "ret" <=> o.op = "adjust")
         /\ t.r.is = "unencodable" => o.op = "diff" \/ s.r.is = "unencodable"
         /\ t.pending = IF isHead(o) THEN [idx |-> i, before |-> s.ctx] ELSE s.pending
<1> DEFINE t == track_op(s, o, i)
<1>1. /\ s.ctx \in Known /\ s.p \in Known \cup {NoPtr} /\ s.e \in Known \cup {NoPtr}
      /\ s.r \in Scalar /\ s.pending \in {None} \cup [idx : Site, before : Known]
  BY DEF State
<1>2. CASE o.op \in {"data", "end", "add"}
  BY <1>1, <1>2 DEF track_op, State, isHead
<1>3. CASE o.op \in {"read", "len", "diff"}
  <2>1. \A is \in {"byte", "len", "unencodable"} : value(is, i) \in Scalar
    BY DEF value, Scalar
  <2> QED
    BY <1>1, <1>3, <2>1 DEF track_op, State, isHead, value
<1>4. CASE o.op = "adjust"
  <2>1. value("ret", i) \in Scalar
    BY DEF value, Scalar
  <2>2. None \in Known /\ [idx |-> i, before |-> s.ctx] \in [idx : Site, before : Known]
    BY <1>1, ViewFacts
  <2> QED
    BY <1>1, <1>4, <2>1, <2>2 DEF track_op, State, isHead, value
<1>5. o.op \in {"data", "end", "add", "read", "len", "diff", "adjust"}
  BY DEF Op
<1> QED
  BY <1>2, <1>3, <1>4, <1>5

won(o, i, mc) == o.op = "adjust" /\ succeeds(i, o, mc)

\* What one instruction does to the machine.
LEMMA ExecFacts ==
  ASSUME NEW mc \in Machine, NEW o \in Op, NEW i \in Site, permitted(mc, o)
  PROVE  LET n == exec(mc, o, i) IN
         /\ n \in Machine
         /\ n.view = IF isHead(o) /\ won(o, i, mc) THEN i ELSE mc.view
         /\ n.p = CASE o.op = "data" -> mc.head [] o.op = "add" -> mc.p + o.d
                    [] o.op = "adjust" -> None [] OTHER -> mc.p
         /\ n.e = CASE o.op = "end" -> mc.tail [] o.op = "adjust" -> None [] OTHER -> mc.e
         /\ o.op \in {"data", "end", "add"} => n.r = mc.r
         /\ o.op = "adjust" => (n.r = 0 <=> won(o, i, mc))
         /\ n.head = IF isHead(o) /\ won(o, i, mc) THEN mc.head + o.d ELSE mc.head
         /\ n.tail = IF won(o, i, mc) /\ o.kind = "tail" THEN mc.tail + o.d ELSE mc.tail
<1> DEFINE n == exec(mc, o, i)
<1>1. /\ mc.head \in Int /\ mc.tail \in Int /\ mc.p \in Int \cup {None}
      /\ mc.e \in Int \cup {None} /\ mc.r \in Int \cup {None} /\ mc.view \in View
  BY DEF Machine
<1>2. o.op \in {"data", "end", "add", "read", "len", "diff", "adjust"}
  BY DEF Op
<1>3. CASE o.op \in {"data", "end"}
  BY <1>1, <1>3 DEF exec, Machine, isHead, won
<1>4. CASE o.op = "add"
  <2>1. o.d \in Int /\ mc.p \in Int
    BY <1>1, <1>4 DEF Op, permitted, uses_p
  <2> QED
    BY <1>1, <1>4, <2>1 DEF exec, Machine, isHead, won
<1>5. CASE o.op \in {"read", "len", "diff"}
  <2>1. o.op \in {"read", "diff"} => mc.p \in Int
    BY <1>1 DEF permitted, uses_p
  <2>2. o.op = "diff" => mc.e \in Int
    BY <1>1 DEF permitted, uses_p
  <2>3. CASE o.op = "read"
    BY <1>1, <2>3, <2>1 DEF exec, Machine, isHead, won
  <2>4. CASE o.op = "len"
    BY <1>1, <2>4 DEF exec, Machine, isHead, won
  <2>5. CASE o.op = "diff"
    BY <1>1, <2>5, <2>1, <2>2 DEF exec, Machine, isHead, won
  <2> QED
    BY <1>5, <2>3, <2>4, <2>5
<1>6. CASE o.op = "adjust"
  <2>1. o.d \in Int /\ o.kind \in {"head", "tail", "meta"}
    BY <1>6 DEF Op
  <2>2. CASE succeeds(i, o, mc)
    <3> DEFINE h == IF o.kind = "head" THEN mc.head + o.d ELSE mc.head
               t == IF o.kind = "tail" THEN mc.tail + o.d ELSE mc.tail
               v == IF o.kind = "head" THEN i ELSE mc.view
    <3>1. n = [head |-> h, tail |-> t, p |-> None, e |-> None, r |-> 0, view |-> v]
      BY <1>6, <2>2 DEF exec
    <3>2. h \in Int /\ t \in Int /\ v \in View
      BY <1>1, <2>1, ViewFacts
    <3>3. /\ n \in Machine
          /\ n.p = None /\ n.e = None /\ n.r = 0
          /\ n.head = IF o.kind = "head" THEN mc.head + o.d ELSE mc.head
          /\ n.tail = IF o.kind = "tail" THEN mc.tail + o.d ELSE mc.tail
          /\ n.view = IF o.kind = "head" THEN i ELSE mc.view
      <4> HIDE DEF n, h, t, v
      <4>1. n \in Machine
        BY ONLY <3>1, <3>2 DEF Machine
      <4> QED
        BY ONLY <3>1, <4>1 DEF h, t, v
    <3>4. won(o, i, mc) /\ (isHead(o) <=> o.kind = "head")
      BY <1>6, <2>2 DEF won, isHead
    <3> HIDE DEF n
    <3>5. /\ n.p = CASE o.op = "data" -> mc.head [] o.op = "add" -> mc.p + o.d
                     [] o.op = "adjust" -> None [] OTHER -> mc.p
          /\ n.e = CASE o.op = "end" -> mc.tail [] o.op = "adjust" -> None [] OTHER -> mc.e
      BY ONLY <1>6, <3>3
    <3> QED
      BY <1>6, <3>3, <3>4, <3>5, Zenon DEF n
  <2>3. CASE ~succeeds(i, o, mc)
    <3>1. n = [head |-> mc.head, tail |-> mc.tail, p |-> None, e |-> None, r |-> -22,
               view |-> mc.view]
      BY <1>6, <2>3 DEF exec, EINVAL
    <3>2. /\ n \in Machine
          /\ n.p = None /\ n.e = None /\ n.r # 0
          /\ n.head = mc.head /\ n.tail = mc.tail /\ n.view = mc.view
      <4> HIDE DEF n
      <4>1. n \in Machine
        BY ONLY <1>1, <3>1 DEF Machine
      <4> QED
        BY ONLY <3>1, <4>1
    <3>3. ~won(o, i, mc)
      BY <2>3 DEF won
    <3> HIDE DEF n
    <3>4. /\ n.p = CASE o.op = "data" -> mc.head [] o.op = "add" -> mc.p + o.d
                     [] o.op = "adjust" -> None [] OTHER -> mc.p
          /\ n.e = CASE o.op = "end" -> mc.tail [] o.op = "adjust" -> None [] OTHER -> mc.e
      BY ONLY <1>6, <3>2
    <3> QED
      BY <1>6, <3>2, <3>3, <3>4, Zenon DEF n
  <2> QED
    BY <2>2, <2>3
<1> QED
  BY <1>2, <1>3, <1>4, <1>5, <1>6

\* What one instruction does to the encoder's state.
LEMMA EncodeFacts ==
  ASSUME NEW z \in Encoder, NEW o \in Op, NEW i \in Site, NEW ok \in BOOLEAN
  PROVE  LET y == encode(z, o, i, ok) IN
         /\ y \in Encoder
         /\ o.op # "adjust" => y.ok = z.ok /\ y.len = z.len
         /\ o.op = "adjust" => (i \in y.ok <=> ok)
         /\ o.op = "adjust" /\ o.kind = "head" => y.len = IF ok THEN z.len - o.d ELSE z.len
         /\ o.op = "adjust" /\ o.kind = "tail" => y.len = IF ok THEN z.len + o.d ELSE z.len
         /\ o.op = "adjust" /\ o.kind = "meta" => y.len = z.len
         /\ y.off = CASE o.op = "data" -> 0 [] o.op = "add" -> z.off + o.d [] OTHER -> z.off
<1> DEFINE R == [is : {"value", "length"}, v : Int]
<1>1. z.len \in Int /\ z.ok \in SUBSET Site /\ z.off \in Int /\ z.r \in R
  BY DEF Encoder
<1>2. o.op \in {"data", "end", "add", "read", "len", "diff", "adjust"}
  BY DEF Op
<1>3. CASE o.op \in {"data", "end"}
  BY <1>1, <1>3 DEF encode, Encoder
<1>4. CASE o.op = "add"
  <2>1. o.d \in Int
    BY <1>4 DEF Op
  <2> QED
    BY <1>1, <1>4, <2>1 DEF encode, Encoder
<1>5. CASE o.op \in {"read", "len", "diff"}
  <2>1. bound_to(Headroom + z.off) \in R /\ length_less(0) \in R /\ length_less(z.off) \in R
    BY <1>1, FrameAssumption DEF bound_to, length_less
  <2> QED
    BY <1>1, <1>5, <2>1 DEF encode, Encoder
<1>6. CASE o.op = "adjust"
  <2>1. o.d \in Int /\ o.kind \in {"head", "tail", "meta"}
    BY <1>6 DEF Op
  <2>2. len_delta(o) = IF o.kind = "head" THEN o.d ELSE IF o.kind = "tail" THEN -o.d ELSE 0
    BY <2>1 DEF len_delta
  <2>3. bound_to(0) \in R /\ bound_to(-EINVAL) \in R
    BY DEF bound_to, EINVAL
  <2>4. CASE ok
    <3>1. encode(z, o, i, ok) = [z EXCEPT !.ok = @ \cup {i}, !.len = @ - len_delta(o), !.r = bound_to(0)]
      BY <1>6, <2>4 DEF encode
    <3>2. len_delta(o) \in Int
      BY <2>1, <2>2
    <3> DEFINE y == encode(z, o, i, ok)
    <3>3. /\ y \in Encoder /\ i \in y.ok
          /\ y.len = z.len - len_delta(o) /\ y.off = z.off
      <4> HIDE DEF y
      <4>1. z.ok \cup {i} \in SUBSET Site /\ z.len - len_delta(o) \in Int
        BY <1>1, <3>2
      <4> QED
        BY ONLY <1>1, <2>3, <3>1, <4>1, z \in Encoder DEF y, Encoder
    <3> HIDE DEF y
    <3>4. /\ o.kind = "head" => y.len = z.len - o.d
          /\ o.kind = "tail" => y.len = z.len + o.d
          /\ o.kind = "meta" => y.len = z.len
      BY ONLY <1>1, <2>1, <2>2, <3>3
    <3>5. y.off = CASE o.op = "data" -> 0 [] o.op = "add" -> z.off + o.d [] OTHER -> z.off
      BY ONLY <1>6, <3>3
    <3> QED
      BY <1>6, <2>4, <3>3, <3>4, <3>5, Zenon DEF y
  <2>5. CASE ~ok
    <3>1. encode(z, o, i, ok) = [z EXCEPT !.ok = @ \ {i}, !.len = @, !.r = bound_to(-EINVAL)]
      BY <1>6, <2>5 DEF encode
    <3> QED
      BY <1>1, <1>6, <2>1, <2>3, <2>5, <3>1 DEF Encoder
  <2> QED
    BY <2>4, <2>5
<1> QED
  BY <1>2, <1>3, <1>4, <1>5, <1>6

-----------------------------------------------------------------------------
(* Tracker. *)

\* The records of blk.
LEMMA BlkFacts ==
  ASSUME TypeOK, NEW b \in Block
  PROVE  /\ blk[b].at \in Seq(State) /\ blk[b].cond \in Condition
         /\ blk[b].t \in SUBSET Known /\ blk[b].f \in SUBSET Known
         /\ Len(blk[b].at) \in Nat
         /\ \A i \in 1 .. Len(blk[b].at) : blk[b].at[i] \in State
         /\ blk[b].at # << >> => Len(blk[b].at) \in 1 .. Len(blk[b].at) /\ last(b) \in State
<1>1. /\ blk[b].at \in Seq(State) /\ blk[b].cond \in Condition
      /\ blk[b].t \in SUBSET Known /\ blk[b].f \in SUBSET Known
  BY DEF TypeOK
<1>2. /\ Len(blk[b].at) \in Nat
      /\ \A i \in 1 .. Len(blk[b].at) : blk[b].at[i] \in State
      /\ blk[b].at # << >> => Len(blk[b].at) > 0
  BY <1>1, ElementOfSeq, EmptySeq, LenProperties
<1> QED
  BY <1>1, <1>2 DEF last

\* Changing the states of the block at hand.
LEMMA AtUpdate ==
  ASSUME TypeOK, NEW b \in Block, NEW x \in Seq(State), blk' = [blk EXCEPT ![b].at = x]
  PROVE  /\ blk' \in [Block -> [at : Seq(State), cond : Condition, t : SUBSET Known, f : SUBSET Known]]
         /\ blk'[b].at = x /\ blk'[b].cond = blk[b].cond
         /\ blk'[b].t = blk[b].t /\ blk'[b].f = blk[b].f
         /\ \A c \in Block \ {b} : blk'[c] = blk[c]
  BY DEF TypeOK

\* A block's predecessors are done when it is tracked.
LEMMA PredsDone ==
  ASSUME TypeOK, TrackInv, NEW b \in Block, b <= next, NEW p \in preds(b)
  PROVE  /\ p \in Block /\ p < b /\ p < next /\ (prog.t[p] = b \/ prog.f[p] = b)
         /\ blk[p].at # << >> /\ last(p) \in State
         /\ ctx_from(p, b) \in SUBSET Known /\ ctx_from(p, b) # {}
<1>1. p \in Block /\ p < b /\ (prog.t[p] = b \/ prog.f[p] = b)
  BY PredsFacts DEF TypeOK
<1>2. p < next
  BY <1>1 DEF TypeOK, Block
<1>3. Len(blk[p].at) = Len(prog.ops[p]) + 1
  BY <1>1, <1>2 DEF TrackInv, ended
<1>4. Len(prog.ops[p]) \in Nat
  BY <1>1, ProgFacts DEF TypeOK
<1>5. blk[p].at # << >>
  BY <1>3, <1>4
<1>6. last(p) \in State /\ blk[p].t \in SUBSET Known /\ blk[p].f \in SUBSET Known
  BY <1>1, <1>5, BlkFacts
<1>7. ctx_from(p, b) \in SUBSET Known /\ ctx_from(p, b) # {}
  BY <1>6 DEF ctx_from, fact_of, State
<1> QED
  BY <1>1, <1>2, <1>5, <1>6, <1>7

\* merge_entry: what is kept of a register is what every predecessor has.
LEMMA MergeFacts ==
  ASSUME TypeOK, TrackInv, NEW b \in Block, b <= next
  PROVE  /\ merge_ctx(b) \in Known
         /\ \A p \in preds(b) : merge_ctx(b) # None => ctx_from(p, b) = {merge_ctx(b)}
         /\ \A reg \in {"p", "e"} :
              /\ merge_ptr(b, reg) \in Known \cup {NoPtr}
              /\ \A p \in preds(b) : merge_ptr(b, reg) \in {NoPtr, last(p)[reg]}
         /\ merge_scalar(b) \in Scalar
         /\ \A p \in preds(b) : merge_scalar(b).is = "ret" => merge_scalar(b) = last(p).r
         /\ (\A p \in preds(b) : last(p).r.is # "unencodable") => merge_scalar(b).is # "unencodable"
<1>1. /\ merge_ctx(b) \in Known
      /\ \A p \in preds(b) : merge_ctx(b) # None => ctx_from(p, b) = {merge_ctx(b)}
  <2> DEFINE U == UNION {ctx_from(p, b) : p \in preds(b)}
  <2>1. merge_ctx(b) # None => U = {merge_ctx(b)}
    BY AgreedFacts DEF merge_ctx
  <2>2. U \subseteq Known
    BY PredsDone
  <2>3. \A p \in preds(b) : ctx_from(p, b) \subseteq U /\ ctx_from(p, b) # {}
    BY PredsDone
  <2> HIDE DEF U
  <2> QED
    BY <2>1, <2>2, <2>3, ViewFacts
<1>2. ASSUME NEW reg \in {"p", "e"}
      PROVE  /\ merge_ptr(b, reg) \in Known \cup {NoPtr}
             /\ \A p \in preds(b) : merge_ptr(b, reg) \in {NoPtr, last(p)[reg]}
  <2> DEFINE V == {last(p)[reg] : p \in preds(b)}
  <2>1. merge_ptr(b, reg) # NoPtr => V = {merge_ptr(b, reg)}
    BY AgreedFacts DEF merge_ptr
  <2>2. V \subseteq Known \cup {NoPtr}
    <3>1. \A p \in preds(b) : last(p).p \in Known \cup {NoPtr} /\ last(p).e \in Known \cup {NoPtr}
      BY PredsDone DEF State
    <3> QED
      BY <3>1
  <2>3. \A p \in preds(b) : last(p)[reg] \in V
    OBVIOUS
  <2> HIDE DEF V
  <2> QED
    BY <2>1, <2>2, <2>3
<1>3. /\ merge_scalar(b) \in Scalar
      /\ \A p \in preds(b) : merge_scalar(b).is = "ret" => merge_scalar(b) = last(p).r
      /\ (\A p \in preds(b) : last(p).r.is # "unencodable") => merge_scalar(b).is # "unencodable"
  <2> DEFINE V == {last(p).r : p \in preds(b)}
             w == value(IF \E v \in V : v.is = "unencodable" THEN "unencodable" ELSE "phi", <<b, 0>>)
  <2>1. V \subseteq Scalar
    BY PredsDone DEF State
  <2>2. /\ w \in Scalar /\ w.is \in {"unencodable", "phi"}
        /\ w.is = "unencodable" => \E v \in V : v.is = "unencodable"
    <3>1. <<b, 0>> \in Site
      BY DEF Site
    <3> HIDE DEF V
    <3> QED
      BY <3>1 DEF value, Scalar
  <2>3. none \in Scalar /\ none.is = "none"
    BY DEF none, value, Scalar
  <2>4. merge_scalar(b) = IF none \in V THEN none ELSE agreed(V, w)
    BY DEF merge_scalar
  <2>5. \A p \in preds(b) : last(p).r \in V
    OBVIOUS
  <2>6. \A v \in V : \E p \in preds(b) : v = last(p).r
    OBVIOUS
  <2>7. agreed(V, w) # w => V = {agreed(V, w)}
    BY AgreedFacts
  <2> HIDE DEF V, w
  <2>8. CASE none \in V
    BY <2>3, <2>4, <2>8
  <2>9. CASE none \notin V
    <3>1. merge_scalar(b) = agreed(V, w)
      BY <2>4, <2>9
    <3>2. CASE agreed(V, w) = w
      BY <2>2, <2>6, <3>1, <3>2
    <3>3. CASE agreed(V, w) # w
      BY <2>1, <2>5, <2>6, <2>7, <3>1, <3>3
    <3> QED
      BY <3>2, <3>3
  <2> QED
    BY <2>8, <2>9
<1> QED
  BY <1>1, <1>2, <1>3

\* A block's start, where Tracker was not refused.
LEMMA EntryFacts ==
  ASSUME TypeOK, TrackInv, next \in Block,
         ~(tail_entry(next) /\ \E v, w \in sites(next) : v # w)
  PROVE  LET s == entry_state(next) IN
         /\ s \in State /\ s.pending = None
         /\ next = 0 => s = fresh(Entry)
         /\ tail_entry(next) => s.p = NoPtr /\ s.e = NoPtr /\ s.r = none
         /\ \A p \in preds(next) :
              IF tail_entry(next) THEN s.ctx = last(p).ctx
              ELSE /\ s.ctx # None => ctx_from(p, next) = {s.ctx}
                   /\ s.p \in {NoPtr, last(p).p} /\ s.e \in {NoPtr, last(p).e}
                   /\ s.r.is = "ret" => s.r = last(p).r
         /\ ~tail_entry(next) /\ (\A p \in preds(next) : last(p).r.is # "unencodable")
              => s.r.is # "unencodable"
<1> DEFINE b == next
           s == entry_state(b)
<1>0. next <= next
  BY DEF TypeOK
<1>1. none \in Scalar /\ none.is = "none"
  BY DEF none, value, Scalar
<1>2. ASSUME NEW c \in Known
      PROVE  /\ fresh(c) \in State /\ fresh(c).ctx = c /\ fresh(c).p = NoPtr /\ fresh(c).e = NoPtr
             /\ fresh(c).r = none /\ fresh(c).pending = None
  BY <1>1 DEF fresh, State
<1>3. CASE b = 0
  <2>1. s = fresh(Entry) /\ ~tail_entry(b)
    BY <1>3 DEF entry_state, tail_entry
  <2>2. preds(b) = {}
    <3> SUFFICES ASSUME NEW p \in preds(b) PROVE FALSE
      OBVIOUS
    <3>1. p \in Block /\ p < b
      BY PredsFacts DEF TypeOK
    <3> QED
      BY <3>1, <1>3 DEF Block
  <2>3. Entry \in Known
    BY ViewFacts
  <2> QED
    BY <1>1, <1>2, <1>3, <2>1, <2>2, <2>3
<1>4. CASE tail_entry(b)
  <2>1. s = fresh(agreed(sites(b), Entry)) /\ b # 0
    BY <1>4 DEF entry_state, tail_entry
  <2>2. ASSUME NEW p \in preds(b) PROVE last(p).ctx \in sites(b)
    <3>1. p \in Block /\ (prog.t[p] = b \/ prog.f[p] = b)
      BY PredsFacts DEF TypeOK
    <3>2. b # None /\ b = prog.entry
      BY <1>4, ViewFacts DEF tail_entry
    <3>3. prog.t[p] = b
      BY <3>1, <3>2, ProgFacts DEF TypeOK
    <3> QED
      BY <3>3 DEF sites
  <2>3. sites(b) \subseteq Known
    BY <1>0, PredsDone DEF sites, State
  <2>4. \A v, w \in sites(b) : v = w
    BY <1>4
  <2>5. \A v \in sites(b) : agreed(sites(b), Entry) = v
    <3> SUFFICES ASSUME NEW v \in sites(b) PROVE agreed(sites(b), Entry) = v
      OBVIOUS
    <3>1. sites(b) = {v}
      BY <2>4
    <3> QED
      BY <3>1, AgreedFacts
  <2>6. agreed(sites(b), Entry) \in Known
    BY <2>3, <2>5, AgreedFacts, ViewFacts
  <2> QED
    BY <1>2, <1>4, <2>1, <2>2, <2>5, <2>6
<1>5. CASE b # 0 /\ ~tail_entry(b)
  <2>1. s = [ctx |-> merge_ctx(b), p |-> merge_ptr(b, "p"), e |-> merge_ptr(b, "e"),
             r |-> merge_scalar(b), pending |-> None]
    BY <1>5 DEF entry_state, tail_entry
  <2>2. /\ s.ctx = merge_ctx(b) /\ s.p = merge_ptr(b, "p") /\ s.e = merge_ptr(b, "e")
        /\ s.r = merge_scalar(b) /\ s.pending = None
    BY <2>1
  <2>3. /\ merge_ctx(b) \in Known
        /\ \A p \in preds(b) : merge_ctx(b) # None => ctx_from(p, b) = {merge_ctx(b)}
        /\ \A reg \in {"p", "e"} :
             /\ merge_ptr(b, reg) \in Known \cup {NoPtr}
             /\ \A p \in preds(b) : merge_ptr(b, reg) \in {NoPtr, last(p)[reg]}
        /\ merge_scalar(b) \in Scalar
        /\ \A p \in preds(b) : merge_scalar(b).is = "ret" => merge_scalar(b) = last(p).r
        /\ (\A p \in preds(b) : last(p).r.is # "unencodable") => merge_scalar(b).is # "unencodable"
    BY <1>0, MergeFacts
  <2>4. s \in State
    BY <2>1, <2>3 DEF State
  <2>5. \A p \in preds(b) : s.p \in {NoPtr, last(p).p} /\ s.e \in {NoPtr, last(p).e}
    BY <2>2, <2>3
  <2> HIDE DEF s
  <2> QED
    BY <1>5, <2>2, <2>3, <2>4, <2>5 DEF s
<1> QED
  BY <1>3, <1>4, <1>5

\* A block's start stands as long as its predecessors do.
LEMMA JoinedKept ==
  ASSUME prog \in Programs, NEW b \in Block, joined(b), prog' = prog,
         blk'[b].at[1] = blk[b].at[1],
         \A p \in Block : p < b => blk'[p] = blk[p]
  PROVE  joined(b)'
<1>1. preds(b)' = preds(b) /\ (tail_entry(b)' <=> tail_entry(b))
  BY DEF preds, tail_entry
<1>2. ASSUME NEW p \in preds(b)
      PROVE  last(p)' = last(p) /\ ctx_from(p, b)' = ctx_from(p, b)
  <2>1. blk'[p] = blk[p]
    BY PredsFacts
  <2> QED
    BY <2>1 DEF last, ctx_from, fact_of, edge
<1> DEFINE s == blk[b].at[1]
<1>3. s' = s
  OBVIOUS
<1>4. \A p \in preds(b)' :
        IF tail_entry(b)' THEN s'.ctx = last(p)'.ctx
        ELSE /\ s'.ctx # None => ctx_from(p, b)' = {s'.ctx}
             /\ s'.p \in {NoPtr, last(p)'.p} /\ s'.e \in {NoPtr, last(p)'.e}
             /\ s'.r.is = "ret" => s'.r = last(p)'.r
  <2> HIDE DEF s
  <2> QED
    BY <1>1, <1>2, <1>3 DEF joined, s
<1>5. /\ s'.pending = None
      /\ b = 0 => s' = fresh(Entry)
      /\ tail_entry(b)' => s'.p = NoPtr /\ s'.e = NoPtr /\ s'.r = none
  BY <1>1, <1>3, Zenon DEF joined
<1> QED
  BY <1>4, <1>5, Zenon DEF joined

\* A block that a step does not touch.
LEMMA BlockKept ==
  ASSUME NEW b \in Block, prog' = prog, blk'[b] = blk[b]
  PROVE  (ended(b) => ended(b)') /\ (steps(b) => steps(b)')
<1>1. branch(b)' <=> branch(b)
  BY DEF branch
<1>2. last(b)' = last(b)
  BY DEF last
<1>3. ended(b) => ended(b)'
  BY <1>1, <1>2, Zenon DEF ended
<1>4. steps(b) => steps(b)'
  BY Zenon DEF steps
<1> QED
  BY <1>3, <1>4

\* One more state of the block at hand.
LEMMA StepsGrow ==
  ASSUME TypeOK, TrackInv, NEW b \in Block, prog' = prog,
         NEW n \in 1 .. Len(prog.ops[b]), Len(blk[b].at) = n,
         blk'[b].at = Append(blk[b].at, track_op(blk[b].at[n], prog.ops[b][n], <<b, n>>))
  PROVE  /\ steps(b)' /\ blk'[b].at[1] = blk[b].at[1]
         /\ Append(blk[b].at, track_op(blk[b].at[n], prog.ops[b][n], <<b, n>>)) \in Seq(State)
<1> DEFINE at == blk[b].at
           o == prog.ops[b][n]
           x == track_op(at[n], o, <<b, n>>)
<1>1. at \in Seq(State) /\ Len(at) \in Nat /\ at[n] \in State
  BY BlkFacts
<1>2. prog.ops[b] \in Seq(Op) /\ Len(prog.ops[b]) \in Nat /\ o \in Op
  <2>1. prog.ops[b] \in Seq(Op)
    BY ProgFacts DEF TypeOK
  <2> QED
    BY <2>1, ElementOfSeq
<1>3. n \in Nat \ {0} /\ <<b, n>> \in Site
  BY <1>2 DEF Site
<1>5. steps(b)
  BY DEF TrackInv
<1> HIDE DEF at, o
<1>4. /\ x \in State
      /\ x.pending = IF isHead(o) THEN [idx |-> <<b, n>>, before |-> at[n].ctx] ELSE at[n].pending
  BY ONLY <1>1, <1>2, <1>3, TrackOpFacts
<1> HIDE DEF x
<1>6. at' = Append(at, x)
  BY Zenon DEF at, o, x
<1>7. /\ at' \in Seq(State) /\ Len(at') = n + 1
      /\ \A i \in 1 .. n : at'[i] = at[i]
      /\ at'[n + 1] = x
  <2>1. Len(at) = n
    BY DEF at
  <2>2. /\ Append(at, x) \in Seq(State) /\ Len(Append(at, x)) = n + 1
        /\ \A i \in 1 .. n : Append(at, x)[i] = at[i]
        /\ Append(at, x)[n + 1] = x
    BY ONLY <1>1, <1>3, <1>4, <2>1, AppendProperties
  <2> QED
    BY ONLY <1>6, <2>2
<1>8. ASSUME NEW i \in 1 .. n
      PROVE  at'[i + 1] = track_op(at'[i], prog.ops[b][i], <<b, i>>)
  <2>1. CASE i = n
    BY <1>3, <1>7, <2>1 DEF x, o
  <2>2. CASE i # n
    <3>1. i \in 1 .. n - 1 /\ i + 1 \in 1 .. n /\ n = Len(at)
      BY <2>2, <1>3 DEF at
    <3>2. at[i + 1] = track_op(at[i], prog.ops[b][i], <<b, i>>)
      BY <1>5, <3>1 DEF steps, at
    <3> QED
      BY <3>1, <3>2, <1>7
  <2> QED
    BY <2>1, <2>2
<1>9. ASSUME NEW i \in 1 .. n, at[i].pending # None
      PROVE  at[i].pending.idx[1] = b /\ at[i].pending.idx[2] < i
  BY <1>5, <1>9 DEF steps, at
<1>10. x.pending # None => x.pending.idx[1] = b /\ x.pending.idx[2] < n + 1
  <2>1. CASE isHead(o)
    <3>1. x.pending.idx = <<b, n>>
      BY <1>4, <2>1
    <3> QED
      BY <3>1, <1>3
  <2>2. CASE ~isHead(o)
    <3>1. x.pending = at[n].pending
      BY <1>4, <2>2
    <3>2. CASE at[n].pending = None
      BY <3>1, <3>2
    <3>3. CASE at[n].pending # None
      <4>1. at[n].pending.idx[1] = b /\ at[n].pending.idx[2] < n
        BY <1>3, <1>9, <3>3
      <4>2. at[n].pending.idx[2] \in Nat
        BY <1>1, <3>3 DEF State, Site
      <4> QED
        BY <3>1, <4>1, <4>2, <1>3
    <3> QED
      BY <3>2, <3>3
  <2> QED
    BY <2>1, <2>2
<1>11. \A i \in 1 .. n + 1 : at'[i].pending # None =>
          at'[i].pending.idx[1] = b /\ at'[i].pending.idx[2] < i
  <2> SUFFICES ASSUME NEW i \in 1 .. n + 1, at'[i].pending # None
               PROVE  at'[i].pending.idx[1] = b /\ at'[i].pending.idx[2] < i
    OBVIOUS
  <2>1. CASE i = n + 1
    BY <2>1, <1>7, <1>10
  <2>2. CASE i # n + 1
    <3>1. i \in 1 .. n
      BY <2>2, <1>3
    <3> QED
      BY <3>1, <1>7, <1>9
  <2> QED
    BY <2>1, <2>2
<1>12. blk'[b].at = at' /\ n + 1 <= Len(prog.ops[b]) + 1 /\ (n + 1) - 1 = n
  <2>1. n + 1 <= Len(prog.ops[b]) + 1 /\ (n + 1) - 1 = n
    BY <1>2, <1>3
  <2> QED
    BY <1>6, <2>1 DEF at, o, x
<1>13. steps(b)'
  <2> DEFINE w == at'
  <2>1. /\ w \in Seq(State) /\ Len(w) = n + 1 /\ prog'.ops[b] = prog.ops[b] /\ blk'[b].at = w
        /\ \A i \in 1 .. n : w[i + 1] = track_op(w[i], prog.ops[b][i], <<b, i>>)
        /\ \A i \in 1 .. n + 1 : w[i].pending # None => w[i].pending.idx[1] = b /\ w[i].pending.idx[2] < i
    BY <1>7, <1>8, <1>11, <1>12
  <2> HIDE DEF w
  <2> QED
    BY ONLY <2>1, <1>12, Zenon DEF steps
<1>14. at'[1] = at[1] /\ Append(at, x) \in Seq(State)
  BY ONLY <1>3, <1>6, <1>7
<1> QED
  BY <1>13, <1>14, <1>12, Zenon DEF at, o, x

\* The invariant of Tracker after a step that touches only the block at hand.
LEMMA TrackKept ==
  ASSUME TypeOK, TrackInv, next \in Block, prog' = prog, next' = next,
         \A c \in Block \ {next} : blk'[c] = blk[c],
         blk'[next].t = blk[next].t, blk'[next].f = blk[next].f,
         steps(next)', joined(next)'
  PROVE  TrackInv'
<1> SUFFICES ASSUME NEW b \in Block
             PROVE  /\ b > next => blk'[b].at = << >>
                    /\ b < next => ended(b)'
                    /\ b >= next => blk'[b].t = {} /\ blk'[b].f = {}
                    /\ steps(b)'
                    /\ blk'[b].at # << >> => joined(b)'
  BY DEF TrackInv
<1>0. next \in Int /\ b \in Int
  BY DEF Block
<1>1. CASE b = next
  <2>1. blk'[b].t = {} /\ blk'[b].f = {}
    BY <1>0, <1>1 DEF TrackInv
  <2>2. steps(b)' /\ joined(b)'
    BY <1>1, Zenon
  <2>3. ~(b > next) /\ ~(b < next)
    BY <1>0, <1>1
  <2> QED
    BY <2>1, <2>2, <2>3
<1>2. CASE b # next
  <2>1. blk'[b] = blk[b]
    BY <1>2
  <2>2. /\ b > next => blk[b].at = << >>
        /\ b < next => ended(b)
        /\ b >= next => blk[b].t = {} /\ blk[b].f = {}
        /\ steps(b)
        /\ blk[b].at # << >> => joined(b)
    BY DEF TrackInv
  <2>3. (b < next => ended(b)') /\ steps(b)'
    BY <2>1, <2>2, BlockKept
  <2>4. blk[b].at # << >> => joined(b)'
    <3> SUFFICES ASSUME blk[b].at # << >> PROVE joined(b)'
      OBVIOUS
    <3>1. b < next
      BY <1>0, <1>2, <2>2
    <3>2. \A p \in Block : p < b => blk'[p] = blk[p]
      BY <3>1 DEF Block
    <3> QED
      BY <2>1, <2>2, <3>2, JoinedKept DEF TypeOK
  <2> QED
    BY <2>1, <2>2, <2>3, <2>4
<1> QED
  BY <1>1, <1>2

\* What a step of Tracker leaves alone.
LEMMA TypeKept ==
  ASSUME TypeOK, UNCHANGED <<inputs, run>>, next' \in 0 .. N,
         blk' \in [Block -> [at : Seq(State), cond : Condition, t : SUBSET Known, f : SUBSET Known]]
  PROVE  TypeOK'
  BY DEF TypeOK, inputs, run

\* A step that leaves Tracker's results alone.
LEMMA TrackFrame ==
  ASSUME prog \in Programs, TrackInv, prog' = prog, next' = next, blk' = blk
  PROVE  TrackInv'
<1> SUFFICES ASSUME NEW b \in Block
             PROVE  /\ b > next => blk'[b].at = << >>
                    /\ b < next => ended(b)'
                    /\ b >= next => blk'[b].t = {} /\ blk'[b].f = {}
                    /\ steps(b)'
                    /\ blk'[b].at # << >> => joined(b)'
  BY DEF TrackInv
<1>1. /\ b > next => blk[b].at = << >>
      /\ b < next => ended(b)
      /\ b >= next => blk[b].t = {} /\ blk[b].f = {}
      /\ steps(b)
      /\ blk[b].at # << >> => joined(b)
  BY DEF TrackInv
<1>2. (ended(b) => ended(b)') /\ (steps(b) => steps(b)')
  BY BlockKept
<1>3. joined(b) => joined(b)'
  BY JoinedKept
<1> QED
  BY <1>1, <1>2, <1>3

\* The start of a block.
LEMMA TrackEntryStep ==
  ASSUME TypeOK, TrackInv, TrackEntry
  PROVE  TypeOK' /\ TrackInv'
<1>1. next \in Block /\ blk[next].at = << >> /\ next \in 0 .. N
  <2>1. next < N /\ next \in 0 .. N /\ blk[next].at = << >>
    BY DEF TrackEntry, TypeOK
  <2> QED
    BY <2>1, NAssumption DEF Block
<1>2. UNCHANGED <<inputs, next, run>> /\ prog' = prog
  BY DEF TrackEntry, inputs
<1>3. CASE tail_entry(next) /\ \E v, w \in sites(next) : v # w
  <2>1. blk' = blk
    BY <1>3 DEF TrackEntry
  <2>2. TypeOK'
    BY <1>1, <1>2, <2>1, TypeKept DEF TypeOK
  <2>3. TrackInv'
    BY <1>2, <2>1, TrackFrame DEF TypeOK
  <2> QED
    BY <2>2, <2>3
<1>4. CASE ~(tail_entry(next) /\ \E v, w \in sites(next) : v # w)
  <2> DEFINE s == entry_state(next)
             b == next
  <2>1. blk' = [blk EXCEPT ![next].at = <<s>>]
    BY <1>4 DEF TrackEntry
  <2>2. /\ s \in State /\ s.pending = None
        /\ b = 0 => s = fresh(Entry)
        /\ tail_entry(b) => s.p = NoPtr /\ s.e = NoPtr /\ s.r = none
        /\ \A p \in preds(b) :
             IF tail_entry(b) THEN s.ctx = last(p).ctx
             ELSE /\ s.ctx # None => ctx_from(p, b) = {s.ctx}
                  /\ s.p \in {NoPtr, last(p).p} /\ s.e \in {NoPtr, last(p).e}
                  /\ s.r.is = "ret" => s.r = last(p).r
    BY <1>1, <1>4, EntryFacts
  <2> HIDE DEF s
  <2>3. <<s>> \in Seq(State) /\ Len(<<s>>) = 1 /\ <<s>>[1] = s
    BY <2>2
  <2>4. /\ blk' \in [Block -> [at : Seq(State), cond : Condition, t : SUBSET Known, f : SUBSET Known]]
        /\ blk'[b].at = <<s>> /\ blk'[b].cond = blk[b].cond
        /\ blk'[b].t = blk[b].t /\ blk'[b].f = blk[b].f
        /\ \A c \in Block \ {b} : blk'[c] = blk[c]
    BY <1>1, <2>1, <2>3, AtUpdate
  <2>5. TypeOK'
    BY <1>1, <1>2, <2>4, TypeKept
  <2>6. steps(next)'
    <3>1. Len(prog.ops[next]) \in Nat
      BY <1>1, ProgFacts DEF TypeOK
    <3>2. /\ blk'[next'].at = <<s>> /\ prog'.ops[next'] = prog.ops[next]
      BY <1>2, <2>4
    <3>3. /\ Len(<<s>>) <= Len(prog.ops[next]) + 1
          /\ 1 .. Len(<<s>>) - 1 = {} /\ 1 .. Len(<<s>>) = {1}
      BY <2>3, <3>1
    <3> QED
      BY <2>2, <2>3, <3>2, <3>3 DEF steps
  <2>7. joined(next)'
    <3>1. next' = next /\ preds(next)' = preds(next) /\ (tail_entry(next)' <=> tail_entry(next))
      BY <1>2 DEF preds, tail_entry
    <3>2. ASSUME NEW p \in preds(next)
          PROVE  last(p)' = last(p) /\ ctx_from(p, next)' = ctx_from(p, next)
      <4>1. p \in Block /\ p < next /\ next \in Int
        BY <1>1, PredsFacts DEF TypeOK, Block
      <4>2. p # next
        BY <4>1 DEF Block
      <4>3. blk'[p] = blk[p]
        BY <2>4, <4>1, <4>2
      <4> QED
        BY <1>2, <4>3 DEF last, ctx_from, fact_of, edge
    <3>3. blk'[next'].at[1] = s
      BY <2>3, <2>4, <3>1
    <3>4. \A p \in preds(next)' :
            IF tail_entry(next)' THEN s.ctx = last(p)'.ctx
            ELSE /\ s.ctx # None => ctx_from(p, next)' = {s.ctx}
                 /\ s.p \in {NoPtr, last(p)'.p} /\ s.e \in {NoPtr, last(p)'.e}
                 /\ s.r.is = "ret" => s.r = last(p)'.r
      BY <2>2, <3>1, <3>2
    <3> QED
      BY <2>2, <3>1, <3>3, <3>4, Zenon DEF joined
  <2>8. TrackInv'
    BY <1>1, <1>2, <2>4, <2>6, <2>7, TrackKept
  <2> QED
    BY <2>5, <2>8
<1> QED
  BY <1>3, <1>4

\* One instruction.
LEMMA TrackOpStep ==
  ASSUME TypeOK, TrackInv, TrackOp
  PROVE  TypeOK' /\ TrackInv'
<1> DEFINE n == Len(blk[next].at)
           x == Append(blk[next].at, track_op(blk[next].at[n], prog.ops[next][n], <<next, n>>))
<1>1. next \in Block /\ next \in 0 .. N /\ n \in 1 .. Len(prog.ops[next])
  <2>1. next < N /\ next \in 0 .. N /\ n \in 1 .. Len(prog.ops[next])
    BY DEF TrackOp, TypeOK
  <2> QED
    BY <2>1, NAssumption DEF Block
<1>2. UNCHANGED <<inputs, next, run>> /\ prog' = prog
  BY DEF TrackOp, inputs
<1>3. blk' = [blk EXCEPT ![next].at = x]
  BY DEF TrackOp
<1>4. next \in DOMAIN blk /\ "at" \in DOMAIN blk[next]
  BY <1>1 DEF TypeOK
<1>5. blk'[next].at = x
  BY <1>3, <1>4
<1>6. \A c \in Block : c = next =>
        steps(c)' /\ blk'[c].at[1] = blk[c].at[1] /\ x \in Seq(State)
  BY <1>1, <1>2, <1>5, StepsGrow
<1> HIDE DEF x
<1>7. /\ blk' \in [Block -> [at : Seq(State), cond : Condition, t : SUBSET Known, f : SUBSET Known]]
      /\ blk'[next].t = blk[next].t /\ blk'[next].f = blk[next].f
      /\ \A c \in Block \ {next} : blk'[c] = blk[c]
  BY <1>1, <1>3, <1>6, AtUpdate
<1>8. TypeOK'
  BY <1>1, <1>2, <1>7, TypeKept
<1>9. \A c \in Block : c = next => joined(c)'
  <2> SUFFICES ASSUME NEW c \in Block, c = next PROVE joined(c)'
    OBVIOUS
  <2>1. blk[c].at # << >>
    BY <1>1
  <2>2. joined(c)
    BY <2>1 DEF TrackInv
  <2>3. \A p \in Block : p < c => blk'[p] = blk[p]
    BY <1>7 DEF Block
  <2> QED
    BY <1>2, <1>6, <2>2, <2>3, JoinedKept DEF TypeOK
<1>10. steps(next)' /\ joined(next)'
  <2>1. PICK c \in Block : c = next
    BY <1>1
  <2>2. c = next'
    BY <1>2, <2>1
  <2> QED
    BY <1>6, <1>9, <2>1, <2>2, Zenon
<1> QED
  BY <1>1, <1>2, <1>7, <1>8, <1>10, TrackKept

\* The conditions and facts a branch leaves.
LEMMA TrackBranchFacts ==
  ASSUME NEW s \in State, NEW c \in Cond
  PROVE  LET br == track_branch(s, c) IN
         /\ br.cond \in Condition /\ br.t \in SUBSET Known /\ br.f \in SUBSET Known
         /\ c.on # "ret" => br.t = {} /\ br.f = {}
         /\ c.on = "ret" /\ s.r.is # "ret" => br.cond.is = "zero" /\ br.t = {} /\ br.f = {}
         /\ c.on = "bound" => br.cond = [is |-> "bound", code |-> c.code, left |-> c.left]
         /\ c.on \in {"tail", "free"} => br.cond = None
         /\ c.on = "ret" /\ s.r.is = "ret" =>
              /\ br.cond = [is |-> "adjust_ok", idx |-> s.r.idx,
                            ok |-> IF c.code = "JEQ" THEN "taken" ELSE "fall"]
              /\ IF s.pending # None /\ s.pending.idx = s.r.idx
                 THEN /\ br.t = {IF c.code = "JEQ" THEN s.r.idx ELSE s.pending.before}
                      /\ br.f = {IF c.code = "JEQ" THEN s.pending.before ELSE s.r.idx}
                 ELSE br.t = {} /\ br.f = {}
<1> DEFINE br == track_branch(s, c)
<1>1. s.r \in Scalar /\ s.pending \in {None} \cup [idx : Site, before : Known]
  BY DEF State
<1>2. s.r.idx \in Site \cup {None}
  BY <1>1 DEF Scalar
<1>3. CASE c.on = "ret" /\ s.r.is = "ret"
  <2>1. c.code \in {"JEQ", "JNE"}
    BY <1>3 DEF Cond
  <2> DEFINE ok_edge == IF c.code = "JEQ" THEN "taken" ELSE "fall"
             fact == s.pending # None /\ s.pending.idx = s.r.idx
  <2>2. br = [cond |-> [is |-> "adjust_ok", idx |-> s.r.idx, ok |-> ok_edge],
              t |-> IF fact THEN adjust_facts(s, ok_edge, "taken") ELSE {},
              f |-> IF fact THEN adjust_facts(s, ok_edge, "fall") ELSE {}]
    BY <1>3 DEF track_branch
  <2>3. [is |-> "adjust_ok", idx |-> s.r.idx, ok |-> ok_edge] \in Condition
    BY <1>2 DEF Condition
  <2>4. fact => s.pending.before \in Known /\ s.r.idx \in Known
    BY <1>1, ViewFacts
  <2>5. CASE fact
    <3>1. /\ adjust_facts(s, ok_edge, "taken") = {IF c.code = "JEQ" THEN s.r.idx ELSE s.pending.before}
          /\ adjust_facts(s, ok_edge, "fall") = {IF c.code = "JEQ" THEN s.pending.before ELSE s.r.idx}
      BY <2>1 DEF adjust_facts
    <3>2. /\ br.cond = [is |-> "adjust_ok", idx |-> s.r.idx, ok |-> ok_edge]
          /\ br.t = {IF c.code = "JEQ" THEN s.r.idx ELSE s.pending.before}
          /\ br.f = {IF c.code = "JEQ" THEN s.pending.before ELSE s.r.idx}
      BY <2>2, <2>5, <3>1
    <3>3. br.t \in SUBSET Known /\ br.f \in SUBSET Known
      BY <2>4, <2>5, <3>2
    <3> HIDE DEF br
    <3> QED
      BY <1>3, <2>3, <2>5, <3>2, <3>3 DEF br
  <2>6. CASE ~fact
    <3>1. br.cond = [is |-> "adjust_ok", idx |-> s.r.idx, ok |-> ok_edge] /\ br.t = {} /\ br.f = {}
      BY <2>2, <2>6
    <3> HIDE DEF br
    <3> QED
      BY <1>3, <2>3, <2>6, <3>1 DEF br
  <2> QED
    BY <2>5, <2>6
<1>4. CASE c.on = "ret" /\ s.r.is # "ret"
  <2>1. br = [cond |-> [is |-> "zero", code |-> c.code], t |-> {}, f |-> {}]
    BY <1>4 DEF track_branch
  <2>2. [is |-> "zero", code |-> c.code] \in Condition
    BY <1>4 DEF Cond, Condition
  <2> HIDE DEF br
  <2> QED
    BY <1>4, <2>1, <2>2 DEF br
<1>5. CASE c.on = "bound"
  <2>1. br = [cond |-> [is |-> "bound", code |-> c.code, left |-> c.left], t |-> {}, f |-> {}]
    BY <1>5 DEF track_branch
  <2>2. [is |-> "bound", code |-> c.code, left |-> c.left] \in Condition
    BY <1>5 DEF Cond, Condition
  <2> HIDE DEF br
  <2> QED
    BY <1>5, <2>1, <2>2 DEF br
<1>6. CASE c.on \in {"tail", "free"}
  <2>1. br = [cond |-> None, t |-> {}, f |-> {}]
    BY <1>6 DEF track_branch
  <2>2. None \in Condition
    BY DEF Condition
  <2> HIDE DEF br
  <2> QED
    BY <1>6, <2>1, <2>2 DEF br
<1>7. c.on \in {"ret", "bound", "tail", "free"}
  BY DEF Cond
<1> QED
  BY <1>3, <1>4, <1>5, <1>6, <1>7

\* The end of a block.
LEMMA TrackEndStep ==
  ASSUME TypeOK, TrackInv, TrackEnd
  PROVE  TypeOK' /\ TrackInv'
<1>1. next \in Block /\ next + 1 \in 0 .. N /\ next \in Int
  <2>1. next < N /\ next \in 0 .. N
    BY DEF TrackEnd, TypeOK
  <2> QED
    BY <2>1, NAssumption DEF Block
<1>2. UNCHANGED <<inputs, run>> /\ prog' = prog /\ next' = next + 1
  BY DEF TrackEnd, inputs
<1>3. Len(blk[next].at) = Len(prog.ops[next]) + 1 /\ Len(prog.ops[next]) \in Nat
  BY <1>1, ProgFacts DEF TrackEnd, TypeOK
<1>4. blk[next].at # << >> /\ last(next) \in State /\ prog.cond[next] \in Cond
  <2>1. blk[next].at # << >>
    BY <1>3
  <2> QED
    BY <1>1, <2>1, BlkFacts, ProgFacts DEF TypeOK
<1> DEFINE br == track_branch(last(next), prog.cond[next])
<1>5. br.cond \in Condition /\ br.t \in SUBSET Known /\ br.f \in SUBSET Known
  BY <1>4, TrackBranchFacts
<1> HIDE DEF br
<1>6. blk' = IF branch(next)
             THEN [blk EXCEPT ![next] = [at |-> blk[next].at, cond |-> br.cond, t |-> br.t, f |-> br.f]]
             ELSE blk
  BY <1>1 DEF TrackEnd, TypeOK, br
<1>7. /\ blk' \in [Block -> [at : Seq(State), cond : Condition, t : SUBSET Known, f : SUBSET Known]]
      /\ \A c \in Block \ {next} : blk'[c] = blk[c]
      /\ blk'[next].at = blk[next].at
      /\ branch(next) => blk'[next].cond = br.cond /\ blk'[next].t = br.t /\ blk'[next].f = br.f
      /\ ~branch(next) => blk'[next] = blk[next]
  <2>1. blk \in [Block -> [at : Seq(State), cond : Condition, t : SUBSET Known, f : SUBSET Known]]
    BY DEF TypeOK
  <2>2. CASE branch(next)
    <3> DEFINE y == [at |-> blk[next].at, cond |-> br.cond, t |-> br.t, f |-> br.f]
    <3>1. y \in [at : Seq(State), cond : Condition, t : SUBSET Known, f : SUBSET Known]
      BY <1>1, <1>5, BlkFacts
    <3>2. blk' = [blk EXCEPT ![next] = y]
      BY <1>6, <2>2
    <3>3. y.at = blk[next].at /\ y.cond = br.cond /\ y.t = br.t /\ y.f = br.f
      OBVIOUS
    <3> HIDE DEF y
    <3>4. /\ blk' \in [Block -> [at : Seq(State), cond : Condition, t : SUBSET Known, f : SUBSET Known]]
          /\ \A c \in Block \ {next} : blk'[c] = blk[c]
          /\ blk'[next] = y
      BY <1>1, <2>1, <3>1, <3>2
    <3> QED
      BY <2>2, <3>3, <3>4
  <2>3. CASE ~branch(next)
    BY <1>6, <2>1, <2>3
  <2> QED
    BY <2>2, <2>3
<1>8. TypeOK'
  BY <1>1, <1>2, <1>7, TypeKept
<1>9. TrackInv'
  <2> SUFFICES ASSUME NEW b \in Block
               PROVE  /\ b > next + 1 => blk'[b].at = << >>
                      /\ b < next + 1 => ended(b)'
                      /\ b >= next + 1 => blk'[b].t = {} /\ blk'[b].f = {}
                      /\ steps(b)'
                      /\ blk'[b].at # << >> => joined(b)'
    BY <1>2 DEF TrackInv
  <2>0. b \in Int
    BY DEF Block
  <2>1. /\ b > next => blk[b].at = << >>
        /\ b < next => ended(b)
        /\ b >= next => blk[b].t = {} /\ blk[b].f = {}
        /\ steps(b)
        /\ blk[b].at # << >> => joined(b)
    BY DEF TrackInv
  <2>2. blk'[b].at = blk[b].at
    BY <1>7
  <2>3. blk[b].at # << >> => joined(b)'
    <3> SUFFICES ASSUME blk[b].at # << >> PROVE joined(b)'
      OBVIOUS
    <3>1. b <= next
      BY <1>1, <2>0, <2>1
    <3>2. \A p \in Block : p < b => blk'[p] = blk[p]
      BY <1>1, <1>7, <2>0, <3>1 DEF Block
    <3> QED
      BY <1>2, <2>1, <2>2, <3>2, JoinedKept DEF TypeOK
  <2>4. CASE b = next
    <3>1. ended(b)'
      <4>1. /\ Len(blk'[b].at) = Len(prog'.ops[b]) + 1
            /\ last(b)' = last(b) /\ (branch(b)' <=> branch(b))
        BY <1>2, <1>3, <1>7, <2>4 DEF last, branch
      <4>2. /\ branch(b) => /\ blk'[b].cond = track_branch(last(b), prog.cond[b]).cond
                            /\ blk'[b].t = track_branch(last(b), prog.cond[b]).t
                            /\ blk'[b].f = track_branch(last(b), prog.cond[b]).f
            /\ ~branch(b) => blk'[b].t = {} /\ blk'[b].f = {}
        <5>1. blk[b].t = {} /\ blk[b].f = {}
          BY <1>1, <2>1, <2>4
        <5> QED
          BY <1>7, <2>4, <5>1 DEF br
      <4> QED
        BY <1>2, <4>1, <4>2, Zenon DEF ended
    <3>2. steps(b)'
      BY <1>2, <2>1, <2>2, Zenon DEF steps
    <3>3. ~(b > next + 1) /\ ~(b >= next + 1)
      BY <1>1, <2>4
    <3> QED
      BY <2>2, <2>3, <3>1, <3>2, <3>3
  <2>5. CASE b # next
    <3>1. blk'[b] = blk[b]
      BY <1>7, <2>5
    <3>2. (ended(b) => ended(b)') /\ (steps(b) => steps(b)')
      BY <1>2, <3>1, BlockKept
    <3>3. (b < next + 1 => b < next) /\ (b >= next + 1 => b > next)
      BY <1>1, <2>0, <2>5
    <3>4. b > next + 1 => b > next
      BY <1>1, <2>0
    <3>5. b > next => b >= next
      BY <1>1, <2>0
    <3> QED
      BY <2>1, <2>3, <3>1, <3>2, <3>3, <3>4, <3>5
  <2> QED
    BY <2>4, <2>5
<1> QED
  BY <1>8, <1>9

-----------------------------------------------------------------------------
(* Careful programs. *)

\* loads and reloads are about the program only.
LEMMA LoadsKept ==
  ASSUME prog' = prog
  PROVE  /\ careful' <=> careful
         /\ \A b, op, i : (loads(b, op, i)' <=> loads(b, op, i)) /\ (reloads(b, op, i)' <=> reloads(b, op, i))
<1>1. \A b, op, i : loads(b, op, i)' <=> loads(b, op, i)
  BY Zenon DEF loads
<1>2. \A b, op, i : reloads(b, op, i)' <=> reloads(b, op, i)
  BY Zenon DEF reloads
<1>3. careful' <=> careful
  BY <1>1, <1>2, Zenon DEF careful
<1> QED
  BY <1>1, <1>2, <1>3, Zenon

\* Before the first instruction nothing is loaded; one more instruction may load.
LEMMA LoadsFacts ==
  ASSUME NEW b, NEW op, NEW n \in Nat \ {0}
  PROVE  /\ ~loads(b, op, 1) /\ ~reloads(b, op, 1)
         /\ loads(b, op, n + 1) => loads(b, op, n) \/ prog.ops[b][n].op = op
         /\ reloads(b, op, n + 1) =>
              prog.ops[b][n].op = op \/ (reloads(b, op, n) /\ prog.ops[b][n].op # "adjust")
<1>1. ~loads(b, op, 1) /\ ~reloads(b, op, 1)
  BY DEF loads, reloads
<1>2. (n + 1) - 1 = n
  OBVIOUS
<1>3. ASSUME loads(b, op, n + 1) PROVE loads(b, op, n) \/ prog.ops[b][n].op = op
  <2>1. PICK k \in 1 .. n : prog.ops[b][k].op = op
    BY <1>2, <1>3 DEF loads
  <2>2. k = n \/ k \in 1 .. n - 1
    OBVIOUS
  <2> QED
    BY <2>1, <2>2 DEF loads
<1>4. ASSUME reloads(b, op, n + 1)
      PROVE  prog.ops[b][n].op = op \/ (reloads(b, op, n) /\ prog.ops[b][n].op # "adjust")
  <2>1. PICK k \in 1 .. n : /\ prog.ops[b][k].op = op
                            /\ \A l \in k + 1 .. n : prog.ops[b][l].op # "adjust"
    BY <1>2, <1>4 DEF reloads
  <2>2. CASE k = n
    BY <2>1, <2>2
  <2>3. CASE k # n
    <3>1. k \in 1 .. n - 1 /\ n \in k + 1 .. n /\ k + 1 .. n - 1 \subseteq k + 1 .. n
      BY <2>3
    <3> QED
      BY <2>1, <3>1 DEF reloads
  <2> QED
    BY <2>2, <2>3
<1> QED
  BY <1>1, <1>3, <1>4

\* What a careful program has loaded in one state.
Loaded(b, i, s) ==
  /\ loads(b, "data", i) => s.p # NoPtr
  /\ reloads(b, "data", i) => s.p = s.ctx
  /\ reloads(b, "end", i) => s.e = s.ctx
  /\ s.r.is # "unencodable"

\* CarefulInv by blocks.
LEMMA CarefulForm ==
  CarefulInv <=> (careful => /\ ~refused
                             /\ \A b \in Block : \A i \in 1 .. Len(blk[b].at) : Loaded(b, i, blk[b].at[i]))
  BY Zenon DEF CarefulInv, Loaded

\* One more state of the block at hand.
LEMMA CarefulGrows ==
  ASSUME CarefulInv, careful, NEW c \in Block, prog' = prog, ~refused',
         \A b \in Block \ {c} : blk'[b] = blk[b],
         NEW n \in Nat, Len(blk'[c].at) = n + 1,
         \A i \in 1 .. n : i \in 1 .. Len(blk[c].at) /\ blk'[c].at[i] = blk[c].at[i],
         Loaded(c, n + 1, blk'[c].at[n + 1])
  PROVE  CarefulInv'
<1>1. ASSUME NEW b \in Block, NEW i \in 1 .. Len(blk'[b].at)
      PROVE  Loaded(b, i, blk'[b].at[i])
  <2>1. CASE b # c
    BY <1>1, <2>1, CarefulForm
  <2>2. CASE b = c /\ i = n + 1
    BY <2>2
  <2>3. CASE b = c /\ i # n + 1
    <3>1. i \in 1 .. n
      BY <1>1, <2>3
    <3> QED
      BY <2>3, <3>1, CarefulForm
  <2> QED
    BY <2>1, <2>2, <2>3
<1>3. \A b \in Block : \A i \in 1 .. Len(blk'[b].at) :
         LET s == blk'[b].at[i] IN
         /\ loads(b, "data", i)' => s.p # NoPtr
         /\ reloads(b, "data", i)' => s.p = s.ctx
         /\ reloads(b, "end", i)' => s.e = s.ctx
         /\ s.r.is # "unencodable"
  BY <1>1, LoadsKept, Zenon DEF Loaded
<1> QED
  BY <1>3, Zenon DEF CarefulInv

LEMMA CarefulEntry ==
  ASSUME TypeOK, TrackInv, CarefulInv, careful, TrackEntry
  PROVE  CarefulInv'
<1>1. next \in Block /\ next <= next
  <2>1. next < N /\ next \in 0 .. N
    BY DEF TrackEntry, TypeOK
  <2> QED
    BY <2>1, NAssumption DEF Block
<1>2. ~tail_entry(next)
  <2>1. prog.entry = None
    BY DEF careful
  <2> QED
    BY <1>1, <2>1, ViewFacts DEF tail_entry
<1> DEFINE s == entry_state(next)
<1>3. blk' = [blk EXCEPT ![next].at = <<s>>]
  BY <1>2 DEF TrackEntry
<1>4. ~refused'
  <2>1. ~refused /\ refused' = refused
    BY <1>2, Zenon DEF TrackEntry
  <2> QED
    BY <2>1, Zenon
<1>5. \A p \in preds(next) : last(p).r.is # "unencodable"
  <2> SUFFICES ASSUME NEW p \in preds(next) PROVE last(p).r.is # "unencodable"
    OBVIOUS
  <2>1. p \in Block /\ blk[p].at # << >>
    BY <1>1, PredsDone
  <2>2. Len(blk[p].at) \in 1 .. Len(blk[p].at)
    BY <2>1, BlkFacts
  <2> QED
    BY <2>1, <2>2, CarefulForm DEF last, Loaded
<1>6. s \in State /\ s.r.is # "unencodable"
  BY <1>1, <1>2, <1>5, EntryFacts
<1> HIDE DEF s
<1>7. <<s>> \in Seq(State) /\ Len(<<s>>) = 0 + 1 /\ <<s>>[0 + 1] = s
  BY <1>6
<1>8. blk'[next].at = <<s>> /\ \A c \in Block \ {next} : blk'[c] = blk[c]
  BY <1>1, <1>3, <1>7, AtUpdate
<1>9. Loaded(next, 0 + 1, s)
  <2>1. \A op : ~loads(next, op, 1) /\ ~reloads(next, op, 1)
    BY LoadsFacts
  <2> QED
    BY <1>6, <2>1 DEF Loaded
<1>10. prog' = prog /\ 1 .. 0 = {}
  BY DEF TrackEntry, inputs
<1> QED
  BY <1>1, <1>4, <1>7, <1>8, <1>9, <1>10, CarefulGrows

LEMMA CarefulOp ==
  ASSUME TypeOK, TrackInv, CarefulInv, careful, TrackOp
  PROVE  CarefulInv'
<1> DEFINE n == Len(blk[next].at)
           s == blk[next].at[n]
           o == prog.ops[next][n]
           t == track_op(s, o, <<next, n>>)
<1>1. next \in Block /\ n \in 1 .. Len(prog.ops[next]) /\ n \in 1 .. n
  <2>1. next < N /\ next \in 0 .. N /\ n \in 1 .. Len(prog.ops[next])
    BY DEF TrackOp, TypeOK
  <2> QED
    BY <2>1, NAssumption DEF Block
<1>2. prog.ops[next] \in Seq(Op) /\ o \in Op /\ n \in DOMAIN prog.ops[next]
  <2>1. prog.ops[next] \in Seq(Op)
    BY <1>1, ProgFacts DEF TypeOK
  <2> QED
    BY <1>1, <2>1, ElementOfSeq
<1>3. blk[next].at \in Seq(State) /\ s \in State /\ n \in Nat \ {0}
  BY <1>1, BlkFacts
<1>4. Loaded(next, n, s)
  BY <1>1, CarefulForm
<1>5. /\ o.op = "read" => loads(next, "data", n)
      /\ o.op # "diff"
  BY <1>1, <1>2 DEF careful
<1>6. ~refused'
  <2>1. ~(o.op \in {"read", "diff"} /\ s.p = NoPtr /\ (o.op = "diff" => s.e # NoPtr))
    BY <1>4, <1>5 DEF Loaded
  <2>2. refused' = (o.op \in {"read", "diff"} /\ s.p = NoPtr /\ (o.op = "diff" => s.e # NoPtr))
    BY Zenon DEF TrackOp
  <2> QED
    BY <2>1, <2>2, Zenon
<1>7. blk' = [blk EXCEPT ![next].at = Append(@, t)]
  BY Zenon DEF TrackOp
<1>8. next \in DOMAIN blk /\ "at" \in DOMAIN blk[next]
  BY <1>1 DEF TypeOK
<1> HIDE DEF n, s, o
<1>9. /\ t \in State
      /\ t.ctx = IF isHead(o) THEN None ELSE s.ctx
      /\ t.p = IF o.op = "data" THEN s.ctx ELSE s.p
      /\ t.e = IF o.op = "end" THEN s.ctx ELSE s.e
      /\ t.r.is = "unencodable" => o.op = "diff" \/ s.r.is = "unencodable"
  <2>1. <<next, n>> \in Site
    BY <1>1, <1>3 DEF Site
  <2> QED
    BY <1>2, <1>3, <2>1, TrackOpFacts
<1> HIDE DEF t
<1>10. Loaded(next, n + 1, t)
  <2>1. \A op : /\ loads(next, op, n + 1) => loads(next, op, n) \/ o.op = op
                /\ reloads(next, op, n + 1) =>
                     o.op = op \/ (reloads(next, op, n) /\ o.op # "adjust")
    BY <1>3, LoadsFacts DEF o
  <2>2. s.ctx # NoPtr
    BY <1>3, ViewFacts DEF State
  <2>3. loads(next, "data", n + 1) => t.p # NoPtr
    BY <1>4, <1>9, <2>1, <2>2 DEF Loaded
  <2>4. reloads(next, "data", n + 1) => t.p = t.ctx
    BY <1>4, <1>9, <2>1 DEF Loaded, isHead
  <2>5. reloads(next, "end", n + 1) => t.e = t.ctx
    BY <1>4, <1>9, <2>1 DEF Loaded, isHead
  <2>6. t.r.is # "unencodable"
    BY <1>4, <1>5, <1>9 DEF Loaded
  <2> QED
    BY <2>3, <2>4, <2>5, <2>6 DEF Loaded
<1>11. Append(blk[next].at, t) \in Seq(State)
  BY <1>3, <1>9, AppendProperties
<1>12. /\ blk'[next].at = Append(blk[next].at, t)
       /\ \A c \in Block \ {next} : blk'[c] = blk[c]
  BY <1>1, <1>7, <1>11, AtUpdate
<1>13. /\ Len(blk'[next].at) = n + 1 /\ blk'[next].at[n + 1] = t
       /\ \A i \in 1 .. n : i \in 1 .. Len(blk[next].at) /\ blk'[next].at[i] = blk[next].at[i]
  BY <1>3, <1>9, <1>12, AppendProperties DEF n
<1>14. prog' = prog
  BY DEF TrackOp, inputs
<1> QED
  BY <1>1, <1>3, <1>6, <1>10, <1>12, <1>13, <1>14, CarefulGrows

LEMMA CarefulFrame ==
  ASSUME CarefulInv, prog' = prog, careful => ~refused',
         \A b \in Block : blk'[b].at = blk[b].at
  PROVE  CarefulInv'
<1>1. careful' <=> careful
  BY LoadsKept
<1>2. ASSUME careful PROVE \A b \in Block : \A i \in 1 .. Len(blk'[b].at) : Loaded(b, i, blk'[b].at[i])
  BY <1>2, CarefulForm
<1>3. careful => \A b \in Block : \A i \in 1 .. Len(blk'[b].at) :
         LET s == blk'[b].at[i] IN
         /\ loads(b, "data", i)' => s.p # NoPtr
         /\ reloads(b, "data", i)' => s.p = s.ctx
         /\ reloads(b, "end", i)' => s.e = s.ctx
         /\ s.r.is # "unencodable"
  BY <1>2, LoadsKept, Zenon DEF Loaded
<1> QED
  BY <1>1, <1>3, Zenon DEF CarefulInv

LEMMA CarefulEnd ==
  ASSUME TypeOK, TrackInv, CarefulInv, TrackEnd
  PROVE  CarefulInv'
<1>1. next \in Block
  <2>1. next < N /\ next \in 0 .. N
    BY DEF TrackEnd, TypeOK
  <2> QED
    BY <2>1, NAssumption DEF Block
<1>2. \A b \in Block : blk'[b].at = blk[b].at
  <2>1. CASE branch(next)
    <3>1. PICK x : /\ x.at = blk[next].at
                   /\ blk' = [blk EXCEPT ![next] = x]
      <4> DEFINE br == track_branch(last(next), prog.cond[next])
                 y == [at |-> blk[next].at, cond |-> br.cond, t |-> br.t, f |-> br.f]
      <4>1. blk' = [blk EXCEPT ![next] = y]
        BY <1>1, <2>1 DEF TrackEnd, TypeOK
      <4>2. y.at = blk[next].at
        OBVIOUS
      <4> HIDE DEF y
      <4> QED
        BY <4>1, <4>2
    <3> QED
      BY <1>1, <3>1 DEF TypeOK
  <2>2. CASE ~branch(next)
    BY <2>2 DEF TrackEnd
  <2> QED
    BY <2>1, <2>2
<1>3. ASSUME careful PROVE ~refused'
  <2> DEFINE s == last(next)
             c == prog.cond[next]
  <2>1. Len(blk[next].at) = Len(prog.ops[next]) + 1 /\ Len(prog.ops[next]) \in Nat
    BY <1>1, ProgFacts DEF TrackEnd, TypeOK
  <2>2. s \in State /\ Loaded(next, Len(prog.ops[next]) + 1, s)
    <3>1. blk[next].at # << >> /\ Len(blk[next].at) \in 1 .. Len(blk[next].at)
      BY <2>1
    <3> QED
      BY <1>1, <1>3, <2>1, <3>1, BlkFacts, CarefulForm DEF last
  <2>3. c.on = "bound" => /\ reloads(next, "data", Len(prog.ops[next]) + 1)
                          /\ reloads(next, "end", Len(prog.ops[next]) + 1)
    BY <1>1, <1>3 DEF careful
  <2>4. s.ctx # NoPtr
    BY <2>2, ViewFacts DEF State
  <2>5. c.on = "bound" => pkt_size_check(s)
    BY <2>2, <2>3, <2>4 DEF Loaded, pkt_size_check
  <2>6. s.r.is # "unencodable"
    BY <2>2 DEF Loaded
  <2>7. refused' = (\/ branch(next) /\ c.on = "bound" /\ ~pkt_size_check(s)
                    \/ s.r.is = "unencodable" /\ ((branch(next) /\ c.on = "ret") \/ exit(next)))
    BY Zenon DEF TrackEnd
  <2> QED
    BY <2>5, <2>6, <2>7, Zenon
<1>4. prog' = prog
  BY DEF TrackEnd, inputs
<1> QED
  BY <1>2, <1>3, <1>4, CarefulFrame

\* A program that is not careful stays so.
LEMMA CarefulStep ==
  ASSUME TypeOK, TrackInv, CarefulInv, [Next]_vars
  PROVE  CarefulInv'
<1>1. prog' = prog
  BY DEF Next, vars, TrackEntry, TrackOp, TrackEnd, Feed, RunOp, RunEdge, inputs
<1>2. CASE ~careful
  BY <1>1, <1>2, LoadsKept, Zenon DEF CarefulInv
<1>3. CASE careful /\ TrackEntry
  BY <1>3, CarefulEntry
<1>4. CASE careful /\ TrackOp
  BY <1>4, CarefulOp
<1>5. CASE TrackEnd
  BY <1>5, CarefulEnd
<1>6. CASE Feed \/ RunOp \/ RunEdge \/ UNCHANGED vars
  <2>1. blk' = blk /\ refused' = refused
    BY <1>6, Zenon DEF Feed, RunOp, RunEdge, vars
  <2>2. careful => ~refused'
    BY <2>1, Zenon DEF CarefulInv
  <2>3. \A b \in Block : blk'[b].at = blk[b].at
    BY <2>1
  <2> QED
    BY <1>1, <2>2, <2>3, CarefulFrame
<1> QED
  BY <1>2, <1>3, <1>4, <1>5, <1>6 DEF Next

-----------------------------------------------------------------------------
(* The run: what the machine, the encoder and Tracker's state have to do   *)
(* with each other at an instruction.                                      *)

measures(mc, z) ==
  /\ z.len = mc.tail - mc.head
  /\ z.len >= 0 /\ z.off >= 0
  /\ mc.p # None => mc.p = mc.head + z.off
  /\ mc.e # None => mc.e = mc.tail
answers(s, mc, z) == s.r.is = "ret" /\ mc.r # None => (mc.r = 0 <=> s.r.idx \in z.ok)
sees(s, mc) ==
  /\ s.ctx \in {None, mc.view}
  /\ mc.p # None => s.p \in {NoPtr, None, mc.view}
  /\ mc.e # None => s.e \in {NoPtr, None, mc.view}
awaits(s, mc) ==
  s.pending # None /\ s.pending.idx = s.r.idx /\ mc.r # None =>
    IF mc.r = 0 THEN mc.view = s.pending.idx ELSE s.pending.before \in {None, mc.view}

\* The frame's length and the pointers' offsets through one instruction.
LEMMA MeasuresOp ==
  ASSUME NEW mc \in Machine, NEW z \in Encoder, NEW o \in Op, NEW i \in Site,
         permitted(mc, o), measures(mc, z)
  PROVE  measures(exec(mc, o, i), encode(z, o, i, won(o, i, mc)))
<1> DEFINE n == exec(mc, o, i)
           ok == won(o, i, mc)
           y == encode(z, o, i, ok)
<1>1. ok \in BOOLEAN
  BY DEF won, succeeds
<1>2. /\ n.p = CASE o.op = "data" -> mc.head [] o.op = "add" -> mc.p + o.d
                 [] o.op = "adjust" -> None [] OTHER -> mc.p
      /\ n.e = CASE o.op = "end" -> mc.tail [] o.op = "adjust" -> None [] OTHER -> mc.e
      /\ n.head = IF isHead(o) /\ ok THEN mc.head + o.d ELSE mc.head
      /\ n.tail = IF ok /\ o.kind = "tail" THEN mc.tail + o.d ELSE mc.tail
  BY ExecFacts
<1>3. /\ o.op # "adjust" => y.len = z.len
      /\ o.op = "adjust" /\ o.kind = "head" => y.len = IF ok THEN z.len - o.d ELSE z.len
      /\ o.op = "adjust" /\ o.kind = "tail" => y.len = IF ok THEN z.len + o.d ELSE z.len
      /\ o.op = "adjust" /\ o.kind = "meta" => y.len = z.len
      /\ y.off = CASE o.op = "data" -> 0 [] o.op = "add" -> z.off + o.d [] OTHER -> z.off
  BY <1>1, EncodeFacts
<1>4. /\ mc.head \in Int /\ mc.tail \in Int /\ mc.p \in Int \cup {None} /\ mc.e \in Int \cup {None}
      /\ z.len \in Int /\ z.off \in Int
  BY DEF Machine, Encoder
<1>5. /\ o.op \in {"data", "end", "add", "read", "len", "diff", "adjust"}
      /\ o.op = "adjust" => o.kind \in {"head", "tail", "meta"} /\ o.d \in Int
      /\ o.op = "add" => o.d \in Nat
  BY DEF Op
<1>6. ok => o.op = "adjust"
  BY DEF won
<1>7. (isHead(o) <=> o.op = "adjust" /\ o.kind = "head") /\ (o.op = "add" => mc.p # None)
  BY DEF isHead, permitted, uses_p
<1>8. /\ z.len = mc.tail - mc.head
      /\ z.len >= 0 /\ z.off >= 0
      /\ mc.p # None => mc.p = mc.head + z.off
      /\ mc.e # None => mc.e = mc.tail
  BY DEF measures
<1> HIDE DEF n, y, ok
<1>9. CASE o.op # "adjust"
  <2>1. n.head = mc.head /\ n.tail = mc.tail /\ y.len = z.len
    BY ONLY <1>2, <1>3, <1>6, <1>7, <1>9
  <2>2. n.p # None => n.p = mc.head + y.off
    BY ONLY <1>2, <1>3, <1>4, <1>5, <1>7, <1>8, <1>9
  <2>3. n.e # None => n.e = mc.tail
    BY ONLY <1>2, <1>5, <1>8, <1>9
  <2>4. y.off >= 0
    BY ONLY <1>3, <1>4, <1>5, <1>8, <1>9
  <2> QED
    BY <1>8, <2>1, <2>2, <2>3, <2>4 DEF measures, n, y, ok
<1>10. CASE o.op = "adjust"
  <2>1. n.p = None /\ n.e = None
    BY ONLY <1>2, <1>10
  <2>2. y.len = n.tail - n.head
    BY ONLY <1>2, <1>3, <1>4, <1>5, <1>7, <1>8, <1>10
  <2>3. y.off = z.off
    BY ONLY <1>3, <1>10
  <2>4. ok => /\ o.kind = "head" => mc.head + o.d < mc.tail
              /\ o.kind = "tail" => mc.tail + o.d > mc.head
    BY DEF ok, won, succeeds
  <2>5. n.tail - n.head >= 0
    BY ONLY <1>2, <1>4, <1>5, <1>7, <1>8, <1>10, <2>4
  <2>6. y.len >= 0 /\ y.off >= 0
    BY ONLY <1>8, <2>2, <2>3, <2>5
  <2> QED
    BY <2>1, <2>2, <2>6 DEF measures, n, y, ok
<1> QED
  BY <1>9, <1>10

\* The result of the last call through one instruction.
LEMMA AnswersOp ==
  ASSUME NEW s \in State, NEW mc \in Machine, NEW z \in Encoder, NEW o \in Op, NEW i \in Site,
         permitted(mc, o), answers(s, mc, z)
  PROVE  answers(track_op(s, o, i), exec(mc, o, i), encode(z, o, i, won(o, i, mc)))
<1> DEFINE t == track_op(s, o, i)
           n == exec(mc, o, i)
           ok == won(o, i, mc)
           y == encode(z, o, i, ok)
<1>1. ok \in BOOLEAN
  BY DEF won, succeeds
<1>2. /\ o.op \in {"data", "end", "add"} => t.r = s.r
      /\ o.op \notin {"data", "end", "add"} => t.r.idx = i /\ (t.r.is = "ret" <=> o.op = "adjust")
  BY TrackOpFacts
<1>3. /\ o.op \in {"data", "end", "add"} => n.r = mc.r
      /\ o.op = "adjust" => (n.r = 0 <=> ok)
  BY ExecFacts
<1>4. /\ o.op # "adjust" => y.ok = z.ok
      /\ o.op = "adjust" => (i \in y.ok <=> ok)
  BY <1>1, EncodeFacts
<1> HIDE DEF t, n, y, ok
<1>5. CASE o.op \in {"data", "end", "add"}
  <2>1. t.r = s.r /\ n.r = mc.r /\ y.ok = z.ok
    BY ONLY <1>2, <1>3, <1>4, <1>5
  <2> QED
    BY <2>1 DEF answers, t, n, y, ok
<1>6. CASE o.op = "adjust"
  <2>1. t.r.idx = i /\ (n.r = 0 <=> i \in y.ok)
    BY <1>2, <1>3, <1>4, <1>6
  <2> QED
    BY <2>1 DEF answers, t, n, y, ok
<1>7. CASE o.op \notin {"data", "end", "add", "adjust"}
  BY <1>2, <1>7 DEF answers, t
<1> QED
  BY <1>5, <1>6, <1>7

\* The views through one instruction: a call that moves the head leaves the view
\* open until its test, which pending waits for.
LEMMA SeesOp ==
  ASSUME NEW s \in State, NEW mc \in Machine, NEW o \in Op, NEW i \in Site,
         permitted(mc, o), sees(s, mc), awaits(s, mc),
         s.pending # None => s.pending.idx # i
  PROVE  sees(track_op(s, o, i), exec(mc, o, i)) /\ awaits(track_op(s, o, i), exec(mc, o, i))
<1> DEFINE t == track_op(s, o, i)
           n == exec(mc, o, i)
           ok == won(o, i, mc)
<1>1. /\ t.ctx = IF isHead(o) THEN None ELSE s.ctx
      /\ t.p = IF o.op = "data" THEN s.ctx ELSE s.p
      /\ t.e = IF o.op = "end" THEN s.ctx ELSE s.e
      /\ o.op \in {"data", "end", "add"} => t.r = s.r
      /\ o.op \notin {"data", "end", "add"} => t.r.idx = i
      /\ t.pending = IF isHead(o) THEN [idx |-> i, before |-> s.ctx] ELSE s.pending
  BY TrackOpFacts
<1>2. /\ n.view = IF isHead(o) /\ ok THEN i ELSE mc.view
      /\ n.p = CASE o.op = "data" -> mc.head [] o.op = "add" -> mc.p + o.d
                 [] o.op = "adjust" -> None [] OTHER -> mc.p
      /\ n.e = CASE o.op = "end" -> mc.tail [] o.op = "adjust" -> None [] OTHER -> mc.e
      /\ o.op \in {"data", "end", "add"} => n.r = mc.r
      /\ o.op = "adjust" => (n.r = 0 <=> ok)
  BY ExecFacts
<1>3. isHead(o) => o.op = "adjust"
  BY DEF isHead
<1>4. o.op = "add" => mc.p # None
  BY DEF permitted, uses_p
<1>5. /\ s.ctx \in {None, mc.view}
      /\ mc.p # None => s.p \in {NoPtr, None, mc.view}
      /\ mc.e # None => s.e \in {NoPtr, None, mc.view}
  BY DEF sees
<1> HIDE DEF t, n, ok
<1>6. sees(t, n)
  <2>1. t.ctx \in {None, n.view}
    BY <1>1, <1>2, <1>5
  <2>2. n.p # None => n.view = mc.view /\ t.p \in {NoPtr, None, mc.view}
    BY <1>1, <1>2, <1>3, <1>4, <1>5
  <2>3. n.e # None => n.view = mc.view /\ t.e \in {NoPtr, None, mc.view}
    BY <1>1, <1>2, <1>3, <1>5
  <2> QED
    BY <2>1, <2>2, <2>3 DEF sees
<1>7. awaits(t, n)
  <2>1. CASE isHead(o)
    <3>1. t.pending = [idx |-> i, before |-> s.ctx]
      BY <1>1, <2>1
    <3>2. t.pending.idx = i /\ t.pending.before = s.ctx
      BY <3>1
    <3>3. n.r = 0 => n.view = i
      BY <1>2, <1>3, <2>1
    <3>4. n.r # 0 => n.view = mc.view
      BY <1>2, <1>3, <2>1
    <3> QED
      BY <1>5, <3>2, <3>3, <3>4 DEF awaits
  <2>2. CASE ~isHead(o) /\ o.op \in {"data", "end", "add"}
    <3>1. t.pending = s.pending /\ t.r = s.r /\ n.r = mc.r /\ n.view = mc.view
      BY <1>1, <1>2, <2>2
    <3> QED
      BY <3>1 DEF awaits
  <2>3. CASE ~isHead(o) /\ o.op \notin {"data", "end", "add"}
    <3>1. t.pending = s.pending /\ t.r.idx = i
      BY <1>1, <2>3
    <3> QED
      BY <3>1 DEF awaits
  <2> QED
    BY <2>1, <2>2, <2>3
<1> QED
  BY <1>6, <1>7 DEF t, n

\* Where the run is, Tracker has been.
LEMMA RunAt ==
  ASSUME TypeOK, TrackInv, RunInv, frame # None, cur # None
  PROVE  /\ next = N /\ cur \in Block /\ pos \in 1 .. Len(prog.ops[cur]) + 1
         /\ \A b \in Block : ended(b) /\ steps(b) /\ joined(b) /\ Len(prog.ops[b]) \in Nat
                             /\ blk[b].at[1] \in State
         /\ blk[cur].at[pos] \in State
         /\ pos = Len(prog.ops[cur]) + 1 => last(cur) = blk[cur].at[pos]
<1>1. next = N /\ cur \in Block /\ pos \in Nat \ {0} /\ pos <= Len(prog.ops[cur]) + 1
  BY DEF RunInv, TypeOK
<1>2. ASSUME NEW b \in Block
      PROVE  /\ ended(b) /\ steps(b) /\ joined(b) /\ Len(prog.ops[b]) \in Nat
             /\ Len(blk[b].at) = Len(prog.ops[b]) + 1
  <2>1. Len(prog.ops[b]) \in Nat
    BY ProgFacts DEF TypeOK
  <2>2. b < next
    BY <1>1, NAssumption DEF Block
  <2>3. ended(b) /\ steps(b) /\ (blk[b].at # << >> => joined(b))
    BY <2>2, Zenon DEF TrackInv
  <2>4. Len(blk[b].at) = Len(prog.ops[b]) + 1
    BY <2>3 DEF ended
  <2>5. blk[b].at # << >>
    BY <2>1, <2>4
  <2> QED
    BY <2>1, <2>3, <2>4, <2>5
<1>3. Len(prog.ops[cur]) \in Nat /\ Len(blk[cur].at) = Len(prog.ops[cur]) + 1
  BY <1>1, <1>2
<1>4. pos \in 1 .. Len(prog.ops[cur]) + 1
  BY <1>1, <1>3
<1>5. blk[cur].at[pos] \in State
  <2>1. \A i \in 1 .. Len(blk[cur].at) : blk[cur].at[i] \in State
    BY <1>1, BlkFacts
  <2> QED
    BY <1>3, <1>4, <2>1
<1>6. \A b \in Block : blk[b].at[1] \in State
  <2> SUFFICES ASSUME NEW b \in Block PROVE blk[b].at[1] \in State
    OBVIOUS
  <2>1. Len(prog.ops[b]) \in Nat /\ Len(blk[b].at) = Len(prog.ops[b]) + 1
    BY <1>2
  <2>2. \A i \in 1 .. Len(blk[b].at) : blk[b].at[i] \in State
    BY BlkFacts
  <2> QED
    BY <2>1, <2>2
<1>7. pos = Len(prog.ops[cur]) + 1 => last(cur) = blk[cur].at[pos]
  BY <1>3 DEF last
<1> QED
  BY <1>1, <1>2, <1>4, <1>5, <1>6, <1>7

\* RunOp, with Tracker's step beside it.
LEMMA RunOpFacts ==
  ASSUME TypeOK, TrackInv, RunInv, RunOp
  PROVE  LET s == blk[cur].at[pos]
             o == prog.ops[cur][pos]
             i == <<cur, pos>>
         IN  /\ o \in Op /\ i \in Site /\ s \in State /\ permitted(m, o)
             /\ blk[cur].at[pos + 1] = track_op(s, o, i)
             /\ s.pending # None => s.pending.idx # i
             /\ m' = exec(m, o, i)
             /\ sigma' = encode(sigma, o, i, won(o, i, m))
             /\ pos' = pos + 1 /\ pos + 1 \in 1 .. Len(prog.ops[cur]) + 1
<1> DEFINE s == blk[cur].at[pos]
           o == prog.ops[cur][pos]
           i == <<cur, pos>>
<1>1. frame # None /\ cur # None /\ pos <= Len(prog.ops[cur]) /\ pos' = pos + 1
  BY DEF RunOp
<1>2. /\ cur \in Block /\ pos \in 1 .. Len(prog.ops[cur]) + 1 /\ Len(prog.ops[cur]) \in Nat
      /\ steps(cur) /\ ended(cur) /\ s \in State
  BY <1>1, RunAt
<1>3. pos \in 1 .. Len(prog.ops[cur]) /\ pos + 1 \in 1 .. Len(prog.ops[cur]) + 1
  BY <1>1, <1>2
<1>4. o \in Op
  <2>1. prog.ops[cur] \in Seq(Op)
    BY <1>2, ProgFacts DEF TypeOK
  <2> QED
    BY <1>3, <2>1, ElementOfSeq
<1>5. i \in Site
  BY <1>2 DEF Site
<1>6. Len(blk[cur].at) = Len(prog.ops[cur]) + 1
  BY <1>2 DEF ended
<1>7. blk[cur].at[pos + 1] = track_op(s, o, i)
  <2>1. pos \in 1 .. Len(blk[cur].at) - 1
    BY <1>2, <1>3, <1>6
  <2> QED
    BY <1>2, <2>1 DEF steps
<1>8. s.pending # None => s.pending.idx # i
  <2>1. pos \in 1 .. Len(blk[cur].at)
    BY <1>2, <1>6
  <2>2. s.pending # None => s.pending.idx[2] < pos
    BY <1>2, <2>1 DEF steps
  <2>3. i[2] = pos /\ ~(pos < pos)
    BY <1>2
  <2> HIDE DEF i
  <2> QED
    BY <2>2, <2>3
<1>9. /\ permitted(m, o) /\ m' = exec(m, o, i)
      /\ sigma' = encode(sigma, o, i, won(o, i, m))
  BY Zenon DEF RunOp, won
<1> QED
  BY <1>1, <1>2, <1>3, <1>4, <1>5, <1>7, <1>8, <1>9

\* One instruction of the run.
LEMMA RunOpStep ==
  ASSUME TypeOK, TrackInv, RunInv, BoundsExact, RunOp
  PROVE  TypeOK' /\ TrackInv' /\ RunInv' /\ BoundsExact'
<1> DEFINE s == blk[cur].at[pos]
           o == prog.ops[cur][pos]
           i == <<cur, pos>>
<1>1. /\ next = N /\ frame # None /\ cur # None
      /\ UNCHANGED <<inputs, next, blk, refused, cur, taken>>
  BY DEF RunOp
<1>2. /\ prog' = prog /\ frame' = frame /\ next' = next /\ blk' = blk
      /\ cur' = cur /\ taken' = taken
  BY <1>1 DEF inputs
<1>3. /\ o \in Op /\ i \in Site /\ s \in State /\ permitted(m, o)
      /\ blk[cur].at[pos + 1] = track_op(s, o, i)
      /\ m' = exec(m, o, i)
      /\ sigma' = encode(sigma, o, i, won(o, i, m))
      /\ pos' = pos + 1 /\ pos + 1 \in 1 .. Len(prog.ops[cur]) + 1
  BY RunOpFacts
<1>4. m \in Machine /\ sigma \in Encoder
  BY DEF TypeOK
<1>5. won(o, i, m) \in BOOLEAN
  BY DEF won, succeeds
<1>6. m' \in Machine
  BY <1>3, <1>4, ExecFacts
<1>7. sigma' \in Encoder
  BY <1>3, <1>4, <1>5, EncodeFacts
<1>8. TypeOK'
  <2>1. pos' \in Nat \ {0}
    BY <1>3
  <2> QED
    BY <1>2, <1>6, <1>7, <2>1 DEF TypeOK
<1>9. TrackInv'
  BY <1>2, TrackFrame DEF TypeOK
<1>10. measures(m, sigma) /\ answers(s, m, sigma)
  BY <1>1 DEF RunInv, measures, answers
<1>11. measures(m', sigma')
  BY <1>3, <1>4, <1>10, MeasuresOp
<1>12. answers(blk'[cur'].at[pos'], m', sigma')
  BY <1>2, <1>3, <1>4, <1>10, AnswersOp
<1>13. RunInv'
  <2>1. pos' <= Len(prog'.ops[cur']) + 1
    BY <1>2, <1>3
  <2> QED
    BY <1>1, <1>2, <1>11, <1>12, <2>1 DEF RunInv, measures, answers
<1>14. BoundsExact'
  BY <1>2, <1>11 DEF BoundsExact, measures
<1> QED
  BY <1>8, <1>9, <1>13, <1>14

\* The views across one instruction of the run.
LEMMA ViewOpStep ==
  ASSUME TypeOK, TrackInv, RunInv, ViewSound, PendingInv, RunOp
  PROVE  ViewSound' /\ PendingInv'
<1> DEFINE s == blk[cur].at[pos]
           o == prog.ops[cur][pos]
           i == <<cur, pos>>
<1>1. frame # None /\ cur # None /\ blk' = blk /\ cur' = cur
  BY DEF RunOp
<1>2. /\ o \in Op /\ i \in Site /\ s \in State /\ permitted(m, o)
      /\ blk[cur].at[pos + 1] = track_op(s, o, i)
      /\ s.pending # None => s.pending.idx # i
      /\ m' = exec(m, o, i) /\ pos' = pos + 1
  BY RunOpFacts
<1>3. sees(s, m) /\ awaits(s, m)
  BY <1>1 DEF ViewSound, PendingInv, sees, awaits
<1>4. m \in Machine
  BY DEF TypeOK
<1>5. sees(track_op(s, o, i), m') /\ awaits(track_op(s, o, i), m')
  BY <1>2, <1>3, <1>4, SeesOp
<1>6. blk'[cur'].at[pos'] = track_op(s, o, i)
  BY <1>1, <1>2
<1>7. sees(blk'[cur'].at[pos'], m') /\ awaits(blk'[cur'].at[pos'], m')
  BY <1>5, <1>6
<1> QED
  BY <1>7 DEF ViewSound, PendingInv, sees, awaits

\* A comparison of two addresses is the comparison of the offset with the length.
LEMMA CompareShift ==
  ASSUME NEW code \in Code, NEW left \in {"p", "e"}, NEW head \in Int, NEW off \in Int, NEW len \in Int
  PROVE  (IF left = "p" THEN compare(code, head + off, head + len)
          ELSE compare(code, head + len, head + off))
         <=> compare(mirrored(code, left), off, len)
<1>1. CASE left = "p"
  BY <1>1 DEF compare, mirrored, Code
<1>2. CASE left = "e"
  <2>1. CASE code = "JGT"
    BY <1>2, <2>1 DEF compare, mirrored
  <2>2. CASE code = "JGE"
    BY <1>2, <2>2 DEF compare, mirrored
  <2>3. CASE code = "JLT"
    BY <1>2, <2>3 DEF compare, mirrored
  <2>4. CASE code = "JLE"
    BY <1>2, <2>4 DEF compare, mirrored
  <2> QED
    BY <2>1, <2>2, <2>3, <2>4 DEF Code
<1> QED
  BY <1>1, <1>2

\* RunEdge, with what it leaves and where it goes.
LEMMA RunEdgeFacts ==
  ASSUME TypeOK, TrackInv, RunInv, RunEdge
  PROVE  /\ frame # None /\ cur \in Block /\ last(cur) = blk[cur].at[pos] /\ last(cur) \in State
         /\ prog' = prog /\ frame' = frame /\ next' = next /\ blk' = blk /\ pos' = 1
         /\ ended(cur) /\ prog.cond[cur] \in Cond
         /\ taken'.m \in {"taken", "fall"}
         /\ cur' = IF taken'.m = "taken" THEN prog.t[cur] ELSE prog.f[cur]
         /\ branch(cur) => taken'.m = machine_taken(m, prog.cond[cur])
         /\ branch(cur) /\ prog.cond[cur].on = "bound" => m.p # None /\ m.e # None
         /\ branch(cur) /\ prog.cond[cur].on = "ret" => m.r # None
         /\ cur' # None => /\ cur' \in Block /\ cur \in preds(cur')
                           /\ joined(cur') /\ blk[cur'].at[1] \in State /\ Len(prog.ops[cur']) \in Nat
<1>1. /\ frame # None /\ cur # None /\ pos = Len(prog.ops[cur]) + 1 /\ pos' = 1
      /\ UNCHANGED <<inputs, next, blk, refused>>
  BY DEF RunEdge
<1>2. prog' = prog /\ frame' = frame /\ next' = next /\ blk' = blk
  BY <1>1 DEF inputs
<1>3. /\ cur \in Block /\ last(cur) = blk[cur].at[pos] /\ last(cur) \in State
      /\ \A b \in Block : ended(b) /\ joined(b) /\ Len(prog.ops[b]) \in Nat /\ blk[b].at[1] \in State
  BY <1>1, RunAt
<1>4. /\ prog.cond[cur] \in Cond
      /\ prog.t[cur] \in Block \cup {None} /\ prog.f[cur] \in Block \cup {None}
  BY <1>3, ProgFacts DEF TypeOK
<1> DEFINE c == prog.cond[cur]
           go == IF branch(cur) THEN machine_taken(m, c) ELSE side(prog.t[cur] # None)
           known == branch(cur) /\ blk[cur].cond # None
<1>5. /\ branch(cur) /\ c.on = "bound" => m.p # None /\ m.e # None
      /\ branch(cur) /\ c.on = "ret" => m.r # None
      /\ taken' = [on |-> IF known THEN blk[cur].cond.is ELSE "none", m |-> go,
                   z |-> IF known THEN to_z3(blk[cur].cond, sigma) ELSE "none"]
      /\ cur' = IF go = "taken" THEN prog.t[cur] ELSE prog.f[cur]
  BY Zenon DEF RunEdge
<1>6. taken'.m = go
  <2> HIDE DEF go, known
  <2> QED
    BY <1>5
<1>7. go \in {"taken", "fall"}
  <2>1. c.on \in {"ret", "bound", "tail", "free"}
    BY <1>4 DEF Cond
  <2>2. machine_taken(m, c) \in {"taken", "fall"}
    BY <2>1 DEF machine_taken, side
  <2> QED
    BY <2>2 DEF side
<1>8. cur' # None => cur' \in Block /\ cur \in preds(cur')
  <2>1. cur' \in {prog.t[cur], prog.f[cur]}
    BY <1>5
  <2> QED
    BY <1>3, <1>4, <2>1 DEF preds
<1>9. branch(cur) => taken'.m = machine_taken(m, prog.cond[cur])
  BY <1>6
<1> HIDE DEF go
<1> QED
  BY <1>1, <1>2, <1>3, <1>4, <1>5, <1>6, <1>7, <1>8, <1>9

\* The machine and the encoder at the start of a block.
LEMMA RunEdgeState ==
  ASSUME TypeOK, TrackInv, RunInv, RunEdge
  PROVE  /\ m' \in Machine /\ sigma' \in Encoder
         /\ m'.head = m.head /\ m'.tail = m.tail /\ m'.view = m.view
         /\ m'.p \in {None, m.p} /\ m'.e \in {None, m.e} /\ m'.r \in {None, m.r}
         /\ cur' # None /\ tail_entry(cur') => m'.p = None /\ m'.e = None /\ m'.r = None
         /\ sigma'.len = sigma.len /\ sigma'.off = sigma.off /\ sigma'.ok = sigma.ok
<1>1. m' = IF cur' # None /\ tail_entry(cur') THEN [m EXCEPT !.p = None, !.e = None, !.r = None] ELSE m
  BY DEF RunEdge, enter
<1>2. m \in Machine /\ sigma \in Encoder
  BY DEF TypeOK
<1>3. /\ m' \in Machine
      /\ m'.head = m.head /\ m'.tail = m.tail /\ m'.view = m.view
      /\ m'.p \in {None, m.p} /\ m'.e \in {None, m.e} /\ m'.r \in {None, m.r}
      /\ cur' # None /\ tail_entry(cur') => m'.p = None /\ m'.e = None /\ m'.r = None
  BY <1>1, <1>2 DEF Machine
<1>4. /\ sigma' \in Encoder
      /\ sigma'.len = sigma.len /\ sigma'.off = sigma.off /\ sigma'.ok = sigma.ok
  <2>1. sigma' = sigma \/ sigma' = [sigma EXCEPT !.r = bound_to(frame - sigma.r.v)]
    BY DEF RunEdge, at_entry
  <2>2. frame \in Int /\ sigma.r.v \in Int
    <3>1. frame # None /\ frame \in Lens \cup {None}
      BY RunEdgeFacts DEF TypeOK
    <3> QED
      BY <1>2, <3>1, FrameAssumption DEF Encoder
  <2>3. bound_to(frame - sigma.r.v) \in [is : {"value", "length"}, v : Int]
    BY <2>2 DEF bound_to
  <2> QED
    BY <1>2, <2>1, <2>3 DEF Encoder
<1> QED
  BY <1>3, <1>4

\* A recorded bounds check or test of a result has the machine's side.
LEMMA EdgeTaken ==
  ASSUME TypeOK, TrackInv, RunInv, RunEdge, taken'.on \in {"adjust_ok", "bound"}
  PROVE  taken'.z = taken'.m
<1> DEFINE s == last(cur)
           c == prog.cond[cur]
           d == blk[cur].cond
           known == branch(cur) /\ d # None
           br == track_branch(s, c)
           go == taken'.m
<1>1. /\ frame # None /\ cur \in Block /\ s = blk[cur].at[pos] /\ s \in State /\ ended(cur) /\ c \in Cond
      /\ branch(cur) => go = machine_taken(m, c)
      /\ branch(cur) /\ c.on = "bound" => m.p # None /\ m.e # None
      /\ branch(cur) /\ c.on = "ret" => m.r # None
  BY RunEdgeFacts
<1>2. /\ taken'.on = IF known THEN d.is ELSE "none"
      /\ taken'.z = IF known THEN to_z3(d, sigma) ELSE "none"
  <2>1. \E g : taken' = [on |-> IF known THEN d.is ELSE "none", m |-> g,
                         z |-> IF known THEN to_z3(d, sigma) ELSE "none"]
    BY Zenon DEF RunEdge
  <2> HIDE DEF known, d
  <2> QED
    BY <2>1
<1>3. known /\ d.is \in {"adjust_ok", "bound"} /\ taken'.z = to_z3(d, sigma)
  BY <1>2
<1>4. branch(cur) /\ d # None /\ d = br.cond /\ go = machine_taken(m, c)
  BY <1>1, <1>3 DEF ended
<1>5. /\ c.on = "ret" /\ s.r.is # "ret" => d.is = "zero"
      /\ c.on = "bound" => d = [is |-> "bound", code |-> c.code, left |-> c.left]
      /\ c.on \in {"tail", "free"} => d = None
      /\ c.on = "ret" /\ s.r.is = "ret" =>
           d = [is |-> "adjust_ok", idx |-> s.r.idx, ok |-> IF c.code = "JEQ" THEN "taken" ELSE "fall"]
  <2> HIDE DEF br, s, c, d
  <2>1. /\ c.on = "ret" /\ s.r.is # "ret" => br.cond.is = "zero"
        /\ c.on = "bound" => br.cond = [is |-> "bound", code |-> c.code, left |-> c.left]
        /\ c.on \in {"tail", "free"} => br.cond = None
        /\ c.on = "ret" /\ s.r.is = "ret" =>
             br.cond = [is |-> "adjust_ok", idx |-> s.r.idx,
                        ok |-> IF c.code = "JEQ" THEN "taken" ELSE "fall"]
    BY <1>1, TrackBranchFacts DEF br
  <2> QED
    BY <1>4, <2>1
<1>6. measures(m, sigma) /\ answers(s, m, sigma)
  <2>1. cur # None
    BY <1>1, ViewFacts
  <2> QED
    BY <1>1, <2>1 DEF RunInv, measures, answers
<1>7. /\ m.head \in Int /\ m.tail \in Int /\ m.p \in Int \cup {None} /\ m.e \in Int \cup {None}
      /\ sigma.len \in Int /\ sigma.off \in Int
  BY DEF TypeOK, Machine, Encoder
<1> HIDE DEF s, c, d, br, go, known
<1>8. CASE c.on = "bound"
  <2>1. c.code \in Code /\ c.left \in {"p", "e"}
    BY <1>1, <1>8 DEF Cond
  <2>2. d.is = "bound" /\ d.code = c.code /\ d.left = c.left
    BY <1>5, <1>8
  <2>3. to_z3(d, sigma) = side(compare(mirrored(c.code, c.left), sigma.off, sigma.len))
    BY <2>2 DEF to_z3
  <2>4. m.p = m.head + sigma.off /\ m.e = m.head + sigma.len
    BY <1>1, <1>4, <1>6, <1>7, <1>8 DEF measures
  <2>5. go = side(IF c.left = "p" THEN compare(c.code, m.p, m.e) ELSE compare(c.code, m.e, m.p))
    BY <1>4, <1>8 DEF machine_taken
  <2>6. (IF c.left = "p" THEN compare(c.code, m.p, m.e) ELSE compare(c.code, m.e, m.p))
        <=> compare(mirrored(c.code, c.left), sigma.off, sigma.len)
    <3>1. (IF c.left = "p" THEN compare(c.code, m.head + sigma.off, m.head + sigma.len)
           ELSE compare(c.code, m.head + sigma.len, m.head + sigma.off))
          <=> compare(mirrored(c.code, c.left), sigma.off, sigma.len)
      BY <1>7, <2>1, CompareShift, Zenon
    <3> QED
      BY ONLY <2>4, <3>1, Zenon
  <2> QED
    BY <1>3, <2>3, <2>5, <2>6, Zenon DEF side, go
<1>9. CASE c.on = "ret" /\ s.r.is = "ret"
  <2>1. c.code \in {"JEQ", "JNE"}
    BY <1>1, <1>9 DEF Cond
  <2>2. d.is = "adjust_ok" /\ d.idx = s.r.idx /\ (d.ok = "taken" <=> c.code = "JEQ")
    BY <1>5, <1>9
  <2>3. to_z3(d, sigma) = side(s.r.idx \in sigma.ok <=> c.code = "JEQ")
    BY <2>2 DEF to_z3, side
  <2>4. m.r = 0 <=> s.r.idx \in sigma.ok
    BY <1>1, <1>4, <1>6, <1>9 DEF answers
  <2>5. go = side(m.r = 0 <=> c.code = "JEQ")
    BY <1>4, <1>9 DEF machine_taken
  <2> QED
    BY <1>3, <2>3, <2>4, <2>5 DEF side, go
<1> QED
  <2>1. c.on \in {"ret", "bound", "tail", "free"}
    BY <1>1 DEF Cond
  <2> QED
    BY <1>3, <1>4, <1>5, <1>8, <1>9, <2>1

\* The edge to the next block.
LEMMA RunEdgeStep ==
  ASSUME TypeOK, TrackInv, RunInv, BoundsExact, RunEdge
  PROVE  TypeOK' /\ TrackInv' /\ RunInv' /\ BoundsExact'
<1>1. /\ frame # None /\ last(cur) = blk[cur].at[pos] /\ cur \in Block
      /\ prog' = prog /\ frame' = frame /\ next' = next /\ blk' = blk /\ pos' = 1
      /\ cur' # None => /\ cur' \in Block /\ cur \in preds(cur')
                        /\ joined(cur') /\ Len(prog.ops[cur']) \in Nat
  BY RunEdgeFacts
<1>2. /\ m' \in Machine /\ sigma' \in Encoder
      /\ m'.head = m.head /\ m'.tail = m.tail
      /\ m'.p \in {None, m.p} /\ m'.e \in {None, m.e} /\ m'.r \in {None, m.r}
      /\ cur' # None /\ tail_entry(cur') => m'.r = None
      /\ sigma'.len = sigma.len /\ sigma'.off = sigma.off /\ sigma'.ok = sigma.ok
  BY RunEdgeState
<1>3. TypeOK'
  BY <1>1, <1>2 DEF TypeOK
<1>4. TrackInv'
  BY <1>1, TrackFrame DEF TypeOK
<1>5. measures(m', sigma')
  BY <1>2 DEF RunInv, measures
<1>6. ASSUME NEW b \in Block, cur' = b PROVE answers(blk[b].at[1], m', sigma')
  <2> DEFINE s == blk[b].at[1]
  <2>1. b # None /\ cur # None
    BY <1>1, ViewFacts
  <2>2. CASE tail_entry(b)
    BY <1>2, <1>6, <2>1, <2>2 DEF answers
  <2>3. CASE ~tail_entry(b)
    <3>1. s.r.is = "ret" => s.r = blk[cur].at[pos].r
      BY <1>1, <1>6, <2>1, <2>3 DEF joined
    <3>2. answers(blk[cur].at[pos], m, sigma)
      BY <1>1, <2>1 DEF RunInv, answers
    <3> QED
      BY <1>2, <3>1, <3>2 DEF answers
  <2> QED
    BY <2>2, <2>3
<1>7. RunInv'
  <2>1. cur' # None => /\ pos' <= Len(prog'.ops[cur']) + 1
                       /\ answers(blk'[cur'].at[pos'], m', sigma')
    BY <1>1, <1>6
  <2>2. frame' # None /\ next' = N
    BY <1>1 DEF RunInv
  <2> QED
    BY <1>5, <2>1, <2>2 DEF RunInv, measures, answers
<1>8. BoundsExact'
  <2>1. taken'.on \in {"adjust_ok", "bound"} => taken'.z = taken'.m
    BY EdgeTaken
  <2> QED
    BY <1>5, <2>1 DEF BoundsExact, measures
<1> QED
  BY <1>3, <1>4, <1>7, <1>8

\* The views across an edge: the test of a call leaves on each side the view that
\* side has.
LEMMA ViewEdgeStep ==
  ASSUME DistinctEdges, TypeOK, TrackInv, RunInv, ViewSound, PendingInv, RunEdge
  PROVE  ViewSound' /\ PendingInv'
<1>1. /\ frame # None /\ cur \in Block /\ last(cur) = blk[cur].at[pos] /\ last(cur) \in State
      /\ blk' = blk /\ pos' = 1 /\ ended(cur) /\ prog.cond[cur] \in Cond
      /\ taken'.m \in {"taken", "fall"}
      /\ cur' = IF taken'.m = "taken" THEN prog.t[cur] ELSE prog.f[cur]
      /\ branch(cur) => taken'.m = machine_taken(m, prog.cond[cur])
      /\ branch(cur) /\ prog.cond[cur].on = "ret" => m.r # None
      /\ cur' # None => cur' \in Block /\ cur \in preds(cur') /\ joined(cur')
  BY RunEdgeFacts
<1>2. /\ m'.view = m.view /\ m'.p \in {None, m.p} /\ m'.e \in {None, m.e}
      /\ cur' # None /\ tail_entry(cur') => m'.p = None /\ m'.e = None
  BY RunEdgeState
<1>3. sees(last(cur), m) /\ awaits(last(cur), m)
  <2>1. cur # None
    BY <1>1, ViewFacts
  <2> QED
    BY <1>1, <2>1 DEF ViewSound, PendingInv, sees, awaits
<1>4. ASSUME NEW b \in Block, cur' = b
      PROVE  \A v \in ctx_from(cur, b) : v \in {None, m.view}
  <2> DEFINE s == last(cur)
             c == prog.cond[cur]
             br == track_branch(s, c)
             go == taken'.m
  <2>1. CASE fact_of(cur, b) = {}
    BY <1>3, <2>1 DEF ctx_from, sees
  <2>2. CASE fact_of(cur, b) # {}
    <3>1. branch(cur)
      BY <1>1, <2>2 DEF ended, fact_of
    <3>2. blk[cur].t = br.t /\ blk[cur].f = br.f
      BY <1>1, <3>1 DEF ended
    <3>3. fact_of(cur, b) = IF prog.f[cur] = b THEN br.f ELSE br.t
      BY <3>2 DEF fact_of, edge
    <3>4. fact_of(cur, b) = IF go = "taken" THEN br.t ELSE br.f
      <4>1. prog.t[cur] # prog.f[cur]
        BY <1>1, <3>1 DEF branch, DistinctEdges, TypeOK
      <4> HIDE DEF br
      <4> QED
        BY <1>1, <1>4, <3>3, <4>1
    <3> HIDE DEF br, go, s, c
    <3>5. s \in State /\ c \in Cond
      BY <1>1 DEF s, c
    <3>6. c.on = "ret" /\ s.r.is = "ret" /\ s.pending # None /\ s.pending.idx = s.r.idx
      <4>1. br.t # {} \/ br.f # {}
        BY <2>2, <3>4
      <4> QED
        BY <3>5, <4>1, TrackBranchFacts DEF br
    <3>7. /\ br.t = {IF c.code = "JEQ" THEN s.r.idx ELSE s.pending.before}
          /\ br.f = {IF c.code = "JEQ" THEN s.pending.before ELSE s.r.idx}
      BY <3>5, <3>6, TrackBranchFacts DEF br
    <3>8. m.r # None
      BY <1>1, <3>1, <3>6 DEF c
    <3>9. IF m.r = 0 THEN m.view = s.r.idx ELSE s.pending.before \in {None, m.view}
      BY <1>3, <3>6, <3>8 DEF awaits, s
    <3>10. go = "taken" <=> (m.r = 0 <=> c.code = "JEQ")
      <4>1. go = side(m.r = 0 <=> c.code = "JEQ")
        BY <1>1, <3>1, <3>6 DEF machine_taken, go, c
      <4> QED
        BY <4>1 DEF side
    <3>11. ctx_from(cur, b) = fact_of(cur, b)
      BY <2>2 DEF ctx_from
    <3> QED
      BY <3>4, <3>7, <3>9, <3>10, <3>11
  <2> QED
    BY <2>1, <2>2
<1>5. ASSUME NEW b \in Block, cur' = b
      PROVE  sees(blk[b].at[1], m') /\ blk[b].at[1].pending = None
  <2> DEFINE s == blk[b].at[1]
  <2>1. b # None /\ cur \in preds(b) /\ joined(b)
    BY <1>1, <1>5, ViewFacts
  <2>2. s.pending = None
    BY <2>1 DEF joined
  <2>3. CASE tail_entry(b)
    <3>1. s.ctx = last(cur).ctx
      BY <2>1, <2>3 DEF joined
    <3> QED
      BY <1>2, <1>3, <1>5, <2>1, <2>2, <2>3, <3>1 DEF sees
  <2>4. CASE ~tail_entry(b)
    <3>1. /\ s.ctx # None => ctx_from(cur, b) = {s.ctx}
          /\ s.p \in {NoPtr, last(cur).p} /\ s.e \in {NoPtr, last(cur).e}
      BY <2>1, <2>4 DEF joined
    <3>2. s.ctx \in {None, m.view}
      BY <1>4, <1>5, <3>1
    <3> QED
      BY <1>2, <1>3, <2>2, <3>1, <3>2 DEF sees
  <2> QED
    BY <2>3, <2>4
<1>6. cur' # None => sees(blk'[cur'].at[pos'], m') /\ blk'[cur'].at[pos'].pending = None
  BY <1>1, <1>5
<1> QED
  BY <1>6 DEF ViewSound, PendingInv, sees

-----------------------------------------------------------------------------
(* The value of r. *)

\* An instruction that leaves r alone settles nothing, and a read unsettles r
\* unless the packet never moves.
LEMMA SettledOp ==
  ASSUME prog \in Programs, NEW b \in Block, NEW i \in 1 .. Len(prog.ops[b]), settled(b, i + 1)
  PROVE  /\ prog.ops[b][i].op \in {"data", "end", "add"} => settled(b, i)
         /\ prog.ops[b][i].op = "read" => still
<1>1. Len(prog.ops[b]) \in Nat /\ DOMAIN prog.ops[b] = 1 .. Len(prog.ops[b])
  BY ProgFacts
<1>2. CASE still
  BY <1>2 DEF settled
<1>3. CASE calls_only
  <2>1. prog.ops[b][i].op # "read"
    BY <1>1, <1>3 DEF calls_only
  <2> QED
    BY <1>3, <2>1 DEF settled
<1>4. CASE computes(b, i + 1)
  <2>1. PICK k \in 1 .. i : /\ prog.ops[b][k].op \in {"adjust", "len", "diff"}
                            /\ \A l \in k + 1 .. i : prog.ops[b][l].op # "read"
    BY <1>1, <1>4 DEF computes
  <2>2. prog.ops[b][i].op # "read"
    <3>1. k = i \/ i \in k + 1 .. i
      BY <1>1
    <3> QED
      BY <2>1, <3>1
  <2>3. prog.ops[b][i].op \in {"data", "end", "add"} => computes(b, i)
    <3> SUFFICES ASSUME prog.ops[b][i].op \in {"data", "end", "add"} PROVE computes(b, i)
      OBVIOUS
    <3>1. k # i
      BY <2>1
    <3>2. k \in 1 .. i - 1 /\ \A l \in k + 1 .. i - 1 : l \in k + 1 .. i
      BY <1>1, <3>1
    <3> QED
      BY <2>1, <3>2 DEF computes
  <2> QED
    BY <2>2, <2>3 DEF settled
<1> QED
  BY <1>2, <1>3, <1>4 DEF settled

\* The value of r through one instruction: a length and a call's result are exact
\* whatever was in r, a read is exact where the head is where it was.
LEMMA WorthOp ==
  ASSUME NEW mc \in Machine, NEW z \in Encoder, NEW o \in Op, NEW i \in Site,
         permitted(mc, o), measures(mc, z)
  PROVE  LET n == exec(mc, o, i)
             y == encode(z, o, i, won(o, i, mc))
         IN  /\ o.op \in {"data", "end", "add"} => n.r = mc.r /\ y.r = z.r /\ worth(y) = worth(z)
             /\ o.op \in {"len", "diff", "adjust"} => worth(y) = n.r
             /\ o.op = "read" /\ mc.head = Headroom => worth(y) = n.r
             /\ o.op \in {"read", "adjust"} => y.r.is = "value"
<1> DEFINE n == exec(mc, o, i)
           ok == won(o, i, mc)
           y == encode(z, o, i, ok)
<1>1. ok \in BOOLEAN
  BY DEF won, succeeds
<1>2. /\ mc.head \in Int /\ mc.tail \in Int /\ mc.p \in Int \cup {None} /\ mc.e \in Int \cup {None}
      /\ mc.r \in Int \cup {None} /\ z.len \in Int /\ z.off \in Int
      /\ z.r \in [is : {"value", "length"}, v : Int]
  BY DEF Machine, Encoder
<1>3. /\ z.len = mc.tail - mc.head
      /\ mc.p # None => mc.p = mc.head + z.off
      /\ mc.e # None => mc.e = mc.tail
  BY DEF measures
<1>4. CASE o.op \in {"data", "end", "add"}
  <2>1. n.r = mc.r /\ y.len = z.len
    BY <1>1, <1>4, ExecFacts, EncodeFacts
  <2>2. y.r = z.r
    BY <1>4 DEF encode, Encoder
  <2> HIDE DEF n, y, ok
  <2>3. worth(y) = worth(z)
    BY <2>1, <2>2 DEF worth
  <2> QED
    BY <1>4, <2>1, <2>2, <2>3 DEF n, y, ok
<1>5. CASE o.op = "len"
  <2>1. n.r = mc.tail - mc.head /\ y.r = length_less(0) /\ y.len = z.len
    BY <1>5 DEF exec, encode, Machine, Encoder
  <2> HIDE DEF n, y, ok
  <2>2. worth(y) = z.len - 0
    BY <2>1 DEF worth, length_less
  <2>3. worth(y) = n.r
    BY <1>2, <1>3, <2>1, <2>2
  <2> QED
    BY <1>5, <2>3 DEF n, y, ok
<1>6. CASE o.op = "diff"
  <2>1. n.r = mc.e - mc.p /\ y.r = length_less(z.off) /\ y.len = z.len
    BY <1>6 DEF exec, encode, Machine, Encoder
  <2>2. mc.p # None /\ mc.e # None
    BY <1>6 DEF permitted, uses_p
  <2> HIDE DEF n, y, ok
  <2>3. worth(y) = z.len - z.off
    BY <2>1 DEF worth, length_less
  <2>4. worth(y) = n.r
    BY <1>2, <1>3, <2>1, <2>2, <2>3
  <2> QED
    BY <1>6, <2>4 DEF n, y, ok
<1>7. CASE o.op = "read"
  <2>1. n.r = mc.p /\ y.r = bound_to(Headroom + z.off)
    BY <1>7 DEF exec, encode, Machine, Encoder
  <2>2. mc.p # None
    BY <1>7 DEF permitted, uses_p
  <2> HIDE DEF n, y, ok
  <2>3. worth(y) = Headroom + z.off /\ y.r.is = "value"
    BY <2>1 DEF worth, bound_to
  <2>4. mc.head = Headroom => worth(y) = n.r
    BY <1>3, <2>1, <2>2, <2>3
  <2> QED
    BY <1>7, <2>3, <2>4 DEF n, y, ok
<1>8. CASE o.op = "adjust"
  <2>1. n.r = (IF ok THEN 0 ELSE -EINVAL)
    BY <1>8 DEF exec, won
  <2>2. y.r = bound_to(IF ok THEN 0 ELSE -EINVAL)
    BY <1>8 DEF encode, Encoder
  <2> HIDE DEF n, y, ok
  <2>3. worth(y) = n.r /\ y.r.is = "value"
    BY <2>1, <2>2 DEF worth, bound_to
  <2> QED
    BY <1>8, <2>3 DEF n, y, ok
<1> QED
  <2>1. o.op \in {"data", "end", "add", "read", "len", "diff", "adjust"}
    BY DEF Op
  <2> QED
    BY ONLY <1>4, <1>5, <1>6, <1>7, <1>8, <2>1

\* The value of r across one instruction of the run.
LEMMA ValueOpStep ==
  ASSUME TypeOK, TrackInv, RunInv, ValueInv, RunOp
  PROVE  ValueInv'
<1> DEFINE o == prog.ops[cur][pos]
           i == <<cur, pos>>
<1>1. frame # None /\ cur # None /\ prog' = prog /\ frame' = frame /\ cur' = cur
  BY DEF RunOp, inputs
<1>2. /\ o \in Op /\ i \in Site /\ permitted(m, o)
      /\ m' = exec(m, o, i) /\ sigma' = encode(sigma, o, i, won(o, i, m)) /\ pos' = pos + 1
  BY RunOpFacts
<1>3. m \in Machine /\ sigma \in Encoder /\ won(o, i, m) \in BOOLEAN
  BY DEF TypeOK, won, succeeds
<1>4. measures(m, sigma)
  BY DEF RunInv, measures
<1>5. cur \in Block /\ pos \in 1 .. Len(prog.ops[cur]) /\ DOMAIN prog.ops[cur] = 1 .. Len(prog.ops[cur])
  <2>1. cur \in Block /\ pos \in Nat \ {0} /\ pos <= Len(prog.ops[cur])
    BY <1>1 DEF TypeOK, RunOp
  <2>2. prog.ops[cur] \in Seq(Op)
    BY <2>1, ProgFacts DEF TypeOK
  <2> QED
    BY <2>1, <2>2
<1>6. /\ o.op \in {"data", "end", "add"} =>
           m'.r = m.r /\ sigma'.r = sigma.r /\ worth(sigma') = worth(sigma)
      /\ o.op \in {"len", "diff", "adjust"} => worth(sigma') = m'.r
      /\ o.op = "read" /\ m.head = Headroom => worth(sigma') = m'.r
      /\ o.op \in {"read", "adjust"} => sigma'.r.is = "value"
  BY <1>2, <1>3, <1>4, WorthOp
<1>7. o.op \in {"data", "end", "add", "read", "len", "diff", "adjust"}
  BY <1>2 DEF Op
<1>8. calls_only => sigma'.r.is = "value"
  <2> SUFFICES ASSUME calls_only PROVE sigma'.r.is = "value"
    OBVIOUS
  <2>1. o.op \notin {"read", "len", "diff"}
    BY <1>5 DEF calls_only
  <2>2. sigma.r.is = "value"
    BY DEF ValueInv
  <2> QED
    BY <1>6, <1>7, <2>1, <2>2
<1>9. still => m'.head = Headroom /\ sigma'.len = frame
  <2> SUFFICES ASSUME still PROVE m'.head = Headroom /\ sigma'.len = frame
    OBVIOUS
  <2>1. o.op = "adjust" => o.kind = "meta"
    BY <1>5 DEF still
  <2>2. m.head = Headroom /\ sigma.len = frame
    BY <1>1 DEF ValueInv
  <2>3. m'.head = m.head
    <3>1. ~isHead(o)
      BY <2>1 DEF isHead
    <3> QED
      BY <1>2, <1>3, <3>1, ExecFacts
  <2>4. sigma'.len = sigma.len
    BY <1>2, <1>3, <2>1, EncodeFacts
  <2> QED
    BY <2>2, <2>3, <2>4
<1>10. ASSUME m'.r # None, settled(cur, pos + 1) PROVE worth(sigma') = m'.r
  <2>1. /\ o.op \in {"data", "end", "add"} => settled(cur, pos)
        /\ o.op = "read" => still
    BY <1>5, <1>10, SettledOp DEF TypeOK
  <2>2. CASE o.op \in {"data", "end", "add"}
    <3>1. m.r # None /\ settled(cur, pos) /\ m'.r = m.r /\ worth(sigma') = worth(sigma)
      BY <1>6, <1>10, <2>1, <2>2
    <3>2. worth(sigma) = m.r
      BY <1>1, <3>1 DEF ValueInv
    <3> QED
      BY <3>1, <3>2
  <2>3. CASE o.op \in {"len", "diff", "adjust"}
    BY <1>6, <2>3
  <2>4. CASE o.op = "read"
    <3>1. m.head = Headroom
      BY <1>1, <2>1, <2>4 DEF ValueInv
    <3> QED
      BY <1>6, <2>4, <3>1
  <2> QED
    BY <1>7, <2>2, <2>3, <2>4
<1>11. (calls_only' <=> calls_only) /\ (still' <=> still) /\ (settled(cur, pos)' <=> settled(cur, pos + 1))
  BY <1>1, <1>2 DEF calls_only, still, settled, computes
<1> QED
  BY <1>1, <1>8, <1>9, <1>10, <1>11 DEF ValueInv

\* The value of r across an edge, where only a frame that stays as it is or an r
\* that is no length keeps it.
LEMMA ValueEdgeStep ==
  ASSUME TypeOK, TrackInv, RunInv, ValueInv, RunEdge
  PROVE  ValueInv'
<1>1. /\ frame # None /\ cur \in Block /\ cur # None
      /\ prog' = prog /\ frame' = frame /\ pos' = 1
  BY RunEdgeFacts, ViewFacts
<1>2. /\ m'.head = m.head /\ m'.r \in {None, m.r} /\ sigma'.len = sigma.len
  BY RunEdgeState
<1>3. sigma' = sigma \/ (sigma.r.is = "length" /\ sigma' = [sigma EXCEPT !.r = bound_to(frame - sigma.r.v)])
  BY DEF RunEdge, at_entry
<1>4. sigma \in Encoder
  BY DEF TypeOK
<1>5. calls_only => sigma'.r.is = "value"
  <2> SUFFICES ASSUME calls_only PROVE sigma'.r.is = "value"
    OBVIOUS
  <2>1. sigma.r.is = "value"
    BY DEF ValueInv
  <2> QED
    BY <1>3, <2>1
<1>6. still => m'.head = Headroom /\ sigma'.len = frame
  BY <1>1, <1>2 DEF ValueInv
<1>7. still \/ calls_only => worth(sigma') = worth(sigma)
  <2>1. CASE sigma' = sigma
    BY <2>1
  <2>2. CASE sigma.r.is = "length" /\ sigma' = [sigma EXCEPT !.r = bound_to(frame - sigma.r.v)]
    <3>1. ~calls_only
      BY <2>2 DEF ValueInv
    <3>2. still => sigma.len = frame
      BY <1>1 DEF ValueInv
    <3>3. worth(sigma) = sigma.len - sigma.r.v
      BY <2>2 DEF worth
    <3>4. sigma'.r = bound_to(frame - sigma.r.v)
      BY <1>4, <2>2 DEF Encoder
    <3>5. worth(sigma') = frame - sigma.r.v
      BY <3>4 DEF worth, bound_to
    <3> QED
      BY <3>1, <3>2, <3>3, <3>5
  <2> QED
    BY <1>3, <2>1, <2>2
<1>8. ASSUME m'.r # None, still \/ calls_only PROVE worth(sigma') = m'.r
  <2>1. m.r # None /\ m'.r = m.r /\ settled(cur, pos)
    BY <1>2, <1>8 DEF settled
  <2>2. worth(sigma) = m.r
    BY <1>1, <2>1 DEF ValueInv
  <2> QED
    BY <1>7, <1>8, <2>1, <2>2
<1>9. /\ (calls_only' <=> calls_only) /\ (still' <=> still)
      /\ settled(cur, pos)' => still \/ calls_only
  BY <1>1 DEF calls_only, still, settled, computes
<1> QED
  BY <1>1, <1>5, <1>6, <1>8, <1>9 DEF ValueInv

\* A recorded test of a value has the machine's side where the value is settled.
LEMMA ZeroTaken ==
  ASSUME TypeOK, TrackInv, RunInv, ValueInv, settles, RunEdge, taken'.on = "zero"
  PROVE  taken'.z = taken'.m
<1> DEFINE s == last(cur)
           c == prog.cond[cur]
           d == blk[cur].cond
           known == branch(cur) /\ d # None
           br == track_branch(s, c)
           go == taken'.m
<1>1. /\ frame # None /\ cur \in Block /\ s \in State /\ ended(cur) /\ c \in Cond
      /\ branch(cur) => go = machine_taken(m, c)
      /\ branch(cur) /\ c.on = "ret" => m.r # None
      /\ cur # None /\ pos = Len(prog.ops[cur]) + 1
  BY RunEdgeFacts, ViewFacts DEF RunEdge
<1>2. /\ taken'.on = IF known THEN d.is ELSE "none"
      /\ taken'.z = IF known THEN to_z3(d, sigma) ELSE "none"
  <2>1. \E g : taken' = [on |-> IF known THEN d.is ELSE "none", m |-> g,
                         z |-> IF known THEN to_z3(d, sigma) ELSE "none"]
    BY Zenon DEF RunEdge
  <2> HIDE DEF known, d
  <2> QED
    BY <2>1
<1>3. known /\ d.is = "zero" /\ taken'.z = to_z3(d, sigma)
  BY <1>2
<1>4. branch(cur) /\ d # None /\ d = br.cond /\ go = machine_taken(m, c)
  BY <1>1, <1>3 DEF ended
<1>5. c.on = "ret" /\ s.r.is # "ret" /\ d = [is |-> "zero", code |-> c.code]
  <2>1. c.on \in {"ret", "bound", "tail", "free"}
    BY <1>1 DEF Cond
  <2> HIDE DEF s, c, d
  <2> QED
    BY <1>3, <1>4, <2>1 DEF track_branch, br
<1>6. worth(sigma) = m.r
  <2>1. settled(cur, pos)
    BY <1>1, <1>5 DEF settles
  <2> QED
    BY <1>1, <1>4, <1>5, <2>1 DEF ValueInv
<1>7. go = side(m.r = 0 <=> c.code = "JEQ")
  BY <1>4, <1>5 DEF machine_taken
<1>8. to_z3(d, sigma) = side(worth(sigma) = 0 <=> c.code = "JEQ")
  <2>1. d.is = "zero" /\ d.code = c.code
    BY <1>5
  <2> HIDE DEF d, c
  <2> QED
    BY <2>1 DEF to_z3
<1> QED
  BY <1>3, <1>6, <1>7, <1>8 DEF go

-----------------------------------------------------------------------------
(* The start. *)

\* Nothing is known before the first block.
LEMMA InitStep ==
  ASSUME Init
  PROVE  IndInv /\ ViewSound /\ PendingInv
<1>1. /\ prog \in Programs /\ frame = None /\ next = 0 /\ refused = FALSE
      /\ blk = [b \in Block |-> [at |-> << >>, cond |-> None, t |-> {}, f |-> {}]]
      /\ cur = 0 /\ pos = 1 /\ taken = [on |-> "none", m |-> "taken", z |-> "none"]
      /\ m = [head |-> Headroom, tail |-> Headroom, p |-> None, e |-> None, r |-> None, view |-> Entry]
      /\ sigma = [len |-> 0, ok |-> {}, off |-> 0, r |-> bound_to(0)]
  BY DEF Init
<1>2. \A b \in Block : /\ blk[b].at = << >> /\ blk[b].t = {} /\ blk[b].f = {}
                       /\ Len(blk[b].at) = 0
  BY <1>1
<1>3. TypeOK
  <2>1. m \in Machine
    BY <1>1, FrameAssumption, ViewFacts DEF Machine
  <2>2. sigma \in Encoder
    BY <1>1 DEF Encoder, bound_to
  <2>3. blk \in [Block -> [at : Seq(State), cond : Condition, t : SUBSET Known, f : SUBSET Known]]
    <3>1. << >> \in Seq(State) /\ None \in Condition
      BY DEF Condition
    <3> QED
      BY <1>1, <3>1
  <2>4. 0 \in Block /\ next \in 0 .. N /\ pos \in Nat \ {0}
    BY <1>1, NAssumption DEF Block
  <2> QED
    BY <1>1, <2>1, <2>2, <2>3, <2>4 DEF TypeOK
<1>4. TrackInv
  <2> SUFFICES ASSUME NEW b \in Block
               PROVE  /\ b > next => blk[b].at = << >>
                      /\ b < next => ended(b)
                      /\ b >= next => blk[b].t = {} /\ blk[b].f = {}
                      /\ steps(b)
                      /\ blk[b].at # << >> => joined(b)
    BY DEF TrackInv
  <2>1. ~(b < next)
    BY <1>1, NAssumption DEF Block
  <2>2. Len(prog.ops[b]) \in Nat
    BY <1>1, ProgFacts
  <2>3. steps(b)
    BY <1>2, <2>2 DEF steps
  <2> QED
    BY <1>2, <2>1, <2>3
<1>5. RunInv
  <2>1. m.head = Headroom /\ m.tail = Headroom /\ m.p = None /\ m.e = None /\ m.view = Entry
    BY <1>1
  <2>2. sigma.len = 0 /\ sigma.off = 0
    BY <1>1
  <2> QED
    BY <1>1, <2>1, <2>2, FrameAssumption DEF RunInv
<1>6. CarefulInv
  <2>1. \A b \in Block : 1 .. Len(blk[b].at) = {}
    BY <1>2
  <2> QED
    BY <1>1, <2>1, Zenon DEF CarefulInv
<1>7. BoundsExact
  <2>1. taken.on = "none"
    BY <1>1
  <2> QED
    BY <1>5, <2>1 DEF BoundsExact, RunInv
<1> QED
  BY <1>1, <1>3, <1>4, <1>5, <1>6, <1>7 DEF IndInv, ViewSound, PendingInv

\* Tracker's own steps come before the run.
LEMMA TrackerStep ==
  ASSUME TypeOK, TrackInv, RunInv, BoundsExact, TrackEntry \/ TrackOp \/ TrackEnd
  PROVE  TypeOK' /\ TrackInv' /\ RunInv' /\ BoundsExact' /\ ViewSound' /\ PendingInv'
<1>1. TypeOK' /\ TrackInv'
  BY TrackEntryStep, TrackOpStep, TrackEndStep
<1>2. UNCHANGED <<inputs, run>> /\ next < N
  BY Zenon DEF TrackEntry, TrackOp, TrackEnd
<1>3. /\ frame' = frame /\ cur' = cur /\ pos' = pos /\ m' = m /\ sigma' = sigma /\ taken' = taken
      /\ frame = None
  <2>1. next # N
    BY <1>2, NAssumption DEF TypeOK
  <2> QED
    BY <1>2, <2>1 DEF inputs, run, RunInv
<1>4. RunInv' /\ BoundsExact'
  BY <1>3 DEF RunInv, BoundsExact
<1>5. ViewSound' /\ PendingInv'
  BY <1>3 DEF ViewSound, PendingInv
<1> QED
  BY <1>1, <1>4, <1>5

\* The frame arrives at the first block, where nothing has been called.
LEMMA FeedStep ==
  ASSUME TypeOK, TrackInv, RunInv, BoundsExact, Feed
  PROVE  TypeOK' /\ TrackInv' /\ RunInv' /\ BoundsExact' /\ ViewSound' /\ PendingInv'
<1>1. /\ next = N /\ frame = None /\ frame' \in Lens
      /\ m' = [m EXCEPT !.tail = Headroom + frame'] /\ sigma' = [sigma EXCEPT !.len = frame']
      /\ prog' = prog /\ next' = next /\ blk' = blk /\ cur' = cur /\ pos' = pos /\ taken' = taken
  BY DEF Feed
<1>2. frame' \in Nat /\ Headroom \in Nat /\ frame' # None
  BY <1>1, FrameAssumption, ViewFacts
<1>3. m \in Machine /\ sigma \in Encoder
  BY DEF TypeOK
<1>4. cur = 0 /\ pos = 1 /\ m.head = Headroom /\ m.view = Entry /\ m.p = None /\ m.e = None
  BY <1>1 DEF RunInv
<1>5. /\ m' \in Machine /\ m'.head = Headroom /\ m'.tail = Headroom + frame'
      /\ m'.view = Entry /\ m'.p = None /\ m'.e = None
  BY <1>1, <1>2, <1>3, <1>4 DEF Machine
<1>6. sigma' \in Encoder /\ sigma'.len = frame' /\ sigma'.off = sigma.off
  BY <1>1, <1>2, <1>3 DEF Encoder
<1>7. TypeOK'
  BY <1>1, <1>5, <1>6 DEF TypeOK
<1>8. TrackInv'
  BY <1>1, TrackFrame DEF TypeOK
<1>9. blk[0].at[1] = fresh(Entry) /\ Len(prog.ops[0]) \in Nat
  <2>1. 0 \in Block /\ 0 < next
    BY <1>1, NAssumption DEF Block
  <2>2. Len(prog.ops[0]) \in Nat
    BY <2>1, ProgFacts DEF TypeOK
  <2>3. ended(0) /\ (blk[0].at # << >> => joined(0))
    BY <2>1, Zenon DEF TrackInv
  <2>4. Len(blk[0].at) = Len(prog.ops[0]) + 1
    BY <2>3 DEF ended
  <2>5. joined(0)
    BY <2>2, <2>3, <2>4
  <2> QED
    BY <2>2, <2>5 DEF joined
<1>10. LET s == blk'[cur'].at[pos'] IN
       s.ctx = Entry /\ s.pending = None /\ s.r.is = "none"
  BY <1>1, <1>4, <1>9 DEF fresh, none, value
<1>11. sigma'.len = m'.tail - m'.head
  <2>1. \A h, l \in Nat : l = (h + l) - h
    OBVIOUS
  <2>2. frame' = (Headroom + frame') - Headroom
    BY ONLY <1>2, <2>1
  <2> QED
    BY ONLY <1>5, <1>6, <2>2, Zenon
<1>12. RunInv'
  <2>1. sigma'.len >= 0 /\ sigma'.off >= 0
    BY <1>2, <1>6 DEF RunInv
  <2> QED
    BY <2>1, <1>1, <1>2, <1>4, <1>5, <1>9, <1>10, <1>11 DEF RunInv
<1>13. BoundsExact'
  BY <1>1, <1>11 DEF BoundsExact
<1>14. ViewSound' /\ PendingInv'
  BY <1>5, <1>10 DEF ViewSound, PendingInv
<1> QED
  BY <1>7, <1>8, <1>12, <1>13, <1>14

\* A step that changes nothing.
LEMMA StutterStep ==
  ASSUME TypeOK, TrackInv, RunInv, BoundsExact, UNCHANGED vars
  PROVE  /\ TypeOK' /\ TrackInv' /\ RunInv' /\ BoundsExact'
         /\ (ViewSound /\ PendingInv) => (ViewSound' /\ PendingInv')
<1>1. /\ prog' = prog /\ frame' = frame /\ next' = next /\ blk' = blk /\ refused' = refused
      /\ cur' = cur /\ pos' = pos /\ m' = m /\ sigma' = sigma /\ taken' = taken
  BY DEF vars
<1>2. TypeOK'
  BY <1>1 DEF TypeOK
<1>3. TrackInv'
  BY <1>1, TrackFrame DEF TypeOK
<1>4. RunInv' /\ BoundsExact'
  BY <1>1 DEF RunInv, BoundsExact
<1>5. (ViewSound /\ PendingInv) => (ViewSound' /\ PendingInv')
  BY <1>1 DEF ViewSound, PendingInv
<1> QED
  BY <1>2, <1>3, <1>4, <1>5

-----------------------------------------------------------------------------
(* The theorems. *)

\* For every program, every length of the frame and every outcome of its calls:
\* Tracker's results are what its instructions made of its predecessors' results,
\* and the run, the encoder and Tracker agree on frame, pointers and call results.
THEOREM PktInvariant == Spec => []IndInv
<1>1. Init => IndInv
  BY InitStep
<1>2. IndInv /\ [Next]_vars => IndInv'
  <2> SUFFICES ASSUME IndInv, [Next]_vars PROVE IndInv'
    OBVIOUS
  <2>1. TypeOK /\ TrackInv /\ RunInv /\ CarefulInv /\ BoundsExact
    BY DEF IndInv
  <2>2. CarefulInv'
    BY <2>1, CarefulStep
  <2>3. TypeOK' /\ TrackInv' /\ RunInv' /\ BoundsExact'
    <3>1. CASE TrackEntry \/ TrackOp \/ TrackEnd
      BY <2>1, <3>1, TrackerStep
    <3>2. CASE Feed
      BY <2>1, <3>2, FeedStep
    <3>3. CASE RunOp
      BY <2>1, <3>3, RunOpStep
    <3>4. CASE RunEdge
      BY <2>1, <3>4, RunEdgeStep
    <3>5. CASE UNCHANGED vars
      BY <2>1, <3>5, StutterStep
    <3> QED
      BY <3>1, <3>2, <3>3, <3>4, <3>5 DEF Next
  <2> QED
    BY <2>2, <2>3 DEF IndInv
<1> QED
  BY <1>1, <1>2, PTL DEF Spec

\* No program that loads its packet pointers in the block that uses them, after
\* its adjustments, is refused by track_block, pkt_size_check or expr_to_z3.
THEOREM ReloadsAreAccepted == Spec => []ReloadAccepted
<1>1. IndInv => ReloadAccepted
  BY DEF IndInv, CarefulInv, ReloadAccepted
<1> QED
  BY <1>1, PktInvariant, PTL

\* A bounds check that track_branch turned into a condition on pkt_len, and a test
\* of an adjust result, has in the encoding the side the machine takes; pkt_len is
\* the length of the frame after every succession of adjustments.
THEOREM BoundsAreExact == Spec => []BoundsExact
<1>1. IndInv => BoundsExact
  BY DEF IndInv
<1> QED
  BY <1>1, PktInvariant, PTL

\* Where Tracker knows the view of the context or of a live packet pointer, it is
\* the last head adjustment that succeeded on the path, if no conditional jump
\* leads to the next instruction.
THEOREM ViewsAreSound == ASSUME DistinctEdges PROVE Spec => []ViewSound
<1> DEFINE VInv == ViewSound /\ PendingInv
<1>1. Init => VInv
  BY InitStep
<1>2. IndInv /\ VInv /\ [Next]_vars => VInv'
  <2> SUFFICES ASSUME IndInv, ViewSound, PendingInv, [Next]_vars PROVE ViewSound' /\ PendingInv'
    OBVIOUS
  <2>1. TypeOK /\ TrackInv /\ RunInv /\ BoundsExact
    BY DEF IndInv
  <2>2. CASE TrackEntry \/ TrackOp \/ TrackEnd
    BY <2>1, <2>2, TrackerStep
  <2>3. CASE Feed
    BY <2>1, <2>3, FeedStep
  <2>4. CASE RunOp
    BY <2>1, <2>4, ViewOpStep
  <2>5. CASE RunEdge
    BY <2>1, <2>5, ViewEdgeStep
  <2>6. CASE UNCHANGED vars
    BY <2>1, <2>6, StutterStep
  <2> QED
    BY <2>2, <2>3, <2>4, <2>5, <2>6 DEF Next
<1>3. VInv => ViewSound
  OBVIOUS
<1> HIDE DEF VInv
<1> QED
  BY <1>1, <1>2, <1>3, PktInvariant, PTL DEF Spec
\* Every condition of track_branch has in the encoding the side the machine takes, a
\* test of a length, of a byte or of a joined result included, in every program
\* whose tests of r are settled: the packet stays where it is, r holds nothing but
\* call results, or the block of the test computes r as a length or by a call.
THEOREM BranchesAreExact == Spec => [](settles => BranchExact)
<1> DEFINE ZeroExact == taken.on = "zero" => taken.z = taken.m
           BInv == ValueInv /\ (settles => ZeroExact)
<1>1. Init => BInv
  <2> SUFFICES ASSUME Init PROVE BInv
    OBVIOUS
  <2>1. frame = None /\ taken.on = "none" /\ m.r = None /\ sigma.r.is = "value"
    BY DEF Init, bound_to
  <2> QED
    BY <2>1 DEF ValueInv
<1>2. IndInv /\ BInv /\ [Next]_vars => BInv'
  <2> SUFFICES ASSUME IndInv, ValueInv, settles => ZeroExact, [Next]_vars
               PROVE  ValueInv' /\ (settles' => ZeroExact')
    OBVIOUS
  <2>1. TypeOK /\ TrackInv /\ RunInv
    BY DEF IndInv
  <2>2. prog' = prog
    BY Zenon DEF Next, vars, inputs, TrackEntry, TrackOp, TrackEnd, Feed, RunOp, RunEdge
  <2>3. /\ settles' <=> settles
        /\ calls_only' <=> calls_only
        /\ still' <=> still
    BY <2>2 DEF settles, settled, computes, still, calls_only
  <2>4. CASE TrackEntry \/ TrackOp \/ TrackEnd \/ UNCHANGED vars
    <3>1. /\ frame' = frame /\ cur' = cur /\ pos' = pos /\ m' = m /\ sigma' = sigma /\ taken' = taken
      BY <2>4, Zenon DEF TrackEntry, TrackOp, TrackEnd, vars, inputs, run
    <3>2. settled(cur, pos)' <=> settled(cur, pos)
      BY <2>2, <3>1 DEF settled, computes, still, calls_only
    <3> QED
      BY <2>3, <3>1, <3>2 DEF ValueInv, worth
  <2>5. CASE Feed
    <3>1. /\ frame = None /\ frame' \in Lens /\ taken' = taken
          /\ m' = [m EXCEPT !.tail = Headroom + frame'] /\ sigma' = [sigma EXCEPT !.len = frame']
      BY <2>5 DEF Feed
    <3>2. m \in Machine /\ sigma \in Encoder
      BY <2>1 DEF TypeOK
    <3>3. m'.r = m.r /\ m'.head = m.head /\ sigma'.r = sigma.r /\ sigma'.len = frame'
      BY <3>1, <3>2 DEF Machine, Encoder
    <3>4. m.r = None /\ m.head = Headroom
      BY <2>1, <3>1 DEF ValueInv, RunInv
    <3> QED
      BY <2>3, <3>1, <3>3, <3>4 DEF ValueInv
  <2>6. CASE RunOp
    <3>1. ValueInv' /\ taken' = taken
      BY <2>1, <2>6, ValueOpStep DEF RunOp
    <3> QED
      BY <2>3, <3>1
  <2>7. CASE RunEdge
    BY <2>1, <2>3, <2>7, ValueEdgeStep, ZeroTaken
  <2> QED
    BY <2>4, <2>5, <2>6, <2>7 DEF Next
<1>3. IndInv /\ BInv => (settles => BranchExact)
  BY DEF IndInv, BranchExact
<1> HIDE DEF BInv
<1> QED
  BY <1>1, <1>2, <1>3, PktInvariant, PTL DEF Spec
=============================================================================
