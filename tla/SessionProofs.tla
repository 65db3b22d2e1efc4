----------------------------- MODULE SessionProofs -----------------------------
(***************************************************************************)
(* For every number of passes and object file versions and every order of  *)
(* calls: an answer is of one version of the program, reports are rendered *)
(* from current facts, and no query retracks blocks a context refers to.   *)
(***************************************************************************)
EXTENDS Session, TLAPS

-----------------------------------------------------------------------------
(* The passes, one by one. *)

\* _done(stage): earlier stages stay done, later ones do not.
LEMMA DoneFacts ==
  ASSUME NEW T \in SUBSET {"decode", "cfg", "track"}
  PROVE  /\ done(T, 1) = {"decode"}
         /\ done(T, 2) = (T \cap {"decode"}) \cup {"cfg"}
         /\ done(T, 3) = (T \cap {"decode", "cfg"}) \cup {"track"}
<1>1. { STAGES[i] : i \in 1 .. 1 - 1 } = {} /\ STAGES[1] = "decode"
  BY DEF STAGES
<1>2. { STAGES[i] : i \in 1 .. 2 - 1 } = {"decode"} /\ STAGES[2] = "cfg"
  BY DEF STAGES
<1>3. { STAGES[i] : i \in 1 .. 3 - 1 } = {"decode", "cfg"} /\ STAGES[3] = "track"
  BY DEF STAGES
<1> QED
  BY <1>1, <1>2, <1>3 DEF done

\* analyze() has nothing to do when all three stages are done.
LEMMA CurrentFacts ==
  ASSUME NEW p
  PROVE  current(p) <=> {"decode", "cfg", "track"} \subseteq p.timings
<1>1. ToSet(STAGES) = {"decode", "cfg", "track"}
  BY DEF STAGES, ToSet
<1> QED
  BY <1>1 DEF current

\* build_cfg's assignments to the fields of the program keep their types.
LEMMA ProgramUpdate ==
  ASSUME NEW p \in Program, NEW L \in Seq(BlockList), NEW b \in Nat,
         NEW T \in SUBSET {"decode", "cfg", "track"}
  PROVE  [p EXCEPT !.lists = L, !.blocks = b, !.timings = T] \in Program
BY DEF Program

\* The two assignments track makes to a block.
LEMMA BlockUpdate ==
  ASSUME NEW e \in BlockList, NEW n, NEW v
  PROVE  [[e EXCEPT !.pass = n] EXCEPT !.brief = v] = [ver |-> e.ver, pass |-> n, brief |-> v]
<1> DEFINE F == {"ver", "pass", "brief"}
           u == [[e EXCEPT !.pass = n] EXCEPT !.brief = v]
           w == [ver |-> e.ver, pass |-> n, brief |-> v]
<1>1. DOMAIN e = F /\ e = [x \in F |-> e[x]]
  BY Zenon DEF BlockList
<1>2. u = [x \in F |-> u[x]] /\ w = [x \in F |-> w[x]]
  BY <1>1, Zenon
<1>3. u.ver = w.ver /\ u.pass = w.pass /\ u.brief = w.brief
  BY <1>1
<1>4. \A x \in F : u[x] = w[x]
  BY <1>3, Zenon
<1> QED
  BY <1>2, <1>4, Zenon

\* The program keeps its invariant.
Kept(p, n) == p \in Program /\ p.blocks \in 0 .. Len(p.lists) /\ p.decoded \in 0 .. p.file
              /\ TimingsTell(p) /\ FactsTell(p) /\ PassesUpto(p, n)

\* decode_binary leaves the blocks alone and forgets what it made of them.
LEMMA DecodeFacts ==
  ASSUME NEW n \in Nat, NEW p, Kept(p, n), NEW q, q = decode_binary(p)
  PROVE  /\ Kept(q, n)
         /\ q.lists = p.lists /\ q.timings = {"decode"}
<1>1. done(p.timings, 1) = {"decode"}
  BY DoneFacts DEF Kept, Program
<1>2. /\ q \in Program /\ q.decoded = p.file /\ q.timings = {"decode"}
      /\ q.file = p.file /\ q.lists = p.lists /\ q.blocks = p.blocks
  BY <1>1 DEF Kept, Program, decode_binary
<1> QED
  BY <1>2 DEF Kept, TimingsTell, FactsTell, PassesUpto, Program

\* build_cfg makes a new list of untracked blocks.
LEMMA BuildFacts ==
  ASSUME NEW n \in Nat, NEW p, Kept(p, n), NEW q, q = build_cfg(p)
  PROVE  /\ Kept(q, n)
         /\ Len(q.lists) = Len(p.lists) + 1 /\ q.blocks = Len(p.lists) + 1
         /\ \A l \in 1 .. Len(p.lists) : q.lists[l] = p.lists[l]
         /\ q.lists[q.blocks].pass = 0
         /\ q.timings = (p.timings \cap {"decode"}) \cup {"cfg"}
<1> DEFINE new == [ver |-> p.decoded, pass |-> 0, brief |-> FALSE]
<1>1. q.timings = (p.timings \cap {"decode"}) \cup {"cfg"}
  BY DoneFacts DEF Kept, Program, build_cfg
<1>2. new \in BlockList
  BY DEF Kept, Program, BlockList
<1>3. /\ Append(p.lists, new) \in Seq(BlockList)
      /\ Len(Append(p.lists, new)) = Len(p.lists) + 1
      /\ \A l \in 1 .. Len(p.lists) : Append(p.lists, new)[l] = p.lists[l]
      /\ Append(p.lists, new)[Len(p.lists) + 1] = new
  BY <1>2 DEF Kept, Program
<1>4. /\ q.lists = Append(p.lists, new) /\ q.blocks = Len(p.lists) + 1
      /\ q.file = p.file /\ q.decoded = p.decoded
  BY DEF Kept, Program, build_cfg
<1>5. Len(p.lists) \in Nat
  BY DEF Kept, Program
<1>6. q \in Program
  <2>1. p \in Program /\ Len(p.lists) + 1 \in Nat /\ done(p.timings, 2) \in SUBSET {"decode", "cfg", "track"}
    BY <1>5, DoneFacts DEF Kept, Program
  <2> QED
    BY <1>3, <2>1, ProgramUpdate DEF build_cfg
<1>7. TimingsTell(q) /\ FactsTell(q)
  BY <1>1, <1>3, <1>4, <1>5 DEF TimingsTell, FactsTell
<1>8. PassesUpto(q, n)
  <2> SUFFICES ASSUME NEW l \in 1 .. Len(q.lists) PROVE q.lists[l].pass <= n
    BY DEF PassesUpto
  <2>1. CASE l \in 1 .. Len(p.lists)
    BY <2>1, <1>3, <1>4 DEF Kept, PassesUpto
  <2>2. CASE l = Len(p.lists) + 1
    BY <2>2, <1>3, <1>4
  <2> QED
    BY <2>1, <2>2, <1>3, <1>4, <1>5
<1> QED
  BY <1>1, <1>3, <1>4, <1>5, <1>6, <1>7, <1>8 DEF Kept, Program

\* track overwrites the blocks of the current list and no other; only a full
\* pass makes calls, resets the facts and is recorded.
LEMMA TrackFacts ==
  ASSUME NEW n \in Nat \ {0}, NEW p, Kept(p, n), p.blocks # 0,
         NEW brief \in BOOLEAN, NEW q, q = track(p, brief, n)
  PROVE  /\ Kept(q, n)
         /\ Len(q.lists) = Len(p.lists) /\ q.blocks = p.blocks
         /\ \A l \in 1 .. Len(p.lists) : l # p.blocks => q.lists[l] = p.lists[l]
         /\ ~brief => q.timings = (p.timings \cap {"decode", "cfg"}) \cup {"track"}
<1> DEFINE b == p.blocks
           new == [ver |-> p.lists[b].ver, pass |-> n, brief |-> brief]
<1>1. b \in 1 .. Len(p.lists) /\ p.lists[b] \in BlockList /\ Len(p.lists) \in Nat
  BY DEF Kept, Program
<1>2. done(p.timings, 3) = (p.timings \cap {"decode", "cfg"}) \cup {"track"}
  BY DoneFacts DEF Kept, Program
<1>3. new \in BlockList
  BY <1>1 DEF BlockList
<1>4. [[p.lists EXCEPT ![b].pass = n] EXCEPT ![b].brief = brief] = [p.lists EXCEPT ![b] = new]
  <2>1. PICK s \in Seq(BlockList) : s = p.lists
    BY DEF Kept, Program
  <2>2. [[s[b] EXCEPT !.pass = n] EXCEPT !.brief = brief] = new
    <3>1. s[b] \in BlockList /\ s[b] = p.lists[b]
      BY <1>1, <2>1
    <3>2. [[s[b] EXCEPT !.pass = n] EXCEPT !.brief = brief] = [ver |-> s[b].ver, pass |-> n, brief |-> brief]
      BY <3>1, BlockUpdate, Zenon
    <3> QED
      BY <3>1, <3>2, Zenon
  <2>3. [[s EXCEPT ![b].pass = n] EXCEPT ![b].brief = brief]
          = [s EXCEPT ![b] = [[s[b] EXCEPT !.pass = n] EXCEPT !.brief = brief]]
    <3> HIDE DEF new
    <3> DEFINE e == [s[b] EXCEPT !.pass = n]
    <3>1. b \in DOMAIN s
      BY <1>1, <2>1
    <3>2. [s EXCEPT ![b] = e][b] = e
      BY <3>1
    <3> HIDE DEF e
    <3>3. [[s EXCEPT ![b] = e] EXCEPT ![b].brief = brief] = [s EXCEPT ![b] = [e EXCEPT !.brief = brief]]
      BY <3>1, <3>2
    <3> QED
      BY <3>3 DEF e
  <2> QED
    BY <2>1, <2>2, <2>3
<1>5. q = [p EXCEPT !.lists = [p.lists EXCEPT ![b] = new],
                    !.calls = IF brief THEN p.calls ELSE << b, n >>,
                    !.facts = IF brief THEN p.facts ELSE NONE,
                    !.timings = IF brief THEN p.timings ELSE done(p.timings, 3)]
  BY <1>4 DEF track, Kept, Program
<1>6. /\ q.lists = [p.lists EXCEPT ![b] = new] /\ q.blocks = b
      /\ q.calls = (IF brief THEN p.calls ELSE << b, n >>)
      /\ q.facts = (IF brief THEN p.facts ELSE NONE)
      /\ q.timings = (IF brief THEN p.timings ELSE done(p.timings, 3))
      /\ q.file = p.file /\ q.decoded = p.decoded
  BY <1>5 DEF Kept, Program
<1>7. /\ q.lists \in Seq(BlockList) /\ Len(q.lists) = Len(p.lists)
      /\ \A l \in 1 .. Len(p.lists) : q.lists[l] = IF l = b THEN new ELSE p.lists[l]
  BY <1>1, <1>3, <1>6 DEF Kept, Program
<1>8. q \in Program
  <2>1. /\ p \in Program
        /\ (IF brief THEN p.calls ELSE << b, n >>) \in {<< >>} \cup (Nat \X Nat)
        /\ (IF brief THEN p.facts ELSE NONE) \in {NONE} \cup (Nat \X Nat)
        /\ (IF brief THEN p.timings ELSE done(p.timings, 3)) \in SUBSET {"decode", "cfg", "track"}
    BY <1>1, <1>2 DEF Kept, Program
  <2>2. [p.lists EXCEPT ![b] = new] \in Seq(BlockList)
    BY <1>6, <1>7, Zenon
  <2> QED
    <3> DEFINE L == [p.lists EXCEPT ![b] = new]
               c == IF brief THEN p.calls ELSE << b, n >>
               f == IF brief THEN p.facts ELSE NONE
               T == IF brief THEN p.timings ELSE done(p.timings, 3)
    <3>1. q = [p EXCEPT !.lists = L, !.calls = c, !.facts = f, !.timings = T]
      BY <1>5
    <3>2. L \in Seq(BlockList) /\ c \in {<< >>} \cup (Nat \X Nat)
          /\ f \in {NONE} \cup (Nat \X Nat) /\ T \in SUBSET {"decode", "cfg", "track"}
      BY <2>1, <2>2
    <3> HIDE DEF L, c, f, T
    <3> QED
      BY <2>1, <3>1, <3>2 DEF Program
<1>9. TimingsTell(q)
  <2>1. CASE brief
    <3>1. q.timings = p.timings /\ q.calls = p.calls /\ q.decoded = p.decoded
      BY <2>1, <1>6
    <3>2. p.lists[b].pass <= n /\ p.lists[b].pass \in Nat
      BY <1>1 DEF Kept, PassesUpto, BlockList
    <3>3. q.lists[b] = new /\ q.blocks = b
      BY <1>1, <1>6, <1>7
    <3>4. "track" \in p.timings => p.calls \in Nat \X Nat /\ p.calls[1] = b /\ p.calls[2] <= p.lists[b].pass
      BY DEF Kept, TimingsTell
    <3>5. "track" \in p.timings => p.calls[2] <= n
      BY <3>2, <3>4
    <3>6. "cfg" \in p.timings => p.lists[b].ver = p.decoded
      BY DEF Kept, TimingsTell
    <3> QED
      <4>1. q.lists[q.blocks].pass = n /\ q.lists[q.blocks].ver = p.lists[b].ver
        BY <3>3
      <4>2. q.lists[q.blocks].brief
        <5>1. new.brief = brief
          BY Zenon
        <5> QED
          BY <2>1, <3>3, <5>1, Zenon
      <4> QED
        BY <3>1, <3>3, <3>4, <3>5, <3>6, <4>1, <4>2 DEF TimingsTell
  <2>2. CASE ~brief
    BY <2>2, <1>1, <1>2, <1>6, <1>7 DEF Kept, TimingsTell
  <2> QED
    BY <2>1, <2>2
<1>10. FactsTell(q)
  BY <1>6 DEF Kept, FactsTell
<1>11. PassesUpto(q, n)
  BY <1>7 DEF Kept, PassesUpto
<1> QED
  BY <1>1, <1>2, <1>6, <1>7, <1>8, <1>9, <1>10, <1>11 DEF Kept

\* analyze() runs what is outstanding: afterwards every stage is done, and the
\* only blocks it may have overwritten were not fully tracked.
LEMMA AnalyzeFacts ==
  ASSUME NEW n \in Nat \ {0}, NEW p, Kept(p, n), NEW q, q = analyze(p, n)
  PROVE  /\ Kept(q, n)
         /\ current(q)
         /\ current(p) => q = p
         /\ \A l \in 1 .. Len(p.lists) :
              p.lists[l].pass # 0 /\ ~p.lists[l].brief => q.lists[l] = p.lists[l]
<1> DEFINE d == with_decode(p)
           c == with_cfg(d)
<1>0. Len(p.lists) \in Nat
  BY DEF Kept, Program
<1>1. /\ Kept(d, n) /\ d.lists = p.lists /\ "decode" \in d.timings
      /\ "decode" \in p.timings => d = p
      /\ "decode" \notin p.timings => d.timings = {"decode"}
  BY DecodeFacts DEF with_decode
<1>2. /\ Kept(c, n)
      /\ "cfg" \in c.timings /\ "decode" \in c.timings
      /\ Len(p.lists) <= Len(c.lists)
      /\ \A l \in 1 .. Len(p.lists) : c.lists[l] = p.lists[l]
      /\ "cfg" \in d.timings => c = d
  <2>1. CASE "cfg" \in d.timings
    BY <2>1, <1>0, <1>1 DEF with_cfg
  <2>2. CASE "cfg" \notin d.timings
    BY <2>2, <1>0, <1>1, BuildFacts DEF with_cfg
  <2> QED
    BY <2>1, <2>2
<1>3. c \in Program /\ c.timings \subseteq {"decode", "cfg", "track"}
  BY <1>2 DEF Kept, Program
<1>4. q = IF "track" \in c.timings THEN c ELSE track(c, FALSE, n)
  BY DEF analyze, with_track
<1>5. CASE "track" \in c.timings
  BY <1>1, <1>2, <1>4, <1>5, CurrentFacts
<1>6. CASE "track" \notin c.timings
  <2>1. c.blocks # 0 /\ (c.lists[c.blocks].pass = 0 \/ c.lists[c.blocks].brief)
    BY <1>2, <1>6 DEF Kept, TimingsTell
  <2>2. q = track(c, FALSE, n)
    BY <1>4, <1>6
  <2>3. /\ Kept(q, n)
        /\ \A l \in 1 .. Len(c.lists) : l # c.blocks => q.lists[l] = c.lists[l]
        /\ q.timings = (c.timings \cap {"decode", "cfg"}) \cup {"track"}
    <3> HIDE DEF c
    <3>1. PICK full \in BOOLEAN : full = FALSE
      OBVIOUS
    <3>2. q = track(c, full, n)
      BY <2>2, <3>1, Zenon
    <3>3. Kept(c, n) /\ ~full
      BY <1>2, <3>1
    <3> QED
      BY <2>1, <3>2, <3>3, TrackFacts
  <2>4. current(q)
    BY <2>3, <1>2, CurrentFacts
  <2>5. ~current(p)
    BY <1>1, <1>2, <1>6, CurrentFacts
  <2>6. ASSUME NEW l \in 1 .. Len(p.lists), p.lists[l].pass # 0, ~p.lists[l].brief
        PROVE  q.lists[l] = p.lists[l]
    <3>1. Len(c.lists) \in Nat
      BY <1>3 DEF Program
    <3>2. l \in 1 .. Len(c.lists) /\ c.lists[l] = p.lists[l]
      BY <1>0, <1>2, <3>1
    <3>3. l # c.blocks
      BY <2>1, <2>6, <3>2
    <3> QED
      BY <2>3, <3>2, <3>3
  <2> QED
    BY <2>3, <2>4, <2>5, <2>6
<1> QED
  BY <1>5, <1>6

\* No pass was run.
SameBlocks ==
  /\ prog'.lists = prog.lists /\ prog'.blocks = prog.blocks
  /\ prog'.decoded = prog.decoded /\ prog'.calls = prog.calls

\* What analyze() leaves behind in a query that has to run it, with or without
\* the facts it may compute next.
LEMMA QueryFacts ==
  ASSUME IndInv, CanAnalyze,
         NEW p, p = analyze(prog, passes + 1),
         NEW f, f = << p.blocks, p.lists[p.blocks].pass >>,
         Analyzed(p) \/ (prog.facts = NONE /\ Analyzed([p EXCEPT !.facts = f]))
  PROVE  /\ Kept(prog', passes')
         /\ passes' \in 0 .. MaxPasses
         /\ current(prog')
         /\ current(prog) => SameBlocks
         /\ Analyzed([p EXCEPT !.facts = f]) =>
              prog'.facts[1] = prog'.calls[1] /\ prog'.facts[2] >= prog'.calls[2]
         /\ \A l \in 1 .. Len(prog.lists) :
              prog.lists[l].pass # 0 /\ ~prog.lists[l].brief => prog'.lists[l] = prog.lists[l]
<1> DEFINE n == passes + 1
<1>1. passes \in Nat /\ n \in Nat \ {0} /\ MaxPasses \in Nat /\ passes <= MaxPasses
  BY MaxPassesAssumption DEF IndInv, TypeOK
<1>2. Kept(prog, passes)
  BY DEF IndInv, TypeOK, Kept
<1>3. Kept(prog, n)
  <2>1. PassesUpto(prog, n)
    <3>1. \A l \in 1 .. Len(prog.lists) : prog.lists[l].pass \in Nat
      <4>1. \A l \in 1 .. Len(prog.lists) : prog.lists[l] \in BlockList
        BY <1>2 DEF Kept, Program
      <4> QED
        BY <4>1 DEF BlockList
    <3> QED
      BY <1>1, <1>2, <3>1 DEF Kept, PassesUpto
  <2> QED
    BY <1>2, <2>1 DEF Kept
<1>4. /\ Kept(p, n)
      /\ current(p)
      /\ current(prog) => p = prog
      /\ \A l \in 1 .. Len(prog.lists) :
           prog.lists[l].pass # 0 /\ ~prog.lists[l].brief => p.lists[l] = prog.lists[l]
  BY <1>1, <1>3, AnalyzeFacts
<1>5. /\ prog' \in Program
      /\ prog'.lists = p.lists /\ prog'.blocks = p.blocks /\ prog'.decoded = p.decoded
      /\ prog'.file = p.file /\ prog'.calls = p.calls /\ prog'.timings = p.timings
      /\ prog' = p \/ prog'.facts = f
  <2>1. CASE Analyzed(p)
    BY <2>1, <1>4 DEF Analyzed, Kept
  <2>2. CASE Analyzed([p EXCEPT !.facts = f])
    <3>1. f \in Nat \X Nat
      <4>1. "track" \in p.timings
        BY <1>4, CurrentFacts
      <4>2. p.blocks \in 1 .. Len(p.lists)
        BY <1>4, <4>1 DEF Kept, TimingsTell, Program
      <4>3. p.lists[p.blocks] \in BlockList
        BY <1>4, <4>2 DEF Kept, Program
      <4> QED
        BY <4>2, <4>3 DEF BlockList
    <3> QED
      BY <2>2, <3>1, <1>4 DEF Analyzed, Kept, Program
  <2> QED
    BY <2>1, <2>2
<1>6. passes' = IF p.lists = prog.lists THEN passes ELSE n
  BY <1>4, <1>5 DEF Analyzed, Kept, Program
<1>7. current(prog')
  BY <1>4, <1>5, CurrentFacts
<1>8. TimingsTell(prog')
  BY <1>4, <1>5 DEF Kept, TimingsTell
<1>9. prog'.facts = f => prog'.facts[1] = prog'.calls[1] /\ prog'.facts[2] >= prog'.calls[2]
  <2>1. "track" \in p.timings
    BY <1>4, CurrentFacts
  <2>2. /\ p.calls \in Nat \X Nat
        /\ p.calls[1] = p.blocks /\ p.calls[2] <= p.lists[p.blocks].pass
    BY <2>1, <1>4 DEF Kept, TimingsTell
  <2>3. p.blocks \in 1 .. Len(p.lists) /\ p.lists[p.blocks] \in BlockList
    BY <2>1, <1>4 DEF Kept, TimingsTell, Program
  <2>4. p.lists[p.blocks].pass \in Nat
    BY <2>3 DEF BlockList
  <2> QED
    BY <1>5, <2>2, <2>4
<1>12. FactsTell(prog')
  BY <1>4, <1>5, <1>9 DEF FactsTell, Kept
<1>13. Analyzed([p EXCEPT !.facts = f]) => prog'.facts = f
  BY <1>4 DEF Analyzed, Kept, Program
<1>14. current(prog) => SameBlocks
  BY <1>4, <1>5 DEF SameBlocks
<1>10. PassesUpto(prog', passes')
  BY <1>2, <1>4, <1>5, <1>6 DEF Kept, PassesUpto
<1>11. passes' \in 0 .. MaxPasses
  <2>1. CASE current(prog)
    BY <2>1, <1>1, <1>4, <1>6
  <2>2. CASE ~current(prog)
    BY <2>2, <1>1, <1>6 DEF CanAnalyze
  <2> QED
    BY <2>1, <2>2
<1> QED
  BY <1>4, <1>5, <1>7, <1>8, <1>9, <1>10, <1>11, <1>12, <1>13, <1>14 DEF Kept

\* What an answer has to come from: a policy pol, if any, a context c, whose blocks
\* are t now, and a block list read beside it.
Coherent(pol, c, t, beside) ==
  /\ t.ver = c.maps
  /\ t.pass # 0
  /\ ~t.brief => c.calls = << c.list, t.pass >>
  /\ beside = c.list
  /\ pol # NONE => pol.against = [list |-> c.list, tracked |-> t, maps |-> c.maps, calls |-> c.calls]

\* The context refers to the blocks, maps and calls of the program p.
Refers(c, p) == c.list = p.blocks /\ c.maps = p.decoded /\ c.calls = p.calls

\* While no pass is outstanding, a context and a policy made from the program are
\* of one version and one pass.
LEMMA QueryCoherent ==
  ASSUME NEW p, TimingsTell(p), current(p), NEW c, Refers(c, p),
         NEW pol, pol # NONE => pol.against = against(p)
  PROVE  Coherent(pol, c, p.lists[c.list], p.blocks)
<1> DEFINE t == p.lists[p.blocks]
<1>1. "cfg" \in p.timings /\ "track" \in p.timings
  BY CurrentFacts
<1>2. c.list = p.blocks /\ c.maps = p.decoded /\ c.calls = p.calls
  BY DEF Refers
<1>3. /\ t.ver = p.decoded
      /\ t.pass # 0
      /\ p.calls \in Nat \X Nat
      /\ p.calls[1] = p.blocks
      /\ ~t.brief => p.calls[2] = t.pass
  BY <1>1, Zenon DEF TimingsTell
<1>4. p.calls = << p.calls[1], p.calls[2] >>
  BY <1>3
<1>5. ~t.brief => p.calls = << p.blocks, t.pass >>
  BY <1>3, <1>4, Zenon
<1>6. against(p) = [list |-> c.list, tracked |-> t, maps |-> c.maps, calls |-> c.calls]
  BY <1>2, Zenon DEF against
<1>7. p.lists[c.list] = t
  BY <1>2, Zenon
<1> HIDE DEF t
<1> QED
  BY <1>2, <1>3, <1>5, <1>6, <1>7, Zenon DEF Coherent

\* What a context or a policy made from the program carries.
LEMMA MadeFrom ==
  ASSUME NEW p
  PROVE  /\ \A specs : Refers(context(p, specs), p)
         /\ \A specs, w : Refers([context(p, specs) EXCEPT !.world = w], p)
         /\ \A sp : parsed(p, sp).against = against(p)
<1>1. \A specs : Refers(context(p, specs), p)
  BY Zenon DEF context, Refers
<1>2. \A specs, w : Refers([context(p, specs) EXCEPT !.world = w], p)
  <2> SUFFICES ASSUME NEW specs, NEW w PROVE Refers([context(p, specs) EXCEPT !.world = w], p)
    OBVIOUS
  <2> DEFINE a == context(p, specs)
             c == [a EXCEPT !.world = w]
  <2>1. c.list = a.list /\ c.maps = a.maps /\ c.calls = a.calls
    BY Zenon DEF context
  <2> QED
    BY <1>1, <2>1, Zenon DEF Refers
<1>3. \A sp : parsed(p, sp).against = against(p)
  BY Zenon DEF parsed
<1> QED
  BY <1>1, <1>2, <1>3

\* The slice of a context holds blocks of the program.
LEMMA TargetsFacts ==
  ASSUME NEW k \in Nat, NEW specs \in [1 .. k -> Specs]
  PROVE  targets_of(specs) \subseteq Blocks
<1>1. ToSet(specs) \subseteq Specs
  BY DEF ToSet
<1> QED
  BY <1>1, SpecOfAssumption, Zenon DEF targets_of

-----------------------------------------------------------------------------
(* The theorems. *)

\* The program as the constructor leaves it.
LEMMA InitInv == Init => IndInv
<1> SUFFICES ASSUME Init PROVE IndInv
  OBVIOUS
<1>1. /\ prog.file = 1 /\ prog.decoded = 0 /\ prog.lists = << >> /\ prog.blocks = 0
      /\ prog.calls = << >> /\ prog.facts = NONE /\ prog.timings = {}
  BY DEF Init
<1>2. prog \in Program
  BY DEF Init, Program
<1>3. TypeOK
  BY <1>1, <1>2, MaxPassesAssumption DEF Init, TypeOK
<1>4. TimingsTell(prog) /\ FactsTell(prog) /\ PassesUpto(prog, passes)
  BY <1>1 DEF TimingsTell, FactsTell, PassesUpto
<1> QED
  BY <1>3, <1>4 DEF Init, IndInv, AnswerCoherent, FactsCurrent, KeptTells

\* What the caller may do directly, other than querying.
LEMMA PassKeeps ==
  ASSUME IndInv, Recompile \/ DecodeBinary \/ BuildCfg \/ Track
  PROVE  /\ Kept(prog', passes')
         /\ passes' \in 0 .. MaxPasses
         /\ answer' = NONE /\ ctx' = ctx /\ policy' = policy
         /\ kept' = {} \/ (kept' = kept /\ SameBlocks /\ prog'.timings = prog.timings)
<1>1. /\ passes \in Nat /\ MaxPasses \in Nat /\ passes <= MaxPasses /\ Kept(prog, passes)
  BY MaxPassesAssumption DEF IndInv, TypeOK, Kept
<1>2. CASE Recompile
  <2>1. /\ prog' \in Program /\ prog'.file = prog.file + 1 /\ prog'.decoded = prog.decoded
        /\ prog'.lists = prog.lists /\ prog'.blocks = prog.blocks
        /\ prog'.calls = prog.calls /\ prog'.facts = prog.facts /\ prog'.timings = prog.timings
    BY <1>1, <1>2 DEF Recompile, Kept, Program
  <2>2. prog'.decoded \in 0 .. prog'.file
    BY <1>1, <2>1 DEF Kept, Program
  <2> QED
    BY <1>1, <1>2, <2>1, <2>2 DEF Recompile, Kept, TimingsTell, FactsTell, PassesUpto, SameBlocks
<1>3. CASE DecodeBinary
  BY <1>1, <1>3, DecodeFacts DEF DecodeBinary
<1>4. CASE BuildCfg
  BY <1>1, <1>4, BuildFacts DEF BuildCfg
<1>5. CASE Track
  <2>1. passes + 1 \in Nat \ {0} /\ passes + 1 <= MaxPasses /\ passes' = passes + 1
    BY <1>1, <1>5 DEF Track
  <2>2. Kept(prog, passes + 1)
    <3>1. \A l \in 1 .. Len(prog.lists) : prog.lists[l] \in BlockList
      BY <1>1 DEF Kept, Program
    <3>2. PassesUpto(prog, passes + 1)
      BY <1>1, <3>1 DEF Kept, PassesUpto, BlockList
    <3> QED
      BY <1>1, <3>2 DEF Kept
  <2>3. PICK brief \in BOOLEAN : prog' = track(prog, brief, passes + 1)
    BY <1>5 DEF Track
  <2>4. prog.blocks # 0
    BY <1>5 DEF Track
  <2>5. Kept(prog', passes + 1)
    BY <2>1, <2>2, <2>3, <2>4, TrackFacts
  <2> QED
    BY <1>1, <1>5, <2>1, <2>5 DEF Track
<1> QED
  BY <1>2, <1>3, <1>4, <1>5

\* What the answer of a query other than facts has to come from.
LEMMA AnswerShape ==
  ASSUME NEW uses, NEW pol, NEW c, NEW beside, NEW p,
         uses \subseteq kept' => Coherent(pol, c, p.lists[c.list], beside),
         answer' = answered(uses, pol, c, beside, p)
  PROVE  AnswerCoherent' /\ FactsCurrent'
<1>1. /\ answer'.kind = "query" /\ answer'.uses = uses /\ answer'.parsed = pol
      /\ answer'.ctx = c /\ answer'.tracked = p.lists[c.list] /\ answer'.beside = beside
  BY Zenon DEF answered
<1>2. AnswerCoherent'
  BY <1>1, Zenon DEF AnswerCoherent, Coherent
<1>3. FactsCurrent'
  BY <1>1, "query" # "facts", Zenon DEF FactsCurrent
<1> QED
  BY <1>2, <1>3

\* Kept objects stay up to date in a step that runs no pass over them: none when
\* no pass is outstanding, and otherwise nothing is kept.
LEMMA KeptStays ==
  ASSUME KeptTells, current(prog'), current(prog) => SameBlocks,
         "ctx" \in kept' => ("ctx" \in kept /\ ctx' = ctx) \/ Refers(ctx', prog'),
         "policy" \in kept' =>
            ("policy" \in kept /\ policy' = policy) \/ policy'.against = against(prog')
  PROVE  KeptTells'
<1>1. ASSUME "ctx" \in kept, ctx' = ctx PROVE Refers(ctx', prog')
  BY <1>1 DEF KeptTells, SameBlocks, Refers
<1>2. ASSUME "policy" \in kept, policy' = policy PROVE policy'.against = against(prog')
  BY <1>2 DEF KeptTells, SameBlocks, against
<1> QED
  BY <1>1, <1>2 DEF KeptTells, Refers

\* The queries, other than facts, that analyze first.
Analyzing ==
  \/ \E specs \in Upto(2) : KeepContext(specs)
  \/ \E specs \in Upto(1) : Reachability(specs)
  \/ \E s \in Specs : LoadSpec(s) \/ Verify(s) \/ VerifyIn(s)
  \/ KeepContextOfPolicy \/ ReturnValuesIn

\* Each of them runs analyze() and answers, if at all, from its result or from
\* kept objects that are as new as its result.
LEMMA AnalyzingFacts ==
  ASSUME IndInv, Analyzing
  PROVE  /\ CanAnalyze /\ Analyzed(analyze(prog, passes + 1))
         /\ KeptTells' /\ AnswerCoherent' /\ FactsCurrent'
         /\ kept' \subseteq {"ctx", "policy"}
         /\ ctx' # NONE => ctx' = ctx \/ ctx'.targets \subseteq Blocks
         /\ policy' = policy \/ policy'.spec \in Specs
<1> DEFINE p == analyze(prog, passes + 1)
<1>1. CanAnalyze /\ Analyzed(p)
  BY Zenon DEF Analyzing, KeepContext, Reachability, LoadSpec, Verify, VerifyIn,
     KeepContextOfPolicy, ReturnValuesIn
<1>2. prog' = p
  BY <1>1 DEF Analyzed
<1>3. TimingsTell(p) /\ current(p) /\ current(prog') /\ (current(prog) => SameBlocks)
  <2>1. Kept(prog', passes') /\ current(prog') /\ (current(prog) => SameBlocks)
    BY <1>1, QueryFacts
  <2> QED
    BY <1>2, <2>1, Zenon DEF Kept
<1>4. KeptTells /\ kept \subseteq {"ctx", "policy"}
  BY DEF IndInv, TypeOK
<1>5. ASSUME kept' = kept, ctx' = ctx, policy' = policy
      PROVE  KeptTells' /\ kept' \subseteq {"ctx", "policy"}
  BY <1>3, <1>4, <1>5, KeptStays, Zenon
<1>6. ASSUME KeptTells', NEW uses, uses \subseteq {"ctx"},
             NEW pol, pol = NONE \/ pol.against = against(p),
             NEW c, uses # {} => c = ctx /\ ctx' = ctx, uses = {} => Refers(c, p),
             NEW beside, beside = p.blocks \/ (uses # {} /\ beside = c.list),
             answer' = answered(uses, pol, c, beside, p)
      PROVE  AnswerCoherent' /\ FactsCurrent'
  <2>1. ASSUME uses \subseteq kept' PROVE Coherent(pol, c, p.lists[c.list], beside)
    <3>1. Refers(c, p)
      BY <1>2, <1>6, <2>1 DEF KeptTells, Refers
    <3>2. beside = p.blocks
      BY <1>6, <3>1 DEF Refers
    <3> HIDE DEF p
    <3> QED
      BY <1>3, <1>6, <3>1, <3>2, QueryCoherent, Zenon
  <2> HIDE DEF p
  <2> QED
    BY <1>6, <2>1, AnswerShape, Zenon
<1>7. CASE \E specs \in Upto(2) : KeepContext(specs)
  <2>1. PICK specs \in Upto(2) : KeepContext(specs)
    BY <1>7
  <2>2. ctx' = context(p, specs) /\ answer' = NONE /\ kept' = kept \cup {"ctx"} /\ policy' = policy
    BY <2>1 DEF KeepContext
  <2>3. targets_of(specs) \subseteq Blocks
    <3>1. PICK k \in 0 .. 2 : specs \in [1 .. k -> Specs]
      BY Zenon DEF Upto
    <3> QED
      BY <3>1, TargetsFacts
  <2>4. ctx'.targets \subseteq Blocks
    BY <2>2, <2>3 DEF context
  <2>5. Refers(ctx', prog')
    BY <1>2, <2>2, MadeFrom, Zenon
  <2>6. KeptTells'
    BY <1>3, <1>4, <2>2, <2>5, KeptStays
  <2> QED
    BY <1>1, <1>4, <2>2, <2>4, <2>6 DEF AnswerCoherent, FactsCurrent
<1>8. CASE KeepContextOfPolicy
  <2>1. /\ ctx' = context(p, << policy.spec >>) /\ answer' = NONE /\ policy' = policy
        /\ kept' = IF "policy" \in kept THEN kept \cup {"ctx"} ELSE {}
    BY <1>8 DEF KeepContextOfPolicy
  <2>2. Refers(ctx', prog')
    BY <1>2, <2>1, MadeFrom, Zenon
  <2>3. KeptTells'
    BY <1>3, <1>4, <2>1, <2>2, KeptStays
  <2>4. ctx'.targets = targets_of(<< policy.spec >>)
    BY <2>1 DEF context
  <2>5. << policy.spec >> \in [1 .. 1 -> Specs]
    BY <1>8 DEF KeepContextOfPolicy, IndInv, TypeOK
  <2>6. ctx'.targets \subseteq Blocks
    BY <2>4, <2>5, TargetsFacts
  <2> QED
    BY <1>1, <1>4, <2>1, <2>3, <2>6 DEF AnswerCoherent, FactsCurrent
<1>9. CASE \E specs \in Upto(1) : Reachability(specs)
  <2>1. PICK specs \in Upto(1) : Reachability(specs)
    BY <1>9
  <2> DEFINE c == [context(p, << >>) EXCEPT !.world = world_of(specs)]
  <2>2. answer' = answered({}, NONE, c, p.blocks, p) /\ UNCHANGED << ctx, policy, kept >>
    BY <2>1 DEF Reachability
  <2>3. Refers(c, p)
    BY MadeFrom, Zenon
  <2> HIDE DEF c, p
  <2>4. AnswerCoherent' /\ FactsCurrent'
    BY <1>5, <1>6, <2>2, <2>3, Zenon
  <2> QED
    BY <1>1, <1>5, <2>2, <2>4 DEF p
<1>10. CASE \E s \in Specs : LoadSpec(s)
  <2>1. PICK s \in Specs : LoadSpec(s)
    BY <1>10
  <2>2. policy' = parsed(p, s) /\ answer' = NONE /\ kept' = kept \cup {"policy"} /\ ctx' = ctx
    BY <2>1 DEF LoadSpec
  <2>3. policy'.against = against(prog')
    BY <1>2, <2>2, MadeFrom, Zenon
  <2>4. KeptTells'
    BY <1>3, <1>4, <2>2, <2>3, KeptStays
  <2>5. policy'.spec \in Specs
    BY <2>2 DEF parsed
  <2> QED
    BY <1>1, <1>4, <2>2, <2>4, <2>5 DEF AnswerCoherent, FactsCurrent
<1>11. CASE \E s \in Specs : Verify(s)
  <2>1. PICK s \in Specs : Verify(s)
    BY <1>11
  <2>2. /\ answer' = answered({}, parsed(p, s), context(p, << s >>), p.blocks, p)
        /\ UNCHANGED << ctx, policy, kept >>
    BY <2>1 DEF Verify
  <2> HIDE DEF p
  <2>3. AnswerCoherent' /\ FactsCurrent'
    BY <1>5, <1>6, <2>2, MadeFrom, Zenon
  <2> QED
    BY <1>1, <1>5, <2>2, <2>3 DEF p
<1>12. CASE \E s \in Specs : VerifyIn(s)
  <2>1. PICK s \in Specs : VerifyIn(s)
    BY <1>12
  <2>2. /\ answer' = answered({"ctx"}, parsed(p, s), ctx, ctx.list, p)
        /\ UNCHANGED << ctx, policy, kept >>
    BY <2>1 DEF VerifyIn
  <2> HIDE DEF p
  <2>3. AnswerCoherent' /\ FactsCurrent'
    BY <1>5, <1>6, <2>2, MadeFrom, Zenon
  <2> QED
    BY <1>1, <1>5, <2>2, <2>3 DEF p
<1>13. CASE ReturnValuesIn
  <2>1. answer' = answered({"ctx"}, NONE, ctx, p.blocks, p) /\ UNCHANGED << ctx, policy, kept >>
    BY <1>13 DEF ReturnValuesIn
  <2> HIDE DEF p
  <2>2. AnswerCoherent' /\ FactsCurrent'
    BY <1>5, <1>6, <2>1, Zenon
  <2> QED
    BY <1>1, <1>5, <2>1, <2>2 DEF p
<1> QED
  BY <1>7, <1>8, <1>9, <1>10, <1>11, <1>12, <1>13 DEF Analyzing

\* A report: from the cache, or from facts computed after analyze().
LEMMA FactsKeeps ==
  ASSUME IndInv, Facts
  PROVE  /\ Kept(prog', passes')
         /\ passes' \in 0 .. MaxPasses
         /\ UNCHANGED << ctx, policy, kept >>
         /\ KeptTells' /\ AnswerCoherent' /\ FactsCurrent'
         /\ \A l \in 1 .. Len(prog.lists) :
              prog.lists[l].pass # 0 /\ ~prog.lists[l].brief => prog'.lists[l] = prog.lists[l]
<1>1. CASE prog.facts # NONE /\ UNCHANGED << prog, passes >>
  <2>1. Kept(prog', passes') /\ passes' \in 0 .. MaxPasses /\ prog'.facts # NONE
    BY <1>1 DEF IndInv, TypeOK, Kept, TimingsTell, FactsTell, PassesUpto
  <2>2. prog' = prog /\ UNCHANGED << ctx, policy, kept >>
    BY <1>1 DEF Facts
  <2>4. KeptTells'
    BY <2>2 DEF IndInv, KeptTells
  <2>3. FactsCurrent' /\ AnswerCoherent'
    <3>1. answer' = [kind |-> "facts", facts |-> prog'.facts, calls |-> prog'.calls, analyzed |-> current(prog')]
      BY DEF Facts
    <3>2. answer'.kind = "facts" /\ answer'.facts = prog'.facts /\ answer'.calls = prog'.calls
          /\ answer'.analyzed = current(prog')
      BY <3>1, Zenon
    <3>3. current(prog') => "track" \in prog'.timings
      BY CurrentFacts
    <3>4. FactsTell(prog')
      BY <2>1 DEF Kept
    <3> QED
      BY <2>1, <3>2, <3>3, <3>4, Zenon DEF FactsCurrent, AnswerCoherent, FactsTell
  <2> QED
    BY <2>1, <2>2, <2>3, <2>4
<1>2. CASE ~(prog.facts # NONE /\ UNCHANGED << prog, passes >>)
  <2> DEFINE p == analyze(prog, passes + 1)
             f == << p.blocks, p.lists[p.blocks].pass >>
  <2>1. /\ prog.facts = NONE /\ CanAnalyze /\ Analyzed([p EXCEPT !.facts = f])
        /\ UNCHANGED << ctx, policy, kept >>
    BY <1>2 DEF Facts
  <2>2. /\ Kept(prog', passes')
        /\ passes' \in 0 .. MaxPasses
        /\ current(prog') /\ (current(prog) => SameBlocks)
        /\ prog'.facts[1] = prog'.calls[1] /\ prog'.facts[2] >= prog'.calls[2]
        /\ \A l \in 1 .. Len(prog.lists) :
             prog.lists[l].pass # 0 /\ ~prog.lists[l].brief => prog'.lists[l] = prog.lists[l]
    BY <2>1, QueryFacts
  <2>3. FactsCurrent' /\ AnswerCoherent'
    <3>1. answer' = [kind |-> "facts", facts |-> prog'.facts, calls |-> prog'.calls, analyzed |-> current(prog')]
      BY DEF Facts
    <3>2. answer'.kind = "facts" /\ answer'.facts = prog'.facts /\ answer'.calls = prog'.calls
      BY <3>1, Zenon
    <3> QED
      BY <2>2, <3>2, Zenon DEF FactsCurrent, AnswerCoherent
  <2>4. KeptTells'
    BY <2>1, <2>2, KeptStays DEF IndInv
  <2> QED
    BY <2>1, <2>2, <2>3, <2>4
<1> QED
  BY <1>1, <1>2

\* Every step keeps the invariant, and no query overwrites fully tracked blocks.
LEMMA StepKeeps ==
  ASSUME IndInv, [Next]_vars
  PROVE  /\ IndInv'
         /\ \A l \in 1 .. Len(prog.lists) :
              (/\ prog.lists[l].pass # 0 /\ ~prog.lists[l].brief
               /\ prog'.lists[l] # prog.lists[l])
                  => answer' = NONE /\ ctx' = ctx /\ policy' = policy
<1>1. CASE Recompile \/ DecodeBinary \/ BuildCfg \/ Track
  <2>1. /\ Kept(prog', passes') /\ passes' \in 0 .. MaxPasses
        /\ answer' = NONE /\ ctx' = ctx /\ policy' = policy
        /\ kept' = {} \/ (kept' = kept /\ SameBlocks /\ prog'.timings = prog.timings)
    BY <1>1, PassKeeps
  <2>2. TypeOK'
    BY <2>1 DEF Kept, IndInv, TypeOK
  <2>3. AnswerCoherent' /\ FactsCurrent'
    BY <2>1 DEF AnswerCoherent, FactsCurrent
  <2>4. KeptTells'
    <3>1. CASE kept' = {}
      BY <3>1 DEF KeptTells
    <3>2. CASE kept' = kept /\ SameBlocks /\ prog'.timings = prog.timings
      <4>1. current(prog) => current(prog')
        BY <3>2, CurrentFacts
      <4>2. against(prog') = against(prog)
        BY <3>2 DEF against, SameBlocks
      <4> QED
        BY <2>1, <3>2, <4>1, <4>2, Zenon DEF KeptTells, IndInv, SameBlocks
    <3> QED
      BY <2>1, <3>1, <3>2
  <2> QED
    BY <2>1, <2>2, <2>3, <2>4 DEF IndInv, Kept, TimingsTell, FactsTell, PassesUpto
<1>2. CASE Facts
  <2>1. /\ Kept(prog', passes') /\ passes' \in 0 .. MaxPasses
        /\ UNCHANGED << ctx, policy, kept >>
        /\ KeptTells' /\ AnswerCoherent' /\ FactsCurrent'
        /\ \A l \in 1 .. Len(prog.lists) :
             prog.lists[l].pass # 0 /\ ~prog.lists[l].brief => prog'.lists[l] = prog.lists[l]
    BY <1>2, FactsKeeps
  <2>2. TypeOK'
    BY <2>1 DEF Kept, IndInv, TypeOK
  <2> QED
    BY <2>1, <2>2 DEF IndInv, Kept, TimingsTell, FactsTell, PassesUpto
<1>3. CASE Analyzing
  <2>1. /\ CanAnalyze /\ Analyzed(analyze(prog, passes + 1))
        /\ KeptTells' /\ AnswerCoherent' /\ FactsCurrent'
        /\ kept' \subseteq {"ctx", "policy"}
        /\ ctx' # NONE => ctx' = ctx \/ ctx'.targets \subseteq Blocks
        /\ policy' = policy \/ policy'.spec \in Specs
    BY <1>3, AnalyzingFacts
  <2>2. /\ Kept(prog', passes') /\ passes' \in 0 .. MaxPasses
        /\ \A l \in 1 .. Len(prog.lists) :
             prog.lists[l].pass # 0 /\ ~prog.lists[l].brief => prog'.lists[l] = prog.lists[l]
    BY <2>1, QueryFacts
  <2>3. TypeOK'
    BY <2>1, <2>2 DEF Kept, IndInv, TypeOK
  <2> QED
    BY <2>1, <2>2, <2>3 DEF IndInv, Kept, TimingsTell, FactsTell, PassesUpto
<1>4. ASSUME UNCHANGED << prog, passes, ctx, policy, kept >>
      PROVE  /\ TypeOK' /\ TimingsTell(prog') /\ FactsTell(prog') /\ PassesUpto(prog', passes')
             /\ KeptTells'
             /\ prog'.lists = prog.lists
  BY <1>4 DEF IndInv, TypeOK, TimingsTell, FactsTell, PassesUpto, KeptTells
<1>5. ASSUME NEW uses \in SUBSET {"policy", "ctx"},
             NEW pol, pol # NONE => "policy" \in uses /\ pol = policy,
             NEW c, \/ c = ctx /\ "ctx" \in uses
                    \/ Refers(c, prog) /\ "policy" \in uses,
             NEW beside, beside = c.list \/ beside = prog.blocks,
             kept' = kept, answer' = answered(uses, pol, c, beside, prog)
      PROVE  AnswerCoherent' /\ FactsCurrent'
  <2>1. ASSUME uses \subseteq kept PROVE Coherent(pol, c, prog.lists[c.list], beside)
    <3>1. current(prog) /\ TimingsTell(prog)
      BY <1>5, <2>1 DEF IndInv, KeptTells
    <3>2. Refers(c, prog)
      BY <1>5, <2>1 DEF IndInv, KeptTells, Refers
    <3>3. beside = prog.blocks
      BY <1>5, <3>2 DEF Refers
    <3>4. pol # NONE => pol.against = against(prog)
      BY <1>5, <2>1 DEF IndInv, KeptTells
    <3> QED
      BY <3>1, <3>2, <3>3, <3>4, QueryCoherent, Zenon
  <2> QED
    BY <1>5, <2>1, AnswerShape, Zenon
<1>7. CASE VerifyPolicy
  <2>1. /\ UNCHANGED << prog, passes, ctx, policy, kept >>
        /\ answer' = answered({"policy"}, policy, context(prog, << policy.spec >>), prog.blocks, prog)
    BY <1>7 DEF VerifyPolicy
  <2>2. AnswerCoherent' /\ FactsCurrent'
    BY <1>5, <2>1, MadeFrom
  <2> QED
    BY <1>4, <2>1, <2>2 DEF IndInv
<1>8. CASE VerifyPolicyIn
  <2>1. /\ UNCHANGED << prog, passes, ctx, policy, kept >>
        /\ answer' = answered({"policy", "ctx"}, policy, ctx, ctx.list, prog)
    BY <1>8 DEF VerifyPolicyIn
  <2>2. AnswerCoherent' /\ FactsCurrent'
    BY <1>5, <2>1
  <2> QED
    BY <1>4, <2>1, <2>2 DEF IndInv
<1>9. CASE ReachabilityIn
  <2>1. PICK beside \in {ctx.list, prog.blocks} : answer' = answered({"ctx"}, NONE, ctx, beside, prog)
    BY <1>9 DEF ReachabilityIn
  <2>2. UNCHANGED << prog, passes, ctx, policy, kept >>
    BY <1>9 DEF ReachabilityIn
  <2>3. AnswerCoherent' /\ FactsCurrent'
    BY <1>5, <2>1, <2>2
  <2> QED
    BY <1>4, <2>2, <2>3 DEF IndInv
<1>6. CASE UNCHANGED vars
  BY <1>6 DEF vars, IndInv, TypeOK, TimingsTell, FactsTell, PassesUpto, KeptTells, AnswerCoherent, FactsCurrent
<1> QED
  BY <1>1, <1>2, <1>3, <1>6, <1>7, <1>8, <1>9 DEF Next, Analyzing

\* The invariant holds after every sequence of calls of the passes and queries.
THEOREM SessionInvariant == Spec => []IndInv
<1>1. IndInv /\ [Next]_vars => IndInv'
  BY StepKeeps
<1> QED
  BY <1>1, InitInv, PTL DEF Spec

\* The fields of an eBPFProgram keep their types (program.py).
THEOREM SessionTypeCorrect == Spec => []TypeOK
<1>1. IndInv => TypeOK
  BY DEF IndInv
<1> QED
  BY <1>1, SessionInvariant, PTL

\* A query that builds its own context answers for one version of the program
\* and one tracking pass, whatever passes ran before (program.py analyze, _done).
THEOREM AnswersAreCoherent == Spec => []AnswerCoherent
<1>1. IndInv => AnswerCoherent
  BY DEF IndInv
<1> QED
  BY <1>1, SessionInvariant, PTL

\* A report made while no pass is outstanding is rendered from facts of the last
\* tracking pass, or later (program.py facts, track).
THEOREM FactsAreCurrent == Spec => []FactsCurrent
<1>1. IndInv => FactsCurrent
  BY DEF IndInv
<1> QED
  BY <1>1, SessionInvariant, PTL

\* Only an explicit track() overwrites blocks that are fully tracked: a query
\* never does (program.py analyze, track).
THEOREM QueriesDoNotRetrack == Spec => NoSilentRetrack
<1> DEFINE A == \A l \in DOMAIN prog.lists :
                  (/\ prog.lists[l].pass # 0 /\ ~prog.lists[l].brief
                   /\ prog'.lists[l] # prog.lists[l])
                      => answer' = NONE /\ ctx' = ctx /\ policy' = policy
<1>1. IndInv /\ [Next]_vars => [A]_vars
  <2>1. IndInv => DOMAIN prog.lists = 1 .. Len(prog.lists)
    BY DEF IndInv, TypeOK, Program
  <2> QED
    BY <2>1, StepKeeps
<1> QED
  BY <1>1, SessionInvariant, PTL DEF Spec, NoSilentRetrack
=============================================================================
