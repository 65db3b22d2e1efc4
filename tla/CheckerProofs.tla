----------------------------- MODULE CheckerProofs -----------------------------
(***************************************************************************)
(* For every program, policy and set of inputs: the witnesses of check are *)
(* real, untested conditions are flagged, and the verdicts are the right   *)
(* ones, in the order of the policy.                                       *)
(***************************************************************************)
EXTENDS Checker, FiniteSetTheorems, SequenceTheorems, WellFoundedInduction, TLAPS

\* The conditions of a policy.
LEMMA PolicyFacts ==
  ASSUME policy \in Policy
  PROVE  /\ Len(policy.bcs) \in Nat /\ DOMAIN policy.bcs = 1 .. Len(policy.bcs)
         /\ Len(policy.ecs) \in Nat /\ DOMAIN policy.ecs = 1 .. Len(policy.ecs)
         /\ \A k \in DOMAIN policy.bcs :
              /\ policy.bcs[k].block \in Block /\ policy.bcs[k].mode \in Mode
              /\ policy.bcs[k].body \in SUBSET Input
         /\ \A k \in DOMAIN policy.ecs :
              policy.ecs[k].mode \in Mode /\ policy.ecs[k].body \in [Block -> SUBSET Input]
<1>1. policy.bcs \in Seq(BlockCondition) /\ policy.ecs \in Seq(ExitCondition)
  BY DEF Policy
<1>2. \A k \in DOMAIN policy.bcs : policy.bcs[k] \in BlockCondition
  BY <1>1
<1>3. \A k \in DOMAIN policy.ecs : policy.ecs[k] \in ExitCondition
  BY <1>1
<1> QED
  BY <1>1, <1>2, <1>3 DEF BlockCondition, ExitCondition

-----------------------------------------------------------------------------
(* The context. *)

\* What a walk along the taken edges visits, with the operators of Path spelt out.
LEMMA PathDef ==
  ASSUME NEW i
  PROVE  Path(i) = {b \in Block : \A X \in SUBSET Block :
                      ({0} \subseteq X /\ \A x \in X : taken(i, x) \subseteq X) => b \in X}
BY Zenon DEF Path, Closure

\* The same, of the blocks the entry leads to.
LEMMA LiveDef ==
  live = {b \in Block : \A X \in SUBSET Block :
            ({0} \subseteq X /\ \A x \in X : successors(x) \subseteq X) => b \in X}
BY Zenon DEF live, Closure

\* An input goes on to a successor of the block it runs.
LEMMA TakenFacts ==
  ASSUME prog \in Program, NEW i, NEW b \in Block
  PROVE  taken(i, b) \subseteq successors(b) /\ successors(b) \subseteq Block
BY DEF taken, successors, Program

\* A run starts at the entry, stays in the live blocks, and reaches every other
\* block through one of its predecessors.
LEMMA PathFacts ==
  ASSUME prog \in Program, NEW i
  PROVE  /\ 0 \in Path(i)
         /\ Path(i) \subseteq live
         /\ \A b \in Path(i) \ {0} : \E p \in preds(b) : p \in Path(i)
<1>1. 0 \in Path(i)
  BY PathDef, NAssumption DEF Block
<1>2. Path(i) \subseteq live
  <2> SUFFICES ASSUME NEW b \in Path(i), NEW X \in SUBSET Block, {0} \subseteq X,
                      \A x \in X : successors(x) \subseteq X
               PROVE  b \in X
    BY PathDef, LiveDef, Zenon
  <2>1. \A x \in X : taken(i, x) \subseteq X
    BY TakenFacts
  <2> QED
    BY <2>1, PathDef, Zenon
<1>3. ASSUME NEW b \in Path(i) \ {0}, \A p \in preds(b) : p \notin Path(i)
      PROVE  FALSE
  <2> DEFINE X == Path(i) \ {b}
  <2>1. X \in SUBSET Block /\ {0} \subseteq X
    BY <1>1, PathDef, Zenon
  <2>2. ASSUME NEW x \in X, NEW y \in taken(i, x) PROVE y \in X
    <3>1. x \in Block /\ y \in Block /\ y \in successors(x)
      BY <2>1, TakenFacts
    <3>2. y # b
      BY <1>3, <3>1 DEF preds
    <3>3. y \in Path(i)
      <4> SUFFICES ASSUME NEW Y \in SUBSET Block, {0} \subseteq Y, \A z \in Y : taken(i, z) \subseteq Y
                   PROVE  y \in Y
        BY <3>1, PathDef, Zenon
      <4>1. x \in Y
        BY PathDef, Zenon
      <4> QED
        BY <4>1
    <3> QED
      BY <3>2, <3>3
  <2>3. b \in X
    BY <2>1, <2>2, PathDef, Zenon
  <2> QED
    BY <2>3
<1> QED
  BY <1>1, <1>2, <1>3, Zenon

\* What is collected backwards from the live blocks asked about holds them.
LEMMA SliceFacts ==
  ASSUME NEW S \in SUBSET Block
  PROVE  S \subseteq Closure(preds, S)
BY Zenon DEF Closure

\* The context check is given has the properties its queries rely on.
LEMMA InitContext ==
  ASSUME Init
  PROVE  TypeOK /\ ContextInv
<1>1. prog \in Program /\ policy \in Policy /\ noret \subseteq Block
  BY ProgramsAssumption, PoliciesAssumption, NoRetAssumption DEF Init
<1>2. reach = [b \in Block |-> {i \in Input : b \in Path(i)}]
  BY DEF Init, Runs
<1>3. reach \in [Block -> SUBSET Input]
  BY <1>2
<1>4. \A b \in Block \ live : reach[b] = {}
  BY <1>1, <1>2, PathFacts
<1>5. 0 \in Block /\ reach[0] = Input
  BY <1>1, <1>2, PathFacts, NAssumption DEF Block
<1>6. info \subseteq Block
  BY <1>5, LiveDef DEF Init, context_for
<1>7. TypeOK
  <2>1. vac_cache \in [Block -> {"vacuous", "live", None}] /\ results \in Seq(CheckResult) /\ dead \subseteq info
    BY DEF Init
  <2> QED
    BY <1>1, <1>3, <1>6, <2>1 DEF TypeOK
<1>8. \A b \in lit : reach[b] \in {{}, Input}
  BY <1>5 DEF Init
<1>9. \A b \in Block \ {0} : (\A p \in preds(b) : reach[p] = {}) => reach[b] = {}
  <2> SUFFICES ASSUME NEW b \in Block \ {0}, \A p \in preds(b) : reach[p] = {}, NEW i \in reach[b]
               PROVE  FALSE
    OBVIOUS
  <2>1. i \in Input /\ b \in Path(i)
    BY <1>2
  <2>2. PICK p \in preds(b) : p \in Path(i)
    BY <1>1, <2>1, PathFacts
  <2>3. p \in Block
    BY DEF preds
  <2> QED
    BY <1>2, <2>1, <2>2, <2>3
<1>10. ASSUME NEW k \in DOMAIN policy.bcs, policy.bcs[k].block \notin info
       PROVE  reach[policy.bcs[k].block] = {}
  <2> DEFINE b == policy.bcs[k].block
             targets == {policy.bcs[j].block : j \in DOMAIN policy.bcs}
  <2>1. b \in Block /\ b \in targets
    BY <1>1, PolicyFacts
  <2>2. b \notin live
    <3>1. targets \cap live \subseteq Closure(preds, targets \cap live)
      BY SliceFacts, LiveDef
    <3>2. info = live \/ info = {0} \cup (Closure(preds, targets \cap live) \cap live)
      BY DEF Init, context_for
    <3> QED
      BY <1>10, <2>1, <3>1, <3>2
  <2> QED
    BY <1>4, <2>1, <2>2
<1>11. policy.ecs # << >> \/ policy.reach_all => info = live
  BY DEF Init, context_for
<1> QED
  BY <1>4, <1>7, <1>8, <1>9, <1>10, <1>11 DEF ContextInv

-----------------------------------------------------------------------------
(* The results, in the order of the policy. *)

nb == Len(policy.bcs)
ne == Len(policy.ecs)

\* How many numbers an interval holds.
LEMMA IntervalLength ==
  ASSUME NEW a \in Int, NEW b \in Int, b >= a - 1
  PROVE  Cardinality(a .. b) = b - a + 1
<1>1. Cardinality(a .. b) = IF a > b THEN 0 ELSE b - a + 1
  BY FS_Interval
<1> QED
  BY <1>1

\* How many results of each kind there are, from how many there are.
LEMMA DoneFacts ==
  ASSUME TypeOK, OrderInv, NEW n, n = Len(results)
  PROVE  /\ n \in Nat
         /\ Done("block_condition") = IF n <= nb THEN n ELSE nb
         /\ Done("exit_condition") = IF n <= nb THEN 0 ELSE IF n <= nb + ne THEN n - nb ELSE ne
         /\ Done("reachability") = IF n <= nb + ne THEN 0 ELSE n - (nb + ne)
<1>1. n \in Nat /\ nb \in Nat /\ ne \in Nat /\ DOMAIN results = 1 .. n
  BY PolicyFacts DEF TypeOK, nb, ne
<1> DEFINE m == IF n <= nb THEN n ELSE nb
           p == IF n <= nb + ne THEN n ELSE nb + ne
<1>2. \A k \in 1 .. n :
        /\ k <= nb => results[k].kind = "block_condition"
        /\ k > nb /\ k <= nb + ne => results[k].kind = "exit_condition"
        /\ k > nb + ne => results[k].kind = "reachability"
  BY DEF OrderInv, nb, ne
<1>3. {k \in DOMAIN results : results[k].kind = "block_condition"} = 1 .. m
  BY <1>1, <1>2
<1>4. {k \in DOMAIN results : results[k].kind = "exit_condition"} = (nb + 1) .. p
  BY <1>1, <1>2
<1>5. {k \in DOMAIN results : results[k].kind = "reachability"} = (nb + ne + 1) .. n
  BY <1>1, <1>2
<1>7. m \in Int /\ p \in Int /\ nb + 1 \in Int /\ nb + ne + 1 \in Int /\ n \in Int
  BY <1>1
<1>8. Done("block_condition") = m
  <2>1. Done("block_condition") = Cardinality(1 .. m)
    BY <1>3, Zenon DEF Done
  <2>2. m \in Nat
    BY <1>1
  <2> HIDE DEF m
  <2>3. Cardinality(1 .. m) = m - 1 + 1
    BY <2>2, IntervalLength
  <2> QED
    BY <2>1, <2>2, <2>3
<1>9. Done("exit_condition") = IF n <= nb THEN 0 ELSE p - nb
  <2>1. CASE n <= nb
    BY <2>1, <1>1, <1>4, FS_EmptySet DEF Done
  <2>2. CASE n > nb
    <3>1. PICK a \in Int : a = nb + 1
      BY <1>7
    <3>2. p >= a - 1 /\ p - a + 1 = p - nb /\ p \in Int
      BY <2>2, <3>1, <1>1
    <3>3. Done("exit_condition") = Cardinality(a .. p)
      BY <3>1, <1>4, Zenon DEF Done
    <3> HIDE DEF p
    <3>4. Cardinality(a .. p) = p - a + 1
      BY <3>2, IntervalLength
    <3> QED
      BY <2>2, <3>2, <3>3, <3>4, <1>1
  <2> QED
    BY <2>1, <2>2, <1>1
<1>10. Done("reachability") = IF n <= nb + ne THEN 0 ELSE n - (nb + ne)
  <2>1. CASE n <= nb + ne
    BY <2>1, <1>1, <1>5, FS_EmptySet DEF Done
  <2>2. CASE n > nb + ne
    <3>1. PICK a \in Int : a = nb + ne + 1
      BY <1>7
    <3>2. n >= a - 1 /\ n - a + 1 = n - (nb + ne) /\ n \in Int
      BY <2>2, <3>1, <1>1
    <3>3. Done("reachability") = Cardinality(a .. n)
      BY <3>1, <1>5, Zenon DEF Done
    <3>4. Cardinality(a .. n) = n - a + 1
      BY <3>2, IntervalLength
    <3> QED
      BY <2>2, <3>2, <3>3, <3>4, <1>1
  <2> QED
    BY <2>1, <2>2, <1>1
<1> QED
  BY <1>1, <1>8, <1>9, <1>10

\* What _decide answers on a formula.
LEMMA DecideFacts ==
  ASSUME NEW F \in SUBSET Input, NEW m \in _decide(F)
  PROVE  /\ m \in Input \cup {None}
         /\ m # None => m \in F
         /\ Unknown = {} => (m # None <=> F # {})
BY NoneAssumption, UnknownAssumption DEF _decide

\* The formula _query builds.
LEMMA QueryFacts ==
  ASSUME reach \in [Block -> SUBSET Input], NEW b \in Block, NEW mode \in Mode, NEW body
  PROVE  /\ _query(b, mode, body) \in SUBSET Input
         /\ \A i : i \in _query(b, mode, body) <=> (i \in reach[b] /\ ((i \in body) <=> (mode = "exists")))
BY DEF _query, Mode

\* What is known of a result r that a step adds at place n: its kind and place,
\* that its witness is real, and, where the solver does not give up, that it is
\* flagged rightly and has the right verdict.
Added(r, n) ==
  /\ results' = Append(results, r)
  /\ r \in CheckResult
  /\ n <= nb => r.kind = "block_condition" /\ r.at = n
  /\ n > nb /\ n <= nb + ne => r.kind = "exit_condition" /\ r.at = n - nb
  /\ n > nb + ne => r.kind = "reachability"
  /\ r.kind # "reachability" => Witnessed(r)
  /\ Unknown = {} /\ r.kind # "reachability" => Flagged(r)
  /\ Unknown = {} => n <= Len(Truth) /\ r.verdict = Truth[n]

\* Adding such a result keeps what is known of all of them.
LEMMA AddedFacts ==
  ASSUME IndInv, UNCHANGED <<fixed, info>>, NEW r, Added(r, Len(results) + 1)
  PROVE  /\ results' \in Seq(CheckResult)
         /\ ContextInv' /\ OrderInv' /\ WitnessReal'
         /\ Unknown = {} => UntestedFlagged'
<1> DEFINE n == Len(results)
<1>1. /\ results \in Seq(CheckResult) /\ r \in CheckResult /\ results' = Append(results, r)
      /\ policy \in Policy
  BY DEF IndInv, TypeOK, Added
<1>2. /\ results' \in Seq(CheckResult) /\ n \in Nat
      /\ Len(results') = n + 1 /\ DOMAIN results' = 1 .. n + 1 /\ DOMAIN results = 1 .. n
      /\ \A k \in 1 .. n : results'[k] = results[k]
      /\ results'[n + 1] = r
  BY <1>1
<1>3. prog' = prog /\ policy' = policy /\ noret' = noret /\ reach' = reach /\ lit' = lit /\ info' = info
  BY DEF fixed
<1>4. ContextInv'
  BY <1>3 DEF IndInv, ContextInv, preds, successors
<1>5. OrderInv'
  <2>1. nb \in Nat /\ ne \in Nat
    BY <1>1, PolicyFacts DEF nb, ne
  <2> SUFFICES ASSUME NEW k \in 1 .. n + 1
               PROVE  /\ k <= nb => results'[k].kind = "block_condition" /\ results'[k].at = k
                      /\ k > nb /\ k <= nb + ne => results'[k].kind = "exit_condition" /\ results'[k].at = k - nb
                      /\ k > nb + ne => results'[k].kind = "reachability"
    BY <1>2, <1>3 DEF OrderInv, nb, ne
  <2>2. CASE k = n + 1
    BY <1>2, <2>2 DEF Added
  <2>3. CASE k \in 1 .. n
    BY <1>2, <2>3 DEF IndInv, OrderInv, nb, ne
  <2> QED
    BY <1>2, <2>2, <2>3
<1>6. \A x \in Conditions' : x \in Conditions \/ (x = r /\ r.kind # "reachability")
  <2> SUFFICES ASSUME NEW k \in 1 .. n + 1, results'[k].kind # "reachability"
               PROVE  results'[k] \in Conditions \/ (results'[k] = r /\ r.kind # "reachability")
    BY <1>2 DEF Conditions
  <2> QED
    BY <1>2 DEF Conditions
<1>7. \A x : /\ Witnessed(x)' <=> Witnessed(x)
             /\ Flagged(x)' <=> Flagged(x)
  BY <1>3, Zenon DEF Witnessed, Flagged, Untested, Asked, exit_blocks, successors
<1>8. WitnessReal'
  BY <1>6, <1>7, Zenon DEF IndInv, WitnessReal, Added
<1>9. Unknown = {} => UntestedFlagged'
  BY <1>6, <1>7, Zenon DEF IndInv, UntestedFlagged, Added
<1> QED
  BY <1>2, <1>4, <1>5, <1>8, <1>9

-----------------------------------------------------------------------------
(* The right verdicts. *)

\* A verdict says whether an answer was found.
LEMMA VerdictFacts ==
  ASSUME NEW mode, NEW found
  PROVE  verdict_of(mode, found) \in Verdict
BY DEF verdict_of, Verdict

\* What is right of block condition k, of exit condition k, and of the k-th block
\* of the report.
RightBlock(k) ==
  Right(policy.bcs[k].mode, {policy.bcs[k].block}, [b \in {policy.bcs[k].block} |-> policy.bcs[k].body])
RightExit(k) == Right(policy.ecs[k].mode, exit_blocks \ noret, policy.ecs[k].body)
RightReport(k) == Right("exists", {b \in info : rank(b) = k - 1}, [b \in Block |-> Input])

\* Where the right verdict of each question is.
LEMMA TruthFacts ==
  ASSUME policy \in Policy, Cardinality(info) \in Nat
  PROVE  /\ Len(Truth) \in Nat /\ Len(Truth) >= nb + ne
         /\ policy.reach_all => Len(Truth) = nb + ne + Cardinality(info)
         /\ \A k \in 1 .. nb : Truth[k] = RightBlock(k)
         /\ \A k \in 1 .. ne : Truth[nb + k] = RightExit(k)
         /\ policy.reach_all =>
              \A k \in 1 .. Cardinality(info) : Truth[nb + ne + k] = RightReport(k)
<1> DEFINE T1 == [k \in 1 .. nb |-> RightBlock(k)]
           T2 == [k \in 1 .. ne |-> RightExit(k)]
           T3 == IF ~policy.reach_all THEN << >> ELSE [k \in 1 .. Cardinality(info) |-> RightReport(k)]
           m == IF ~policy.reach_all THEN 0 ELSE Cardinality(info)
<1>1. /\ nb \in Nat /\ DOMAIN policy.bcs = 1 .. nb
      /\ ne \in Nat /\ DOMAIN policy.ecs = 1 .. ne
  BY PolicyFacts DEF nb, ne
<1>2. Truth = (T1 \o T2) \o T3
  BY <1>1, Zenon DEF Truth, RightBlock, RightExit, RightReport
<1>3. /\ \A k : RightBlock(k) \in Verdict
      /\ \A k : RightExit(k) \in Verdict
      /\ \A k : RightReport(k) \in Verdict
  BY VerdictFacts, Zenon DEF RightBlock, RightExit, RightReport, Right
<1>4. /\ T1 \in Seq(Verdict) /\ Len(T1) = nb /\ \A k \in 1 .. nb : T1[k] = RightBlock(k)
  BY <1>1, <1>3
<1>5. /\ T2 \in Seq(Verdict) /\ Len(T2) = ne /\ \A k \in 1 .. ne : T2[k] = RightExit(k)
  BY <1>1, <1>3
<1>6. /\ T3 \in Seq(Verdict) /\ Len(T3) = m /\ m \in Nat
      /\ policy.reach_all => \A k \in 1 .. Cardinality(info) : T3[k] = RightReport(k)
  BY <1>1, <1>3
<1> HIDE DEF T1, T2, T3, m
<1>7. /\ (T1 \o T2) \in Seq(Verdict) /\ Len(T1 \o T2) = nb + ne
      /\ \A k \in 1 .. nb : (T1 \o T2)[k] = RightBlock(k)
      /\ \A k \in 1 .. ne : (T1 \o T2)[nb + k] = RightExit(k)
  BY <1>1, <1>4, <1>5
<1>8. /\ Len(Truth) = nb + ne + m
      /\ \A k \in 1 .. nb + ne : Truth[k] = (T1 \o T2)[k]
      /\ \A k \in 1 .. m : Truth[nb + ne + k] = T3[k]
  <2>1. PICK T12 \in Seq(Verdict) : T12 = T1 \o T2
    BY <1>7
  <2>2. Len(T12) = nb + ne /\ Truth = T12 \o T3
    BY <1>2, <1>7, <2>1
  <2>3. Len(Truth) = Len(T12) + Len(T3)
    BY <1>6, <2>2, ConcatProperties, Zenon
  <2>4. \A k \in 1 .. Len(T12) : Truth[k] = T12[k]
    BY <1>6, <2>2
  <2>5. \A k \in 1 .. Len(T3) : Truth[Len(T12) + k] = T3[k]
    BY <1>6, <2>2
  <2> QED
    BY <1>6, <2>1, <2>2, <2>3, <2>4, <2>5
<1>9. policy.reach_all => m = Cardinality(info)
  BY DEF m
<1> QED
  <2>1. Len(Truth) \in Nat /\ Len(Truth) >= nb + ne
    BY <1>1, <1>6, <1>8
  <2>2. \A k \in 1 .. nb : Truth[k] = RightBlock(k)
    <3> SUFFICES ASSUME NEW k \in 1 .. nb PROVE Truth[k] = RightBlock(k)
      OBVIOUS
    <3>1. k \in 1 .. nb + ne
      BY <1>1
    <3> QED
      BY <3>1, <1>7, <1>8
  <2>3. \A k \in 1 .. ne : Truth[nb + k] = RightExit(k)
    <3> SUFFICES ASSUME NEW k \in 1 .. ne PROVE Truth[nb + k] = RightExit(k)
      OBVIOUS
    <3>1. nb + k \in 1 .. nb + ne
      BY <1>1
    <3> QED
      BY <3>1, <1>7, <1>8
  <2>4. policy.reach_all => /\ Len(Truth) = nb + ne + Cardinality(info)
                            /\ \A k \in 1 .. Cardinality(info) : Truth[nb + ne + k] = RightReport(k)
    BY <1>6, <1>8, <1>9
  <2> QED
    BY <2>1, <2>2, <2>3, <2>4

\* A context has finitely many blocks.
LEMMA InfoFinite ==
  ASSUME info \subseteq Block
  PROVE  IsFiniteSet(info) /\ info \subseteq Int /\ Cardinality(info) \in Nat
<1>1. 0 \in Int /\ N - 1 \in Int
  BY NAssumption
<1>2. IsFiniteSet(Block) /\ Block \subseteq Int
  BY <1>1, FS_Interval DEF Block
<1> QED
  BY <1>2, FS_Subset, FS_CardinalityType

\* The blocks of a context have different places in the report, all within it.
LEMMA RankFacts ==
  ASSUME info \subseteq Block, NEW b \in info
  PROVE  /\ Cardinality(info) \in Nat
         /\ rank(b) \in 0 .. Cardinality(info) - 1
         /\ {c \in info : rank(c) = rank(b)} = {b}
<1>1. IsFiniteSet(info) /\ info \subseteq Int
  BY InfoFinite
<1>2. \A c \in info : IsFiniteSet({d \in info : d < c}) /\ rank(c) \in Nat
  BY <1>1, FS_Subset, FS_CardinalityType DEF rank
<1>3. ASSUME NEW c \in info, NEW d \in info, c < d
      PROVE  rank(c) < rank(d)
  <2> DEFINE C == {x \in info : x < c}
             D == {x \in info : x < d}
  <2>1. C \in SUBSET D /\ c \in D /\ c \notin C
    <3>1. \A x \in info : x \in Int
      BY <1>1
    <3>2. c \in Int /\ d \in Int
      BY <3>1
    <3>3. \A x \in info : x < c => x < d
      BY <1>3, <3>1, <3>2
    <3>4. C \in SUBSET D
      BY <3>3, Zenon
    <3>5. c < d /\ ~(c < c)
      BY <1>3, <3>2
    <3> QED
      BY <3>4, <3>5, Zenon
  <2>2. IsFiniteSet(D) /\ rank(c) \in Nat /\ rank(d) \in Nat
    BY <1>2
  <2>3. Cardinality(C) <= Cardinality(D) /\ (Cardinality(D) = Cardinality(C) => D = C)
    BY <2>1, <2>2, FS_Subset
  <2>4. rank(c) = Cardinality(C) /\ rank(d) = Cardinality(D)
    BY DEF rank
  <2> QED
    BY <2>1, <2>2, <2>3, <2>4
<1>4. rank(b) \in 0 .. Cardinality(info) - 1
  <2> DEFINE B == {x \in info : x < b}
  <2>1. B \in SUBSET info /\ b \notin B
    BY <1>1
  <2>2. Cardinality(B) <= Cardinality(info) /\ (Cardinality(info) = Cardinality(B) => info = B)
    BY <1>1, <2>1, FS_Subset
  <2>3. Cardinality(info) \in Nat /\ rank(b) = Cardinality(B) /\ rank(b) \in Nat
    BY <1>1, <1>2, FS_CardinalityType DEF rank
  <2> QED
    BY <2>1, <2>2, <2>3
<1>5. ASSUME NEW c \in info, rank(c) = rank(b) PROVE c = b
  <2>1. c \in Int /\ b \in Int /\ rank(b) \in Nat /\ rank(c) \in Nat
    BY <1>1, <1>2
  <2> QED
    BY <1>3, <1>5, <2>1
<1> QED
  BY <1>1, <1>4, <1>5, FS_CardinalityType

-----------------------------------------------------------------------------
(* The steps. *)

\* When a block condition's witness is real.
LEMMA BlockWitness ==
  ASSUME NEW r, r.kind = "block_condition",
         r.verdict \in {"violated", "sat"} <=> r.witness # None,
         r.witness # None =>
           /\ r.witness \in reach[policy.bcs[r.at].block]
           /\ r.witness \in policy.bcs[r.at].body <=> policy.bcs[r.at].mode = "exists"
  PROVE  Witnessed(r)
<1> DEFINE bc == policy.bcs[r.at]
           q == [mode |-> bc.mode, at |-> {bc.block}, body |-> [b \in {bc.block} |-> bc.body]]
<1>1. Asked(r) = q
  BY Zenon DEF Asked
<1>2. q.mode = bc.mode /\ q.at = {bc.block} /\ q.body[bc.block] = bc.body
  OBVIOUS
<1> HIDE DEF q, bc
<1>4. r.witness # None =>
        /\ bc.block \in q.at /\ r.witness \in reach[bc.block]
        /\ (r.witness \in q.body[bc.block] <=> q.mode = "exists")
  BY <1>2 DEF bc
<1> QED
  BY <1>1, <1>4, Zenon DEF Witnessed, bc

\* What is right of a block condition: whether some input that runs its block
\* satisfies, or violates, it there.
LEMMA BlockTruth ==
  ASSUME NEW k
  PROVE  RightBlock(k) = verdict_of(policy.bcs[k].mode,
           \E i \in reach[policy.bcs[k].block] :
              (i \in policy.bcs[k].body <=> policy.bcs[k].mode = "exists"))
<1> DEFINE bc == policy.bcs[k]
           f == [b \in {bc.block} |-> bc.body]
<1>1. f[bc.block] = bc.body
  OBVIOUS
<1>2. (\E b \in {bc.block} : \E i \in reach[b] : (i \in f[b] <=> bc.mode = "exists"))
        <=> (\E i \in reach[bc.block] : (i \in bc.body <=> bc.mode = "exists"))
  BY <1>1
<1> HIDE DEF f, bc
<1>3. Right(bc.mode, {bc.block}, f)
        = verdict_of(bc.mode, \E i \in reach[bc.block] : (i \in bc.body <=> bc.mode = "exists"))
  BY <1>2 DEF Right, verdict_of
<1> QED
  BY <1>3, Zenon DEF RightBlock, f, bc

\* A block condition is decided when all before it are.
LEMMA BlockPlace ==
  ASSUME IndInv, nextBC \in DOMAIN policy.bcs
  PROVE  /\ nextBC = Len(results) + 1 /\ Len(results) \in Nat
         /\ nextBC \in 1 .. nb /\ nextBC \in Nat /\ nb \in Nat /\ ne \in Nat
         /\ nextBC <= nb /\ ~(nextBC > nb) /\ ~(nextBC > nb + ne)
         /\ nextBC <= Len(Truth) /\ Truth[nextBC] = RightBlock(nextBC)
<1>1. TypeOK /\ OrderInv /\ policy \in Policy
  BY DEF IndInv, TypeOK
<1>2. nb \in Nat /\ ne \in Nat /\ DOMAIN policy.bcs = 1 .. nb
  BY <1>1, PolicyFacts DEF nb, ne
<1>3. /\ Len(results) \in Nat
      /\ Done("block_condition") = IF Len(results) <= nb THEN Len(results) ELSE nb
  BY <1>1, DoneFacts
<1>4. nextBC = Len(results) + 1 /\ nextBC \in 1 .. nb
  BY <1>2, <1>3 DEF nextBC
<1>5. Cardinality(info) \in Nat
  BY <1>1, InfoFinite DEF TypeOK
<1>6. /\ Len(Truth) \in Nat /\ Len(Truth) >= nb + ne
      /\ \A k \in 1 .. nb : Truth[k] = RightBlock(k)
  BY <1>1, <1>5, TruthFacts
<1> QED
  BY <1>2, <1>3, <1>4, <1>6

\* A result for the block condition at place n.
LEMMA BlockAdded ==
  ASSUME IndInv, NEW n, nextBC \in DOMAIN policy.bcs, n = nextBC,
         NEW bc, bc = policy.bcs[n],
         NEW model \in Input \cup {None}, NEW v, v = verdict_of(bc.mode, model # None),
         NEW note \in {"", "unreachable", "vacuous"},
         model # None => model \in reach[bc.block] /\ (model \in bc.body <=> bc.mode = "exists"),
         Unknown = {} => (v \in {"holds", "unsat"} /\ reach[bc.block] = {} <=> note \in {"unreachable", "vacuous"}),
         Unknown = {} => (model # None <=> \E i \in reach[bc.block] : (i \in bc.body <=> bc.mode = "exists")),
         results' = Append(results, Result("block_condition", n, v, note, model))
  PROVE  \E r : Added(r, Len(results) + 1)
<1>1. /\ n = Len(results) + 1 /\ Len(results) \in Nat
      /\ n \in 1 .. nb /\ n \in Nat /\ n <= nb /\ ~(n > nb) /\ ~(n > nb + ne)
      /\ n <= Len(Truth) /\ Truth[n] = RightBlock(n)
  BY BlockPlace
<1> DEFINE r == Result("block_condition", n, v, note, model)
<1>2. v = (IF bc.mode = "exists" THEN (IF model # None THEN "sat" ELSE "unsat")
           ELSE (IF model # None THEN "violated" ELSE "holds"))
  BY DEF verdict_of
<1>3. /\ r.kind = "block_condition" /\ r.at = n /\ r.verdict = v /\ r.note = note
      /\ r.witness = model
  BY DEF Result
<1>4. r \in CheckResult
  <2>1. n \in Nat
    BY <1>1, Zenon
  <2>3. v \in Verdict
    BY VerdictFacts, Zenon
  <2>2. model \in Input \cup {None} \cup (Block \X Input)
    OBVIOUS
  <2> QED
    BY <2>1, <2>2, <2>3 DEF Result, CheckResult
<1> HIDE DEF r
<1>5. Witnessed(r)
  BY <1>2, <1>3, BlockWitness
<1>6. Unknown = {} => Flagged(r)
  BY <1>3 DEF Flagged, Untested
<1>7. Unknown = {} => v = Truth[n]
  BY <1>1, <1>2, BlockTruth DEF verdict_of
<1>8. Added(r, n)
  <2>1. results' = Append(results, r)
    BY DEF r
  <2>3. Unknown = {} => n <= Len(Truth) /\ r.verdict = Truth[n]
    BY <1>1, <1>3, <1>7, Zenon
  <2> QED
    BY <1>1, <1>3, <1>4, <1>5, <1>6, <2>1, <2>3, Zenon DEF Added
<1> QED
  BY <1>1, <1>8

\* check_block_condition's early return.
LEMMA BlockUnreachableStep ==
  ASSUME IndInv, CheckBlockUnreachable
  PROVE  \E r : Added(r, Len(results) + 1)
<1> DEFINE n == nextBC
           bc == policy.bcs[n]
           v == IF bc.mode = "exists" THEN "unsat" ELSE "holds"
<1>1. n \in DOMAIN policy.bcs /\ (bc.block \notin info \/ reach_is(bc.block, FALSE))
      /\ results' = Append(results, Result("block_condition", n, v, "unreachable", None))
  BY DEF CheckBlockUnreachable
<1>2. reach[bc.block] = {}
  BY <1>1 DEF IndInv, ContextInv, reach_is
<1>3. v = verdict_of(bc.mode, None # None) /\ v \in {"holds", "unsat"}
  BY DEF verdict_of
<1> HIDE DEF n, bc, v
<1> QED
  BY <1>1, <1>2, <1>3, BlockAdded DEF n, bc

\* What a cache of vacuity answers holds is so.
Tells(cache) ==
  \A b \in Block : /\ cache[b] = "vacuous" => reach[b] = {}
                   /\ cache[b] = "live" => reach[b] # {}

\* Such a cache, as the next vac_cache.
LEMMA CacheUpdate ==
  ASSUME reach' = reach, Tells(vac_cache')
  PROVE  CacheInv'
BY DEF Tells, CacheInv

\* The vacuity test, for a verdict that needs one: what vac_cache holds after it.
LEMMA VacuousFacts ==
  ASSUME IndInv, NEW b \in Block, ~reach_is(b, FALSE), NEW tested \in BOOLEAN,
         NEW some \in (IF tested /\ asks_solver(b) THEN _decide(reach[b]) ELSE {None}),
         NEW cache, cache = IF tested /\ asks_solver(b) THEN [vac_cache EXCEPT ![b] = IF some = None THEN "vacuous" ELSE "live"] ELSE vac_cache
  PROVE  /\ cache \in [Block -> {"vacuous", "live", None}]
         /\ Unknown = {} => /\ Tells(cache)
                            /\ tested => (cache[b] = "vacuous" <=> reach[b] = {})
<1>1. vac_cache \in [Block -> {"vacuous", "live", None}] /\ reach[b] \in SUBSET Input
  BY DEF IndInv, TypeOK
<1>2. Unknown = {} => Tells(vac_cache)
  BY DEF IndInv, CacheInv, Tells
<1>3. CASE tested /\ asks_solver(b)
  <2>1. some \in _decide(reach[b])
    BY <1>3
  <2>2. Unknown = {} => (some = None <=> reach[b] = {})
    BY <1>1, <2>1, DecideFacts
  <2>3. cache = [vac_cache EXCEPT ![b] = IF some = None THEN "vacuous" ELSE "live"]
    BY <1>3
  <2>4. /\ cache \in [Block -> {"vacuous", "live", None}]
        /\ cache[b] = IF some = None THEN "vacuous" ELSE "live"
        /\ \A c \in Block : c # b => cache[c] = vac_cache[c]
    BY <1>1, <2>3
  <2>5. Unknown = {} => /\ cache[b] = "vacuous" => reach[b] = {}
                        /\ cache[b] = "live" => reach[b] # {}
                        /\ cache[b] = "vacuous" <=> reach[b] = {}
    BY <2>2, <2>4
  <2> QED
    BY <1>2, <2>4, <2>5 DEF Tells
<1>4. CASE ~(tested /\ asks_solver(b))
  <2>1. cache = vac_cache
    BY <1>4
  <2>2. ASSUME Unknown = {}, tested
        PROVE  vac_cache[b] = "vacuous" <=> reach[b] = {}
    <3>1. CASE reach_is(b, TRUE)
      <4>1. b \in lit /\ reach[b] = Input /\ reach[b] # {}
        BY <3>1 DEF reach_is
      <4> QED
        BY <1>2, <2>2, <4>1 DEF Tells
    <3>2. CASE vac_cache[b] # None
      <4>1. vac_cache[b] = "vacuous" \/ vac_cache[b] = "live"
        BY <1>1, <3>2
      <4> QED
        BY <1>2, <2>2, <4>1 DEF Tells
    <3> QED
      BY <1>4, <2>2, <3>1, <3>2 DEF asks_solver
  <2> QED
    BY <1>1, <1>2, <2>1, <2>2, Zenon
<1> QED
  BY <1>3, <1>4, Zenon

\* check_block_condition, when the block may run.
LEMMA BlockConditionStep ==
  ASSUME IndInv, CheckBlockCondition
  PROVE  /\ \E r : Added(r, Len(results) + 1)
         /\ vac_cache' \in [Block -> {"vacuous", "live", None}]
         /\ Unknown = {} => CacheInv'
<1>2. PICK bc :
        /\ bc = policy.bcs[nextBC] /\ nextBC \in DOMAIN policy.bcs
        /\ bc.block \in info /\ ~reach_is(bc.block, FALSE)
        /\ \E model \in _decide(_query(bc.block, bc.mode, bc.body)) :
             LET verdict == verdict_of(bc.mode, model # None)
                 asks == may_be_vacuous(verdict) /\ asks_solver(bc.block)
             IN  \E some \in (IF asks THEN _decide(reach[bc.block]) ELSE {None}) :
                   LET cache == IF asks THEN [vac_cache EXCEPT ![bc.block] = IF some = None THEN "vacuous" ELSE "live"] ELSE vac_cache
                       vacuous == may_be_vacuous(verdict) /\ cache[bc.block] = "vacuous"
                   IN  /\ vac_cache' = cache
                       /\ results' = Append(results,
                            Result("block_condition", nextBC, verdict,
                                   IF vacuous THEN "vacuous" ELSE "", model))
  BY Zenon DEF CheckBlockCondition
<1> DEFINE b == bc.block
           verdict(m) == verdict_of(bc.mode, m # None)
           asks(m) == may_be_vacuous(verdict(m)) /\ asks_solver(b)
           cache(m, s) == IF asks(m) THEN [vac_cache EXCEPT ![b] = IF s = None THEN "vacuous" ELSE "live"]
                          ELSE vac_cache
           note(m, s) == IF may_be_vacuous(verdict(m)) /\ cache(m, s)[b] = "vacuous" THEN "vacuous" ELSE ""
<1>3. PICK model \in _decide(_query(b, bc.mode, bc.body)) :
        \E some \in (IF asks(model) THEN _decide(reach[b]) ELSE {None}) :
          /\ vac_cache' = cache(model, some)
          /\ results' = Append(results, Result("block_condition", nextBC, verdict(model), note(model, some), model))
  BY <1>2, Zenon
<1>4. PICK v : v = verdict(model)
  OBVIOUS
<1> DEFINE tested == v \in {"holds", "unsat"}
<1>5. PICK some \in (IF tested /\ asks_solver(b) THEN _decide(reach[b]) ELSE {None}) :
        /\ vac_cache' = cache(model, some)
        /\ results' = Append(results, Result("block_condition", nextBC, v, note(model, some), model))
  BY <1>3, <1>4, Zenon DEF may_be_vacuous
<1>6. vac_cache' = IF tested /\ asks_solver(b) THEN [vac_cache EXCEPT ![b] = IF some = None THEN "vacuous" ELSE "live"]
                   ELSE vac_cache
  BY <1>4, <1>5, Zenon DEF may_be_vacuous
<1>7. note(model, some) = IF tested /\ vac_cache'[b] = "vacuous" THEN "vacuous" ELSE ""
  BY <1>4, <1>5, Zenon DEF may_be_vacuous
<1>8. v = verdict_of(bc.mode, model # None)
  BY <1>4
<1>9. PICK nt : nt = note(model, some)
  OBVIOUS
<1>10. results' = Append(results, Result("block_condition", nextBC, v, nt, model))
  BY <1>5, <1>9
<1>11. nt = IF tested /\ vac_cache'[b] = "vacuous" THEN "vacuous" ELSE ""
  BY <1>7, <1>9
<1> HIDE DEF verdict, asks, cache, note
<1>12. b \in Block /\ bc.mode \in Mode /\ bc.body \in SUBSET Input /\ reach \in [Block -> SUBSET Input]
  BY <1>2, PolicyFacts DEF IndInv, TypeOK
<1>13. /\ _query(b, bc.mode, bc.body) \in SUBSET Input
       /\ \A i : i \in _query(b, bc.mode, bc.body)
                <=> (i \in reach[b] /\ ((i \in bc.body) <=> (bc.mode = "exists")))
  BY <1>12, QueryFacts
<1>14. /\ model \in Input \cup {None}
       /\ model # None => model \in _query(b, bc.mode, bc.body)
       /\ Unknown = {} => (model # None <=> _query(b, bc.mode, bc.body) # {})
  BY <1>13, DecideFacts
<1>15. /\ vac_cache' \in [Block -> {"vacuous", "live", None}]
       /\ Unknown = {} => /\ Tells(vac_cache')
                          /\ tested => (vac_cache'[b] = "vacuous" <=> reach[b] = {})
  <2>1. tested \in BOOLEAN
    OBVIOUS
  <2>2. ~reach_is(b, FALSE)
    BY <1>2, Zenon
  <2> HIDE DEF tested, b
  <2> QED
    BY <2>2, <1>6, <1>12, <2>1, VacuousFacts, Zenon
<1>16. \E r : Added(r, Len(results) + 1)
  <2>1. nt \in {"", "unreachable", "vacuous"}
    BY <1>11
  <2>2. model # None => model \in reach[bc.block] /\ (model \in bc.body <=> bc.mode = "exists")
    BY <1>13, <1>14
  <2>3. Unknown = {} => (v \in {"holds", "unsat"} /\ reach[bc.block] = {} <=> nt \in {"unreachable", "vacuous"})
    <3>1. "vacuous" \in {"unreachable", "vacuous"} /\ "" \notin {"unreachable", "vacuous"}
      OBVIOUS
    <3>2. nt \in {"unreachable", "vacuous"} <=> tested /\ vac_cache'[b] = "vacuous"
      BY <1>11, <3>1, Zenon
    <3> QED
      BY <1>15, <3>2, Zenon
  <2>4. Unknown = {} => (model # None <=> \E i \in reach[bc.block] : (i \in bc.body <=> bc.mode = "exists"))
    BY <1>13, <1>14
  <2> HIDE DEF tested, b
  <2> QED
    BY <1>2, <1>8, <1>10, <1>14, <2>1, <2>2, <2>3, <2>4, BlockAdded
<1>17. Unknown = {} => CacheInv'
  <2>1. reach' = reach
    BY DEF CheckBlockCondition, fixed
  <2> QED
    BY <1>15, <2>1, CacheUpdate, Zenon
<1> QED
  BY <1>15, <1>16, <1>17

\* There is a first block among some blocks.
LEMMA FirstBlock ==
  ASSUME NEW H \in SUBSET Block, H # {}
  PROVE  \E b \in H : \A c \in H : b <= c
<1>1. H \subseteq Nat
  BY NAssumption DEF Block
<1>2. PICK b \in H : \A c \in H : <<c, b>> \notin OpToRel(<, Nat)
  BY <1>1, NatLessThanWellFounded, WFMin, Zenon
<1>3. ASSUME NEW c \in H PROVE b <= c
  <2>1. b \in Nat /\ c \in Nat
    BY <1>1
  <2>2. ~(c < b)
    BY <1>2, <2>1 DEF OpToRel
  <2> QED
    BY <2>1, <2>2
<1> QED
  BY <1>3

\* The witness of an exit condition is the answer at one of its exits.
LEMMA ExitWitness ==
  ASSUME NEW D \in SUBSET Block, NEW model \in [D -> Input \cup {None}]
  PROVE  /\ (\A b \in D : model[b] = None) => exit_witness(model) = None
         /\ (\E b \in D : model[b] # None) =>
              \E b \in D : model[b] # None /\ exit_witness(model) = <<b, model[b]>>
<1> DEFINE hits == {b \in DOMAIN model : model[b] # None}
           first == CHOOSE b \in hits : \A c \in hits : b <= c
<1>1. hits \in SUBSET Block /\ hits \in SUBSET D /\ DOMAIN model = D
  OBVIOUS
<1>2. exit_witness(model) = IF hits = {} THEN None ELSE <<first, model[first]>>
  BY Zenon DEF exit_witness
<1>3. hits # {} => first \in hits
  <2> SUFFICES ASSUME hits # {} PROVE first \in hits
    OBVIOUS
  <2> HIDE DEF hits
  <2>1. \E b \in hits : \A c \in hits : b <= c
    BY <1>1, FirstBlock, Zenon
  <2> QED
    BY <2>1, Zenon
<1> HIDE DEF first
<1> QED
  BY <1>1, <1>2, <1>3

\* An exit condition is decided when all conditions before it are.
LEMMA ExitPlace ==
  ASSUME IndInv, nextBC > Len(policy.bcs), nextEC \in DOMAIN policy.ecs, NEW n, n = Len(results) + 1
  PROVE  /\ n \in Nat /\ nextEC \in Nat /\ nextEC = n - nb
         /\ ~(n <= nb) /\ n <= nb + ne /\ ~(n > nb + ne)
         /\ n <= Len(Truth) /\ Truth[n] = RightExit(nextEC)
<1>1. TypeOK /\ OrderInv /\ policy \in Policy
  BY DEF IndInv, TypeOK
<1>2. nb \in Nat /\ ne \in Nat /\ DOMAIN policy.ecs = 1 .. ne
  BY <1>1, PolicyFacts DEF nb, ne
<1>3. PICK l : l = Len(results)
  OBVIOUS
<1>4. /\ l \in Nat
      /\ Done("block_condition") = IF l <= nb THEN l ELSE nb
      /\ Done("exit_condition") = IF l <= nb THEN 0 ELSE IF l <= nb + ne THEN l - nb ELSE ne
  BY <1>1, <1>3, DoneFacts
<1>5. PICK e : e = nextEC
  OBVIOUS
<1>6. e \in 1 .. ne /\ n = nb + e
  BY <1>2, <1>3, <1>4, <1>5 DEF nextBC, nextEC, nb
<1>7. Cardinality(info) \in Nat
  BY <1>1, InfoFinite DEF TypeOK
<1>8. /\ Len(Truth) \in Nat /\ Len(Truth) >= nb + ne
      /\ \A k \in 1 .. ne : Truth[nb + k] = RightExit(k)
  BY <1>1, <1>7, TruthFacts
<1>9. Truth[n] = RightExit(e)
  BY <1>6, <1>8
<1> QED
  BY <1>2, <1>3, <1>4, <1>5, <1>6, <1>8, <1>9

\* When an exit condition's witness is real.
LEMMA ExitWitnessed ==
  ASSUME NEW r, r.kind = "exit_condition",
         r.verdict \in {"violated", "sat"} <=> r.witness # None,
         r.witness # None =>
           \E b \in exit_blocks \ noret : \E i \in reach[b] :
             /\ r.witness = <<b, i>>
             /\ i \in policy.ecs[r.at].body[b] <=> policy.ecs[r.at].mode = "exists"
  PROVE  Witnessed(r)
<1> DEFINE ec == policy.ecs[r.at]
           q == [mode |-> ec.mode, at |-> exit_blocks \ noret, body |-> ec.body]
<1>1. Asked(r) = q
  BY Zenon DEF Asked
<1>2. q.mode = ec.mode /\ q.at = exit_blocks \ noret /\ q.body = ec.body
  OBVIOUS
<1> HIDE DEF q, ec
<1>4. r.witness # None =>
        /\ r.witness[1] \in q.at /\ r.witness[2] \in reach[r.witness[1]]
        /\ (r.witness[2] \in q.body[r.witness[1]] <=> q.mode = "exists")
  BY <1>2 DEF ec
<1> QED
  BY <1>1, <1>4, Zenon DEF Witnessed

\* What is right of an exit condition: whether some input satisfies, or violates,
\* it at an exit it runs.
LEMMA ExitTruth ==
  ASSUME NEW k
  PROVE  RightExit(k) = verdict_of(policy.ecs[k].mode,
           \E b \in exit_blocks \ noret : \E i \in reach[b] :
              (i \in policy.ecs[k].body[b] <=> policy.ecs[k].mode = "exists"))
BY Zenon DEF RightExit, Right

\* A result for the next exit condition.
LEMMA ExitAdded ==
  ASSUME IndInv, nextBC > Len(policy.bcs), nextEC \in DOMAIN policy.ecs,
         NEW ec, ec = policy.ecs[nextEC],
         NEW found \in BOOLEAN, NEW v, v = verdict_of(ec.mode, found),
         NEW note \in {"", "no reachable exit"}, NEW w,
         found <=> w # None,
         found => \E b \in exit_blocks \ noret : \E i \in reach[b] :
                    w = <<b, i>> /\ (i \in ec.body[b] <=> ec.mode = "exists"),
         Unknown = {} => (found <=> \E b \in exit_blocks \ noret : \E i \in reach[b] :
                                      (i \in ec.body[b] <=> ec.mode = "exists")),
         results' = Append(results, Result("exit_condition", nextEC, v, note, w))
  PROVE  \E r : Added(r, Len(results) + 1)
<1>1. PICK n : n = Len(results) + 1
  OBVIOUS
<1>2. /\ n \in Nat /\ nextEC \in Nat /\ nextEC = n - nb
      /\ ~(n <= nb) /\ n <= nb + ne /\ ~(n > nb + ne)
      /\ n <= Len(Truth) /\ Truth[n] = RightExit(nextEC)
  BY <1>1, ExitPlace, Zenon
<1> DEFINE r == Result("exit_condition", nextEC, v, note, w)
<1>3. v = (IF ec.mode = "exists" THEN (IF found THEN "sat" ELSE "unsat")
           ELSE (IF found THEN "violated" ELSE "holds"))
  BY Zenon DEF verdict_of
<1>4. /\ r.kind = "exit_condition" /\ r.at = nextEC /\ r.verdict = v /\ r.note = note
      /\ r.witness = w
  BY Zenon DEF Result
<1>5. w \in Input \cup {None} \cup (Block \X Input)
  <2>1. reach \in [Block -> SUBSET Input] /\ exit_blocks \subseteq Block
    BY DEF IndInv, TypeOK, exit_blocks
  <2>2. CASE ~found
    BY <2>2, Zenon
  <2>3. CASE found
    <3>1. PICK b \in exit_blocks \ noret : \E i \in reach[b] : w = <<b, i>>
      BY <2>3, Zenon
    <3>2. PICK i \in reach[b] : w = <<b, i>>
      BY <3>1, Zenon
    <3>3. b \in Block /\ i \in Input
      BY <2>1
    <3> QED
      BY <3>2, <3>3
  <2> QED
    BY <2>2, <2>3, Zenon
<1>6. r \in CheckResult
  <2>1. v \in Verdict
    BY VerdictFacts, Zenon
  <2>2. note \in {"", "unreachable", "vacuous", "no reachable exit"}
    BY Zenon
  <2> QED
    BY <1>2, <1>5, <2>1, <2>2, Zenon DEF Result, CheckResult
<1> HIDE DEF r
<1>7. Witnessed(r)
  <2>1. r.verdict \in {"violated", "sat"} <=> r.witness # None
    BY <1>3, <1>4
  <2>2. r.witness # None =>
          \E b \in exit_blocks \ noret : \E i \in reach[b] :
            /\ r.witness = <<b, i>>
            /\ i \in policy.ecs[r.at].body[b] <=> policy.ecs[r.at].mode = "exists"
    BY <1>4, Zenon
  <2> QED
    BY <1>4, <2>1, <2>2, ExitWitnessed, Zenon
<1>8. Flagged(r)
  <2>1. "exit_condition" # "block_condition" /\ note \notin {"unreachable", "vacuous"}
    BY Zenon
  <2> QED
    BY <1>4, <2>1, Zenon DEF Flagged, Untested
<1>9. Unknown = {} => r.verdict = Truth[n]
  <2>1. RightExit(nextEC) = verdict_of(ec.mode,
          \E b \in exit_blocks \ noret : \E i \in reach[b] : (i \in ec.body[b] <=> ec.mode = "exists"))
    BY ExitTruth, Zenon
  <2> QED
    BY <1>2, <1>3, <1>4, <2>1, Zenon DEF verdict_of
<1>10. Added(r, n)
  <2>1. results' = Append(results, r)
    BY Zenon DEF r
  <2> QED
    BY <1>2, <1>4, <1>6, <1>7, <1>8, <1>9, <2>1, Zenon DEF Added
<1> QED
  BY <1>1, <1>10, Zenon

\* check_exit_condition.
LEMMA ExitConditionStep ==
  ASSUME IndInv, CheckExitCondition
  PROVE  \E r : Added(r, Len(results) + 1)
<1> DEFINE ec == policy.ecs[nextEC]
           live_exits == {b \in exit_blocks \cap info : ~reach_is(b, FALSE)}
           decided == live_exits \ noret
           answers(b) == _decide(_query(b, ec.mode, ec.body[b]))
           note == IF live_exits = {} THEN "no reachable exit" ELSE ""
<1>1. /\ nextBC > Len(policy.bcs) /\ nextEC \in DOMAIN policy.ecs
      /\ \E model \in {a \in [decided -> Input \cup {None}] : \A b \in decided : a[b] \in answers(b)} :
           results' = Append(results,
             Result("exit_condition", nextEC,
                    verdict_of(ec.mode, \E b \in decided : model[b] # None), note, exit_witness(model)))
  BY Zenon DEF CheckExitCondition
<1>2. PICK model \in [decided -> Input \cup {None}] :
        /\ \A b \in decided : model[b] \in answers(b)
        /\ results' = Append(results,
             Result("exit_condition", nextEC,
                    verdict_of(ec.mode, \E b \in decided : model[b] # None), note, exit_witness(model)))
  BY <1>1, Zenon
<1>3. /\ policy \in Policy /\ reach \in [Block -> SUBSET Input] /\ ContextInv
      /\ exit_blocks \subseteq Block
  BY DEF IndInv, TypeOK, exit_blocks
<1>4. ec.mode \in Mode /\ ec.body \in [Block -> SUBSET Input]
  BY <1>1, <1>3, PolicyFacts
<1>5. decided \in SUBSET Block /\ decided \subseteq exit_blocks \ noret
  BY <1>3
<1>6. \A b \in (exit_blocks \ noret) \ decided : reach[b] = {}
  <2>1. policy.ecs # << >>
    <3>1. nextEC \in DOMAIN policy.ecs
      BY <1>1, Zenon
    <3> QED
      BY <3>1
  <2> QED
    BY <1>3, <2>1 DEF ContextInv, reach_is
<1>7. ASSUME NEW b \in decided
      PROVE  /\ model[b] # None => model[b] \in reach[b] /\ (model[b] \in ec.body[b] <=> ec.mode = "exists")
             /\ Unknown = {} => (model[b] # None <=> \E i \in reach[b] : (i \in ec.body[b] <=> ec.mode = "exists"))
  <2>1. b \in Block /\ model[b] \in _decide(_query(b, ec.mode, ec.body[b]))
    BY <1>2, <1>5
  <2> HIDE DEF ec
  <2>2. PICK F : F = _query(b, ec.mode, ec.body[b])
    OBVIOUS
  <2>3. F \in SUBSET Input /\ \A i : i \in F <=> (i \in reach[b] /\ ((i \in ec.body[b]) <=> (ec.mode = "exists")))
    BY <1>3, <1>4, <2>1, <2>2, QueryFacts
  <2>4. /\ model[b] # None => model[b] \in F
        /\ Unknown = {} => (model[b] # None <=> F # {})
    BY <2>1, <2>2, <2>3, DecideFacts
  <2> QED
    BY <2>3, <2>4
<1>8. PICK found \in BOOLEAN : found <=> \E b \in decided : model[b] # None
  BY Zenon
<1>9. PICK w : w = exit_witness(model)
  OBVIOUS
<1>16. ec = policy.ecs[nextEC] /\ nextBC > Len(policy.bcs) /\ nextEC \in DOMAIN policy.ecs
  BY <1>1, Zenon
<1> HIDE DEF ec, live_exits, decided, answers
<1>10. /\ found <=> w # None
       /\ found => \E b \in decided : model[b] # None /\ w = <<b, model[b]>>
  <2>1. /\ (\A b \in decided : model[b] = None) => w = None
        /\ (\E b \in decided : model[b] # None) =>
             \E b \in decided : model[b] # None /\ w = <<b, model[b]>>
    BY <1>5, <1>9, ExitWitness, Zenon
  <2>2. \A b \in decided : <<b, model[b]>> # None \/ model[b] = None
    <3>1. \A b \in decided : model[b] # None => <<b, model[b]>> \in Block \X Input
      BY <1>5
    <3> QED
      BY <3>1, NoneAssumption, Zenon
  <2> QED
    BY <1>8, <2>1, <2>2, Zenon
<1>11. found => \E b \in exit_blocks \ noret : \E i \in reach[b] :
                  w = <<b, i>> /\ (i \in ec.body[b] <=> ec.mode = "exists")
  BY <1>5, <1>7, <1>10, Zenon
<1>12. Unknown = {} => (found <=> \E b \in exit_blocks \ noret : \E i \in reach[b] :
                                    (i \in ec.body[b] <=> ec.mode = "exists"))
  <2>1. \A b \in (exit_blocks \ noret) : (\E i \in reach[b] : TRUE) => b \in decided
    BY <1>6
  <2> QED
    BY <1>5, <1>7, <1>8, <2>1, Zenon
<1>13. note \in {"", "no reachable exit"}
  BY Zenon
<1>14. PICK v : v = verdict_of(ec.mode, found)
  OBVIOUS
<1>15. results' = Append(results, Result("exit_condition", nextEC, v, note, w))
  <2>1. verdict_of(ec.mode, \E b \in decided : model[b] # None) = v
    BY <1>8, <1>14, Zenon DEF verdict_of
  <2> QED
    BY <1>2, <1>9, <2>1, Zenon
<1> HIDE DEF note
<1> QED
  <2>1. found <=> w # None
    BY <1>10, Zenon
  <2>2. nextBC > Len(policy.bcs)
    BY <1>16, Zenon
  <2>3. nextEC \in DOMAIN policy.ecs
    BY <1>16, Zenon
  <2>4. ec = policy.ecs[nextEC]
    BY <1>16, Zenon
  <2>5. found \in BOOLEAN
    BY <1>8, Zenon
  <2> QED
    BY <1>11, <1>12, <1>13, <1>14, <1>15, <2>1, <2>2, <2>3, <2>4, <2>5, ExitAdded, Zenon

\* The place of a block's line in the report, and what is right there.
LEMMA ReportPlace ==
  ASSUME IndInv, policy.reach_all, nextBC > Len(policy.bcs), nextEC > Len(policy.ecs),
         NEW b \in info, Done("reachability") = rank(b), NEW n, n = Len(results) + 1
  PROVE  /\ ~(n <= nb) /\ ~(n <= nb + ne) /\ n > nb + ne
         /\ n <= Len(Truth)
         /\ Truth[n] = IF reach[b] # {} THEN "sat" ELSE "unsat"
<1>1. TypeOK /\ OrderInv /\ policy \in Policy /\ info \subseteq Block
  BY DEF IndInv, TypeOK
<1>2. nb \in Nat /\ ne \in Nat
  BY <1>1, PolicyFacts DEF nb, ne
<1>3. PICK l : l = Len(results)
  OBVIOUS
<1>4. /\ l \in Nat
      /\ Done("block_condition") = IF l <= nb THEN l ELSE nb
      /\ Done("exit_condition") = IF l <= nb THEN 0 ELSE IF l <= nb + ne THEN l - nb ELSE ne
      /\ Done("reachability") = IF l <= nb + ne THEN 0 ELSE l - (nb + ne)
  BY <1>1, <1>3, DoneFacts
<1>5. PICK c : c = Cardinality(info)
  OBVIOUS
<1>6. PICK k : k = rank(b) + 1
  OBVIOUS
<1>7. c \in Nat /\ rank(b) \in 0 .. c - 1 /\ {x \in info : rank(x) = rank(b)} = {b}
  BY <1>1, <1>5, RankFacts
<1>8. Done("block_condition") + 1 > nb /\ Done("exit_condition") + 1 > ne
  BY DEF nextBC, nextEC, nb, ne
<1>9. k \in 1 .. c /\ n = nb + ne + k /\ k - 1 = rank(b)
  BY <1>2, <1>3, <1>4, <1>6, <1>7, <1>8
<1>10. Len(Truth) = nb + ne + c /\ Truth[nb + ne + k] = RightReport(k)
  BY <1>1, <1>5, <1>7, <1>9, TruthFacts
<1>11. RightReport(k) = IF reach[b] # {} THEN "sat" ELSE "unsat"
  <2> DEFINE f == [x \in Block |-> Input]
  <2>1. reach[b] \in SUBSET Input /\ f[b] = Input
    BY <1>1 DEF TypeOK
  <2>2. (\E x \in {b} : \E i \in reach[x] : (i \in f[x] <=> "exists" = "exists")) <=> reach[b] # {}
    BY <2>1
  <2> HIDE DEF f
  <2>3. RightReport(k) = Right("exists", {b}, f)
    BY <1>7, <1>9, Zenon DEF RightReport, f
  <2> QED
    BY <2>2, <2>3, Zenon DEF Right, verdict_of
<1> QED
  BY <1>2, <1>7, <1>9, <1>10, <1>11

\* A step of reach_report.
LEMMA ReachReportStep ==
  ASSUME IndInv, NEW b \in Block, ReachReport(b)
  PROVE  /\ \E r : Added(r, Len(results) + 1)
         /\ dead' \subseteq info
         /\ Unknown = {} => DeadInv'
<1>1. /\ policy.reach_all /\ nextBC > Len(policy.bcs) /\ nextEC > Len(policy.ecs)
      /\ b \in info /\ Done("reachability") = rank(b)
      /\ reach' = reach
  BY DEF ReachReport, fixed
<1>2. PICK model \in (IF every_pred_dead(b) THEN {None} ELSE _decide(reach[b])) :
        /\ dead' = IF model = None THEN dead \cup {b} ELSE dead
        /\ results' = Append(results,
             Result("reachability", b, IF model = None THEN "unsat" ELSE "sat", "", None))
  BY Zenon DEF ReachReport
<1>3. /\ reach \in [Block -> SUBSET Input] /\ dead \subseteq info /\ ContextInv
      /\ Unknown = {} => DeadInv
  BY DEF IndInv, TypeOK
<1>4. ASSUME Unknown = {}
      PROVE  model = None <=> reach[b] = {}
  <2>1. CASE every_pred_dead(b)
    <3>1. b # 0 /\ \A p \in preds(b) : p \in dead \/ p \notin info
      BY <2>1 DEF every_pred_dead
    <3>2. \A p \in preds(b) : p \in Block
      BY DEF preds
    <3>3. \A p \in preds(b) : reach[p] = {}
      BY <1>1, <1>3, <1>4, <3>1, <3>2, Zenon DEF DeadInv, ContextInv
    <3>4. reach[b] = {}
      BY <1>3, <3>1, <3>3, Zenon DEF ContextInv
    <3> QED
      BY <1>2, <2>1, <3>4, Zenon
  <2>2. CASE ~every_pred_dead(b)
    <3>1. model \in _decide(reach[b]) /\ reach[b] \in SUBSET Input
      BY <1>2, <1>3, <2>2
    <3> QED
      BY <1>4, <3>1, DecideFacts
  <2> QED
    BY <2>1, <2>2, Zenon
<1>5. dead' \subseteq info
  BY <1>1, <1>2, <1>3, Zenon
<1>6. Unknown = {} => DeadInv'
  BY <1>1, <1>2, <1>3, <1>4 DEF DeadInv
<1>7. \E r : Added(r, Len(results) + 1)
  <2>1. PICK n : n = Len(results) + 1
    OBVIOUS
  <2>2. PICK v : v = IF model = None THEN "unsat" ELSE "sat"
    OBVIOUS
  <2> DEFINE r == Result("reachability", b, v, "", None)
  <2>3. /\ ~(n <= nb) /\ ~(n <= nb + ne) /\ n > nb + ne
        /\ n <= Len(Truth)
        /\ Truth[n] = IF reach[b] # {} THEN "sat" ELSE "unsat"
    BY <1>1, <2>1, ReportPlace, Zenon
  <2>4. r.kind = "reachability" /\ r.verdict = v
    BY DEF Result
  <2>5. r \in CheckResult
    <3>1. b \in Nat
      BY NAssumption DEF Block
    <3>2. v \in Verdict
      BY <2>2 DEF Verdict
    <3> QED
      BY <3>1, <3>2, Zenon DEF Result, CheckResult
  <2>6. Unknown = {} => v = Truth[n]
    BY <1>4, <2>2, <2>3, Zenon
  <2>7. results' = Append(results, r)
    BY <1>2, <2>2, Zenon
  <2> HIDE DEF r
  <2>8. Added(r, n)
    BY <2>3, <2>4, <2>5, <2>6, <2>7, Zenon DEF Added
  <2> QED
    BY <2>1, <2>8, Zenon
<1> QED
  BY <1>5, <1>6, <1>7, Zenon

-----------------------------------------------------------------------------
(* The theorems. *)

\* check starts in the invariant.
LEMMA InitInv == Init => IndInv
<1> SUFFICES ASSUME Init PROVE IndInv
  OBVIOUS
<1>1. TypeOK /\ ContextInv
  BY InitContext
<1>2. results = << >> /\ dead = {} /\ vac_cache = [b \in Block |-> None]
  BY DEF Init
<1>3. OrderInv
  BY <1>2 DEF OrderInv
<1>4. Conditions = {}
  BY <1>2 DEF Conditions
<1>5. WitnessReal /\ UntestedFlagged
  BY <1>4, Zenon DEF WitnessReal, UntestedFlagged
<1>6. CacheInv /\ DeadInv
  BY <1>2, NoneAssumption DEF CacheInv, DeadInv
<1> QED
  BY <1>1, <1>3, <1>5, <1>6, Zenon DEF IndInv

\* The steps of check that add a result, and what they keep.
LEMMA StepAdds ==
  ASSUME IndInv,
         CheckBlockUnreachable \/ CheckBlockCondition \/ CheckExitCondition
           \/ \E b \in Block : ReachReport(b)
  PROVE  /\ UNCHANGED <<fixed, info>>
         /\ \E r : Added(r, Len(results) + 1)
         /\ vac_cache' \in [Block -> {"vacuous", "live", None}]
         /\ dead' \subseteq info
         /\ Unknown = {} => CacheInv' /\ DeadInv'
<1>1. /\ vac_cache \in [Block -> {"vacuous", "live", None}] /\ dead \subseteq info
      /\ Unknown = {} => CacheInv /\ DeadInv
  BY DEF IndInv, TypeOK
<1>2. /\ reach' = reach /\ dead' = dead => (DeadInv => DeadInv')
      /\ reach' = reach /\ vac_cache' = vac_cache => (CacheInv => CacheInv')
  BY DEF DeadInv, CacheInv
<1>3. CASE CheckBlockUnreachable
  <2>1. UNCHANGED <<fixed, info>> /\ vac_cache' = vac_cache /\ dead' = dead /\ reach' = reach
    BY <1>3 DEF CheckBlockUnreachable, fixed
  <2> QED
    BY <1>1, <1>2, <1>3, <2>1, BlockUnreachableStep, Zenon
<1>4. CASE CheckBlockCondition
  <2>1. UNCHANGED <<fixed, info>> /\ dead' = dead /\ reach' = reach
    BY <1>4 DEF CheckBlockCondition, fixed
  <2> QED
    BY <1>1, <1>2, <1>4, <2>1, BlockConditionStep, Zenon
<1>5. CASE CheckExitCondition
  <2>1. UNCHANGED <<fixed, info>> /\ vac_cache' = vac_cache /\ dead' = dead /\ reach' = reach
    BY <1>5 DEF CheckExitCondition, fixed
  <2> QED
    BY <1>1, <1>2, <1>5, <2>1, ExitConditionStep, Zenon
<1>6. CASE \E b \in Block : ReachReport(b)
  <2>1. PICK b \in Block : ReachReport(b)
    BY <1>6
  <2>2. UNCHANGED <<fixed, info>> /\ vac_cache' = vac_cache /\ reach' = reach
    BY <2>1 DEF ReachReport, fixed
  <2> QED
    BY <1>1, <1>2, <2>1, <2>2, ReachReportStep, Zenon
<1> QED
  BY <1>3, <1>4, <1>5, <1>6, Zenon

\* Every step of check keeps the invariant.
LEMMA StepKeeps == IndInv /\ [Next]_vars => IndInv'
<1> SUFFICES ASSUME IndInv, [Next]_vars PROVE IndInv'
  OBVIOUS
<1>1. CASE UNCHANGED vars
  <2>1. /\ prog' = prog /\ policy' = policy /\ noret' = noret /\ reach' = reach /\ lit' = lit
        /\ info' = info /\ vac_cache' = vac_cache /\ dead' = dead /\ results' = results
    BY <1>1 DEF vars, fixed
  <2>2. TypeOK' /\ OrderInv'
    BY <2>1 DEF IndInv, TypeOK, OrderInv
  <2>3. ContextInv'
    BY <2>1 DEF IndInv, ContextInv, preds, successors
  <2>4. Unknown = {} => CacheInv' /\ DeadInv'
    BY <2>1 DEF IndInv, CacheInv, DeadInv
  <2>5. \A x : x \in Conditions' => x \in Conditions
    BY <2>1 DEF Conditions
  <2>6. \A x : /\ Witnessed(x)' <=> Witnessed(x)
               /\ Flagged(x)' <=> Flagged(x)
    BY <2>1, Zenon DEF Witnessed, Flagged, Untested, Asked, exit_blocks, successors
  <2>7. WitnessReal'
    BY <2>5, <2>6, Zenon DEF IndInv, WitnessReal
  <2>8. Unknown = {} => UntestedFlagged'
    BY <2>5, <2>6, Zenon DEF IndInv, UntestedFlagged
  <2> QED
    BY <2>2, <2>3, <2>4, <2>7, <2>8, Zenon DEF IndInv
<1>2. CASE CheckBlockUnreachable \/ CheckBlockCondition \/ CheckExitCondition
             \/ \E b \in Block : ReachReport(b)
  <2>1. /\ UNCHANGED <<fixed, info>>
        /\ \E r : Added(r, Len(results) + 1)
        /\ vac_cache' \in [Block -> {"vacuous", "live", None}]
        /\ dead' \subseteq info
        /\ Unknown = {} => CacheInv' /\ DeadInv'
    BY <1>2, StepAdds, Zenon
  <2>2. /\ results' \in Seq(CheckResult)
        /\ ContextInv' /\ OrderInv' /\ WitnessReal'
        /\ Unknown = {} => UntestedFlagged'
    BY <2>1, AddedFacts, Zenon
  <2>3. TypeOK'
    BY <2>1, <2>2 DEF IndInv, TypeOK, fixed
  <2> QED
    BY <2>1, <2>2, <2>3, Zenon DEF IndInv
<1> QED
  BY <1>1, <1>2, Zenon DEF Next, Ended

\* The inductive invariant of check.
THEOREM CheckInvariant == Spec => []IndInv
<1>1. Init => IndInv
  BY InitInv
<1>2. IndInv /\ [Next]_vars => IndInv'
  BY StepKeeps
<1> QED
  BY <1>1, <1>2, PTL DEF Spec

\* Every counterexample check gives is real, whatever the solver gives up on.
THEOREM WitnessesAreReal == Spec => []WitnessReal
<1>1. IndInv => WitnessReal
  BY DEF IndInv
<1> QED
  BY <1>1, CheckInvariant, PTL

\* With a solver that answers, a block condition is flagged as untested exactly if
\* no input runs its block.
THEOREM UntestedAreFlagged == ASSUME Unknown = {} PROVE Spec => []UntestedFlagged
<1>1. IndInv => UntestedFlagged
  BY DEF IndInv
<1> QED
  BY <1>1, CheckInvariant, PTL

-----------------------------------------------------------------------------
(* check implements Oracle. *)

\* The right verdicts do not change while they are given.
LEMMA TruthFixed ==
  ASSUME policy' = policy, noret' = noret, prog' = prog, reach' = reach, info' = info
  PROVE  Truth' = Truth
<1>1. exit_blocks' = exit_blocks
  BY DEF exit_blocks, successors
<1>2. \A b : rank(b)' = rank(b)
  BY DEF rank
<1>3. \A k : {b \in info : rank(b) = k - 1}' = {b \in info : rank(b) = k - 1}
  BY <1>2
<1>4. \A mode, at, body : Right(mode, at, body)' = Right(mode, at, body)
  BY Zenon DEF Right, verdict_of
<1> QED
  BY <1>1, <1>3, <1>4, Zenon DEF Truth

Said == [k \in DOMAIN results |-> results[k].verdict]

\* A result that is added adds its verdict.
LEMMA SaidAppend ==
  ASSUME results \in Seq(CheckResult), NEW r \in CheckResult, results' = Append(results, r)
  PROVE  /\ Len(Said) = Len(results)
         /\ Said' = Append(Said, r.verdict)
<1> DEFINE n == Len(results)
<1>1. n \in Nat /\ DOMAIN results = 1 .. n /\ \A k \in 1 .. n : results[k] \in CheckResult
  OBVIOUS
<1>2. /\ DOMAIN results' = 1 .. n + 1 /\ results'[n + 1] = r
      /\ \A k \in 1 .. n : results'[k] = results[k]
  BY <1>1
<1>3. r.verdict \in Verdict /\ \A k \in 1 .. n : results[k].verdict \in Verdict
  BY <1>1 DEF CheckResult
<1>4. Said = [k \in 1 .. n |-> results[k].verdict]
  BY <1>1 DEF Said
<1>5. Said \in Seq(Verdict) /\ Len(Said) = n /\ \A k \in 1 .. n : Said[k] = results[k].verdict
  BY <1>1, <1>3, <1>4
<1>6. Said' = [k \in 1 .. n + 1 |-> results'[k].verdict]
  BY <1>2 DEF Said
<1>7. Append(Said, r.verdict) = [k \in 1 .. n + 1 |-> IF k <= n THEN Said[k] ELSE r.verdict]
  BY <1>1, <1>3, <1>5
<1>8. ASSUME NEW k \in 1 .. n + 1
      PROVE  results'[k].verdict = IF k <= n THEN Said[k] ELSE r.verdict
  <2>1. CASE k \in 1 .. n
    BY <1>1, <1>2, <1>5, <2>1
  <2>2. CASE k = n + 1
    BY <1>1, <1>2, <2>2
  <2> QED
    BY <1>1, <2>1, <2>2
<1> QED
  BY <1>5, <1>6, <1>7, <1>8

\* With a solver that answers, check gives the right verdicts, in the order of
\* the policy and no more of them: the safety part of the refinement Decides.
THEOREM VerdictsAreRight == ASSUME Unknown = {} PROVE Spec => Promise!SafeSpec
<1>1. Init => Promise!Init
  BY DEF Init, Promise!Init
<1>2. IndInv /\ [Next]_vars => [Promise!Answer]_<<Truth, Said>>
  <2> SUFFICES ASSUME IndInv, [Next]_vars
               PROVE  Promise!Answer \/ (Truth' = Truth /\ Said' = Said)
    BY Zenon
  <2>1. CASE UNCHANGED vars
    <3>1. /\ prog' = prog /\ policy' = policy /\ noret' = noret /\ reach' = reach
          /\ info' = info /\ results' = results
      BY <2>1 DEF vars, fixed
    <3>2. Truth' = Truth
      BY <3>1, TruthFixed, Zenon
    <3>3. Said' = Said
      BY <3>1, Zenon DEF Said
    <3> QED
      BY <3>2, <3>3
  <2>2. CASE CheckBlockUnreachable \/ CheckBlockCondition \/ CheckExitCondition
               \/ \E b \in Block : ReachReport(b)
    <3>1. UNCHANGED <<fixed, info>> /\ \E r : Added(r, Len(results) + 1)
      BY <2>2, StepAdds, Zenon
    <3>2. prog' = prog /\ policy' = policy /\ noret' = noret /\ reach' = reach /\ info' = info
      BY <3>1 DEF fixed
    <3>3. Truth' = Truth
      BY <3>2, TruthFixed, Zenon
    <3>4. PICK r : Added(r, Len(results) + 1)
      BY <3>1
    <3>5. results \in Seq(CheckResult) /\ r \in CheckResult /\ results' = Append(results, r)
      BY <3>4 DEF IndInv, TypeOK, Added
    <3>6. Len(Said) = Len(results) /\ Said' = Append(Said, r.verdict)
      BY <3>5, SaidAppend, Zenon
    <3>7. Len(results) + 1 <= Len(Truth) /\ r.verdict = Truth[Len(results) + 1]
      BY <3>4, Zenon DEF Added
    <3>8. Len(Truth) \in Nat /\ Len(results) \in Nat
      <4>1. policy \in Policy /\ Cardinality(info) \in Nat
        BY InfoFinite DEF IndInv, TypeOK
      <4> QED
        BY <3>5, <4>1, TruthFacts
    <3>9. Len(Said) < Len(Truth)
      BY <3>6, <3>7, <3>8
    <3>10. Said' = Append(Said, Truth[Len(Said) + 1])
      BY <3>6, <3>7, Zenon
    <3> QED
      BY <3>3, <3>9, <3>10, Zenon DEF Promise!Answer, Said
  <2> QED
    BY <2>1, <2>2, Zenon DEF Next, Ended
<1> QED
  BY <1>1, <1>2, CheckInvariant, PTL DEF Spec, Promise!SafeSpec, Said
=============================================================================
