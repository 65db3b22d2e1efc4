-------------------------------- MODULE Checker --------------------------------
(***************************************************************************)
(* verify/checker.py: context_for and check decide the block conditions,   *)
(* the exit conditions and the reachability report of a policy, one after  *)
(* the other, with one solver.                                             *)
(*                                                                         *)
(* A formula is the set of inputs that satisfy it.  The reach condition of *)
(* a block is the set of inputs that run it, as module Forward shows, or a *)
(* Python literal where z3's simplify found one.  A condition's body is    *)
(* the set of inputs of which it is true where it is decided.              *)
(***************************************************************************)
EXTENDS Integers, Sequences, FiniteSets

CONSTANTS N,          \* number of blocks
          Input,      \* the valuations of the program's inputs
          None,       \* Python's None
          Programs,   \* records [t, f, go]: successors, and the inputs that take each branch
          Policies,   \* records [bcs, ecs, reach_all]: block conditions, exit conditions, and
                      \* whether the reachability of every block is reported
          NoRet,      \* the sets of exits to check without a return value
          Unknown     \* {None} if the solver may answer unknown, else {}

Block == 0 .. N - 1
Mode == {"all", "exists"}
Verdict == {"holds", "violated", "sat", "unsat"}

\* The body of an exit condition is a function on blocks: the exit it is decided at.
Program == [t : [Block -> Block \cup {None}], f : [Block -> Block \cup {None}],
            go : [Block -> SUBSET Input]]
BlockCondition == [block : Block, mode : Mode, body : SUBSET Input]
ExitCondition == [mode : Mode, body : [Block -> SUBSET Input]]
Policy == [bcs : Seq(BlockCondition), ecs : Seq(ExitCondition), reach_all : BOOLEAN]

ASSUME NAssumption == N \in Nat \ {0}
ASSUME NoneAssumption ==
  None \notin Block /\ None \notin Input /\ None \notin {"vacuous", "live"} /\ None \notin Block \X Input
ASSUME ProgramsAssumption == Programs \subseteq Program
ASSUME PoliciesAssumption == Policies \subseteq Policy
ASSUME NoRetAssumption == NoRet \subseteq SUBSET Block
ASSUME UnknownAssumption == Unknown \subseteq {None}

VARIABLES
  prog, policy,  \* read only
  noret,         \* exit blocks whose ret_expr is None; read only
  reach,         \* ctx.reach of each block; read only
  lit,           \* blocks whose reach condition is a Python literal; read only
  info,          \* the blocks of ctx.info
  vac_cache,     \* check's vac_cache: True as "vacuous", False as "live"
  dead,          \* reach_report's `dead`
  results        \* the CheckResults so far

vars == <<prog, policy, noret, reach, lit, info, vac_cache, dead, results>>
fixed == <<prog, policy, noret, reach, lit>>

successors(b) == {prog.t[b], prog.f[b]} \ {None}
preds(b) == {p \in Block : b \in successors(p)}
exit_blocks == {b \in Block : successors(b) = {}}

\* What a walk along next from the blocks of S visits: the least set that holds
\* them and is closed under next.
Closure(next(_), S) ==
  {b \in Block : \A X \in SUBSET Block :
                  (S \subseteq X /\ \A x \in X : next(x) \subseteq X) => b \in X}
live == Closure(successors, {0})

\* Where an input goes from a block, and the blocks it runs.
taken(i, b) ==
  IF prog.t[b] = None \/ prog.f[b] = None THEN successors(b)
  ELSE {IF i \in prog.go[b] THEN prog.t[b] ELSE prog.f[b]}
Path(i) == LET next(b) == taken(i, b) IN Closure(next, {0})
Runs == [b \in Block |-> {i \in Input : b \in Path(i)}]

\* ctx.reach(b) as the code tells it apart.
reach_is(b, v) == b \in lit /\ reach[b] = (IF v THEN Input ELSE {})

-----------------------------------------------------------------------------
(* _decide: the answers the solver may give on a formula, None for unsat    *)
(* and unknown, or a model.  A combined condition that is literally False   *)
(* is not given to the solver.                                              *)
_decide(F) == IF F = {} THEN {None} ELSE F \cup Unknown

\* _query: the inputs that run block b and satisfy a condition there, or
\* violate it.
_query(b, mode, body) == IF mode = "exists" THEN reach[b] \cap body ELSE reach[b] \ body

verdict_of(mode, found) == IF mode = "exists" THEN (IF found THEN "sat" ELSE "unsat")
                           ELSE (IF found THEN "violated" ELSE "holds")

\* Faulty variant: unsat is never tested for vacuity.
may_be_vacuous_holds(verdict) == verdict = "holds"

\* The verdicts that need a vacuity test, and whether _vacuous has to ask for it.
may_be_vacuous(verdict) == verdict \in {"holds", "unsat"}
asks_solver(b) == ~reach_is(b, TRUE) /\ vac_cache[b] = None

Result(kind, at, verdict, note, witness) ==
  [kind |-> kind, at |-> at, verdict |-> verdict, note |-> note, witness |-> witness]

Done(kind) == Cardinality({k \in DOMAIN results : results[k].kind = kind})
nextBC == Done("block_condition") + 1
nextEC == Done("exit_condition") + 1

\* Faulty variant: exit conditions do not lift the slicing.
context_for_sliced ==
  LET targets == {policy.bcs[k].block : k \in DOMAIN policy.bcs}
  IN  IF policy.reach_all THEN live
      ELSE {0} \cup (Closure(preds, targets \cap live) \cap live)

\* context_for: sliced to the blocks asked about unless an exit condition or the
\* reachability report needs every block.
context_for ==
  LET targets == {policy.bcs[k].block : k \in DOMAIN policy.bcs}
  IN  IF policy.ecs # << >> \/ policy.reach_all THEN live
      ELSE {0} \cup (Closure(preds, targets \cap live) \cap live)

\* check_block_condition's early return.
CheckBlockUnreachable ==
  /\ nextBC \in DOMAIN policy.bcs
  /\ LET bc == policy.bcs[nextBC] IN
       /\ bc.block \notin info \/ reach_is(bc.block, FALSE)
       /\ results' = Append(results,
            Result("block_condition", nextBC, IF bc.mode = "exists" THEN "unsat" ELSE "holds",
                   "unreachable", None))
  /\ UNCHANGED <<fixed, info, vac_cache, dead>>

\* The rest of it: the query, then _vacuous, whose answer is cached.
CheckBlockCondition ==
  /\ nextBC \in DOMAIN policy.bcs
  /\ LET bc == policy.bcs[nextBC]
         b  == bc.block
     IN  /\ b \in info /\ ~reach_is(b, FALSE)
         /\ \E model \in _decide(_query(b, bc.mode, bc.body)) :
              LET verdict == verdict_of(bc.mode, model # None)
                  asks == may_be_vacuous(verdict) /\ asks_solver(b)
              IN  \E some \in (IF asks THEN _decide(reach[b]) ELSE {None}) :
                    LET cache == IF asks THEN [vac_cache EXCEPT ![b] = IF some = None THEN "vacuous" ELSE "live"] ELSE vac_cache
                        vacuous == may_be_vacuous(verdict) /\ cache[b] = "vacuous"
                    IN  /\ vac_cache' = cache
                        /\ results' = Append(results,
                             Result("block_condition", nextBC, verdict,
                                    IF vacuous THEN "vacuous" ELSE "", model))
  /\ UNCHANGED <<fixed, info, dead>>

\* Faulty variant: the block of the first answer, the model of the last.
exit_witness_mixed(model) ==
  LET hits == {b \in DOMAIN model : model[b] # None}
      first == CHOOSE b \in hits : \A c \in hits : b <= c
      last == CHOOSE b \in hits : \A c \in hits : b >= c
  IN  IF hits = {} THEN None ELSE <<first, model[last]>>

\* The witness of an exit condition: the first exit that has a model, and it.
exit_witness(model) ==
  LET hits == {b \in DOMAIN model : model[b] # None}
      first == CHOOSE b \in hits : \A c \in hits : b <= c
  IN  IF hits = {} THEN None ELSE <<first, model[first]>>

\* check_exit_condition: every exit that may run and has a return value is
\* decided; the first that answers gives the witness.
CheckExitCondition ==
  /\ nextBC > Len(policy.bcs)
  /\ nextEC \in DOMAIN policy.ecs
  /\ LET ec == policy.ecs[nextEC]
         live_exits == {b \in exit_blocks \cap info : ~reach_is(b, FALSE)}
         decided == live_exits \ noret
         answers(b) == _decide(_query(b, ec.mode, ec.body[b]))
     IN  \E model \in {a \in [decided -> Input \cup {None}] : \A b \in decided : a[b] \in answers(b)} :
           results' = Append(results,
             Result("exit_condition", nextEC,
                    verdict_of(ec.mode, \E b \in decided : model[b] # None),
                    IF live_exits = {} THEN "no reachable exit" ELSE "", exit_witness(model)))
  /\ UNCHANGED <<fixed, info, vac_cache, dead>>

every_pred_dead(b) == b # 0 /\ preds(b) # {} /\ \A p \in preds(b) : p \in dead \/ p \notin info

\* The place of block b in the report.
rank(b) == Cardinality({c \in info : c < b})

\* reach_report, in block order: a block all of whose predecessors are dead is
\* dead without a query.
ReachReport(b) ==
  /\ policy.reach_all
  /\ nextBC > Len(policy.bcs) /\ nextEC > Len(policy.ecs)
  /\ b \in info
  /\ Done("reachability") = rank(b)
  /\ \E model \in (IF every_pred_dead(b) THEN {None} ELSE _decide(reach[b])) :
       /\ dead' = IF model = None THEN dead \cup {b} ELSE dead
       /\ results' = Append(results,
            Result("reachability", b, IF model = None THEN "unsat" ELSE "sat", "", None))
  /\ UNCHANGED <<fixed, info, vac_cache>>

Finished ==
  /\ nextBC > Len(policy.bcs) /\ nextEC > Len(policy.ecs)
  /\ policy.reach_all => Done("reachability") = Cardinality(info)

Ended == Finished /\ UNCHANGED vars

Init ==
  /\ prog \in Programs
  /\ policy \in Policies
  /\ noret \in NoRet
  /\ reach = Runs
  /\ \E L \in {{}, {b \in Block : reach[b] \in {{}, Input}}} : lit = {0} \cup L
  /\ info = context_for
  /\ vac_cache = [b \in Block |-> None]
  /\ dead = {}
  /\ results = << >>

Next == CheckBlockUnreachable \/ CheckBlockCondition \/ CheckExitCondition
        \/ (\E b \in Block : ReachReport(b)) \/ Ended

\* check is one sequential loop, and a solver query that is not given up ends.
Spec == Init /\ [][Next]_vars /\ WF_vars(Next)

-----------------------------------------------------------------------------
(* Properties. *)

CheckResult ==
  [kind : {"block_condition", "exit_condition", "reachability"}, at : Nat, verdict : Verdict,
   note : {"", "unreachable", "vacuous", "no reachable exit"},
   witness : Input \cup {None} \cup (Block \X Input)]

\* The types of the program, the policy and the results of check.
TypeOK ==
  /\ prog \in Program /\ policy \in Policy /\ noret \subseteq Block
  /\ reach \in [Block -> SUBSET Input]
  /\ info \subseteq Block /\ dead \subseteq info
  /\ vac_cache \in [Block -> {"vacuous", "live", None}]
  /\ results \in Seq(CheckResult)

\* What spec.md's table asks, of every input: a block condition where its block
\* runs, an exit condition at every exit that has a return value.
Asked(r) ==
  IF r.kind = "block_condition"
  THEN LET bc == policy.bcs[r.at] IN
       [mode |-> bc.mode, at |-> {bc.block}, body |-> [b \in {bc.block} |-> bc.body]]
  ELSE LET ec == policy.ecs[r.at] IN
       [mode |-> ec.mode, at |-> exit_blocks \ noret, body |-> ec.body]
Conditions == {results[k] : k \in {k \in DOMAIN results : results[k].kind # "reachability"}}

Witnessed(r) ==
  /\ (r.verdict \in {"violated", "sat"}) <=> r.witness # None
  /\ r.witness # None =>
       LET q == Asked(r)
           b == IF r.kind = "block_condition" THEN policy.bcs[r.at].block ELSE r.witness[1]
           i == IF r.kind = "block_condition" THEN r.witness ELSE r.witness[2]
       IN  b \in q.at /\ i \in reach[b] /\ (i \in q.body[b] <=> q.mode = "exists")

\* "violated and sat come with a counterexample": an input that runs the block
\* the witness names and there violates, or satisfies, the condition.
WitnessReal == \A r \in Conditions : Witnessed(r)

Untested(r) == r.kind = "block_condition" /\ r.verdict \in {"holds", "unsat"}
               /\ reach[policy.bcs[r.at].block] = {}
Flagged(r) == Untested(r) <=> r.note \in {"unreachable", "vacuous"}

\* A block condition decided without any input that runs its block says so, as
\* unreachable or as VACUOUS, and no other result does, also when the answer
\* comes from vac_cache.
UntestedFlagged == \A r \in Conditions : Flagged(r)

\* The right verdicts, over the inputs that run a block: of a question with the blocks it is
\* about and the inputs that satisfy it at each, and of a block's reachability.
Right(mode, at, body) ==
  verdict_of(mode, \E b \in at : \E i \in reach[b] : (i \in body[b] <=> mode = "exists"))
Truth ==
  [k \in DOMAIN policy.bcs |->
     LET bc == policy.bcs[k] IN Right(bc.mode, {bc.block}, [b \in {bc.block} |-> bc.body])]
  \o [k \in DOMAIN policy.ecs |->
        LET ec == policy.ecs[k] IN Right(ec.mode, exit_blocks \ noret, ec.body)]
  \o IF ~policy.reach_all THEN << >>
     ELSE [k \in 1 .. Cardinality(info) |->
             Right("exists", {b \in info : rank(b) = k - 1}, [b \in Block |-> Input])]

Promise == INSTANCE Oracle WITH truth <- Truth,
                                said <- [k \in DOMAIN results |-> results[k].verdict]

\* check implements Oracle: a verdict is the answer to its question over all
\* inputs and all the exits they reach, whatever the slice, the literals, the
\* blocks reach_report does not query and the earlier queries were; every
\* condition and, if asked for, every block of the context gets one, in order.
Decides == Promise!Spec

-----------------------------------------------------------------------------
(* The inductive invariant behind these properties. *)

\* What the queries rely on of the context: its literals are right, an input that
\* runs a block other than the entry runs a predecessor of it, and no input runs a
\* block that is asked about and not in the context.
ContextInv ==
  /\ \A b \in lit : reach[b] \in {{}, Input}
  /\ \A b \in Block \ {0} : (\A p \in preds(b) : reach[p] = {}) => reach[b] = {}
  /\ \A k \in DOMAIN policy.bcs : policy.bcs[k].block \notin info => reach[policy.bcs[k].block] = {}
  /\ policy.ecs # << >> \/ policy.reach_all => \A b \in Block \ info : reach[b] = {}

\* The results come in the order of the policy: block conditions, exit conditions,
\* then the report.
OrderInv ==
  LET nb == Len(policy.bcs)
      ne == Len(policy.ecs)
  IN  \A k \in 1 .. Len(results) :
        /\ k <= nb => results[k].kind = "block_condition" /\ results[k].at = k
        /\ k > nb /\ k <= nb + ne => results[k].kind = "exit_condition" /\ results[k].at = k - nb
        /\ k > nb + ne => results[k].kind = "reachability"

\* What vac_cache remembers of a block is so.
CacheInv ==
  \A b \in Block : /\ vac_cache[b] = "vacuous" => reach[b] = {}
                   /\ vac_cache[b] = "live" => reach[b] # {}

\* No input runs a block that reach_report took for dead.
DeadInv == \A b \in dead : reach[b] = {}

IndInv ==
  /\ TypeOK /\ ContextInv /\ OrderInv /\ WitnessReal
  /\ Unknown = {} => CacheInv /\ DeadInv /\ UntestedFlagged
=============================================================================
