------------------------------- MODULE Session -------------------------------
(***************************************************************************)
(* eBPFProgram, program.py: the passes decode, cfg and track, the timings  *)
(* that say which of them are done, the cached facts, and the queries, in  *)
(* any order a caller may make them.  A caller may keep a context and hand *)
(* it to later queries, and may keep a parsed policy.  Both carry what     *)
(* they were made from: a context the blocks, the maps and the call index, *)
(* a policy the map ids, call results, reads and block numbers that        *)
(* parse_spec looked up in them.                                           *)
(*                                                                         *)
(* Passes are abstracted to which object file version and which tracking   *)
(* pass a result comes from.  Block lists live in lists: build_cfg makes a *)
(* new one, the tracker overwrites the blocks of the current one in place, *)
(* and a context refers to the list it was built from.  One program: what  *)
(* two share, Z3State.map_meta, is not modelled.                           *)
(***************************************************************************)
EXTENDS Naturals, Sequences, FiniteSets, SequencesExt

CONSTANTS
    Specs,          \* specification files
    SpecOf,         \* their contents: [Specs -> [targets, exits, input]]
    Blocks,         \* block numbers a specification may name
    MaxVersion,     \* bound: versions of an object file
    MaxPasses,      \* bound: tracking passes, and block lists
    NONE            \* Python's None

ASSUME MaxPassesAssumption == MaxPasses \in Nat
ASSUME SpecOfAssumption == \A s \in Specs : SpecOf[s].targets \subseteq Blocks

VARIABLES
    prog,       \* the fields of the eBPFProgram
    passes,     \* tracking passes so far; a pass is known by its number
    ctx,        \* the context the caller keeps, or NONE
    policy,     \* the parsed policy the caller keeps, or NONE
    kept,       \* which of the two no direct call of a pass has come after
                \* (history: no action depends on it)
    answer      \* what the query just made was answered from, or NONE

vars == << prog, passes, ctx, policy, kept, answer >>

-----------------------------------------------------------------------------
(* The passes, as functions of the program's fields. *)

STAGES == << "decode", "cfg", "track" >>

\* _done: later stages are forgotten.
done(timings, n) == (timings \cap { STAGES[i] : i \in 1 .. n - 1 }) \cup { STAGES[n] }

\* Faulty variant: the later stages stay done.
decode_binary_keeps(p) ==
    [p EXCEPT !.decoded = p.file, !.timings = @ \cup {"decode"}]

decode_binary(p) ==
    [p EXCEPT !.decoded = p.file, !.timings = done(@, 1)]

build_cfg(p) ==
    [p EXCEPT !.lists = Append(@, [ver |-> p.decoded, pass |-> 0, brief |-> FALSE]),
              !.blocks = Len(p.lists) + 1,
              !.timings = done(@, 2)]

\* Faulty variant: the cached facts survive a tracking pass.
track_keeps_facts(p, brief, n) ==
    [p EXCEPT !.lists[p.blocks].pass = n,
              !.lists[p.blocks].brief = brief,
              !.calls = IF brief THEN @ ELSE << p.blocks, n >>,
              !.timings = IF brief THEN @ ELSE done(@, 3)]

\* A brief pass overwrites the blocks but records nothing else.
track(p, brief, n) ==
    [p EXCEPT !.lists[p.blocks].pass = n,
              !.lists[p.blocks].brief = brief,
              !.calls = IF brief THEN @ ELSE << p.blocks, n >>,
              !.facts = IF brief THEN @ ELSE NONE,
              !.timings = IF brief THEN @ ELSE done(@, 3)]

with_decode(p) == IF "decode" \in p.timings THEN p ELSE decode_binary(p)
with_cfg(p) == IF "cfg" \in p.timings THEN p ELSE build_cfg(p)
with_track(p, n) == IF "track" \in p.timings THEN p ELSE track(p, FALSE, n)

\* Faulty variant: a pass is run again whatever the timings say.
analyze_again(p, n) == track(with_cfg(with_decode(p)), FALSE, n)

analyze(p, n) == with_track(with_cfg(with_decode(p)), n)

\* Every pass is done: analyze() has nothing to do.
current(p) == ToSet(STAGES) \subseteq p.timings

-----------------------------------------------------------------------------
(* The caller's direct calls of the passes, and the compiler. *)

Recompile ==
    /\ prog.file < MaxVersion
    /\ prog' = [prog EXCEPT !.file = @ + 1]
    /\ answer' = NONE
    /\ UNCHANGED << passes, ctx, policy, kept >>

DecodeBinary ==
    /\ prog' = decode_binary(prog)
    /\ kept' = {} /\ answer' = NONE
    /\ UNCHANGED << passes, ctx, policy >>

\* Without instructions, or blocks, the pass raises an IndexError.
BuildCfg ==
    /\ prog.decoded # 0
    /\ Len(prog.lists) < MaxPasses
    /\ prog' = build_cfg(prog)
    /\ kept' = {} /\ answer' = NONE
    /\ UNCHANGED << passes, ctx, policy >>

Track ==
    /\ prog.blocks # 0 /\ passes < MaxPasses
    /\ \E brief \in BOOLEAN :
          prog' = track(prog, brief, passes + 1)
    /\ passes' = passes + 1
    /\ kept' = {} /\ answer' = NONE
    /\ UNCHANGED << ctx, policy >>

-----------------------------------------------------------------------------
(* Queries.  Each one analyzes first, unless it has nothing to parse. *)

\* The state after self.analyze()
Analyzed(p) ==
    /\ prog' = p
    /\ passes' = IF p.lists = prog.lists THEN passes ELSE passes + 1

\* The bound on passes
CanAnalyze == current(prog) \/ (passes < MaxPasses /\ Len(prog.lists) < MaxPasses)

Facts ==
    /\ \/ prog.facts # NONE /\ UNCHANGED << prog, passes >>
       \/ /\ prog.facts = NONE
          /\ CanAnalyze
          /\ \E p \in { analyze(prog, passes + 1) } :
                Analyzed([p EXCEPT !.facts = << p.blocks, p.lists[p.blocks].pass >>])
    /\ answer' = [kind |-> "facts", facts |-> prog'.facts,
                  calls |-> prog'.calls, analyzed |-> current(prog')]
    /\ UNCHANGED << ctx, policy, kept >>

\* context_for: every block when some condition is decided at the exits or there
\* is none, else what leads to the blocks named.
targets_of(specs) ==
    IF specs = << >> \/ \E s \in ToSet(specs) : SpecOf[s].exits THEN Blocks
    ELSE UNION { SpecOf[s].targets : s \in ToSet(specs) }

\* The input of the first specification that has one.
world_of(specs) ==
    LET with_input == SelectSeq(specs, LAMBDA s : SpecOf[s].input # NONE)
    IN  IF with_input = << >> THEN NONE ELSE SpecOf[with_input[1]].input

\* ForwardContext(blocks, maps, ...): it refers to the block objects, so a later
\* pass over the same list shows through.
context(p, specs) ==
    [list |-> p.blocks, maps |-> p.decoded, calls |-> p.calls,
     targets |-> targets_of(specs), world |-> world_of(specs)]

\* What parse_spec resolves names against, and what is in the blocks at that time.
against(p) ==
    [list |-> p.blocks, tracked |-> p.lists[p.blocks], maps |-> p.decoded, calls |-> p.calls]

parsed(p, s) == [spec |-> s, against |-> against(p)]

\* context(path, ...)
KeepContext(specs) ==
    /\ CanAnalyze
    /\ \E p \in { analyze(prog, passes + 1) } :
          /\ Analyzed(p)
          /\ ctx' = context(p, specs)
    /\ kept' = kept \cup {"ctx"} /\ answer' = NONE
    /\ UNCHANGED policy

\* context(policy): its block numbers become the targets as they are.
KeepContextOfPolicy ==
    /\ policy # NONE
    /\ CanAnalyze
    /\ \E p \in { analyze(prog, passes + 1) } :
          /\ Analyzed(p)
          /\ ctx' = context(p, << policy.spec >>)
    /\ kept' = IF "policy" \in kept THEN kept \cup {"ctx"} ELSE {}
    /\ answer' = NONE
    /\ UNCHANGED policy

LoadSpec(s) ==
    /\ CanAnalyze
    /\ \E p \in { analyze(prog, passes + 1) } :
          /\ Analyzed(p)
          /\ policy' = parsed(p, s)
    /\ kept' = kept \cup {"policy"} /\ answer' = NONE
    /\ UNCHANGED ctx

\* uses: the kept objects handed in; tracked: the context's blocks as they are
\* now; beside: the block list the query reads itself.
answered(uses, pol, c, beside, p) ==
    [kind |-> "query", uses |-> uses, parsed |-> pol, ctx |-> c,
     tracked |-> p.lists[c.list], beside |-> beside]

\* verify(path): the policy is parsed, so the program is analyzed first.
Verify(s) ==
    /\ CanAnalyze
    /\ \E p \in { analyze(prog, passes + 1) } :
          /\ Analyzed(p)
          /\ answer' = answered({}, parsed(p, s), context(p, << s >>), p.blocks, p)
    /\ UNCHANGED << ctx, policy, kept >>

\* verify(path, ctx=ctx): parsed against the program as it is now.
VerifyIn(s) ==
    /\ ctx # NONE
    /\ CanAnalyze
    /\ \E p \in { analyze(prog, passes + 1) } :
          /\ Analyzed(p)
          /\ answer' = answered({"ctx"}, parsed(p, s), ctx, ctx.list, p)
    /\ UNCHANGED << ctx, policy, kept >>

\* verify(policy): a Policy is returned as it is and nothing is analyzed.
VerifyPolicy ==
    /\ policy # NONE
    /\ answer' = answered({"policy"}, policy, context(prog, << policy.spec >>),
                          prog.blocks, prog)
    /\ UNCHANGED << prog, passes, ctx, policy, kept >>

\* verify(policy, ctx=ctx)
VerifyPolicyIn ==
    /\ policy # NONE /\ ctx # NONE
    /\ answer' = answered({"policy", "ctx"}, policy, ctx, ctx.list, prog)
    /\ UNCHANGED << prog, passes, ctx, policy, kept >>

\* return_values, reachability, dead_blocks and query_cost: the whole program in
\* the world of the specification given, if any.
Reachability(specs) ==
    /\ CanAnalyze
    /\ \E p \in { analyze(prog, passes + 1) } :
          /\ Analyzed(p)
          /\ answer' = answered({}, NONE, [context(p, << >>) EXCEPT !.world = world_of(specs)],
                                p.blocks, p)
    /\ UNCHANGED << ctx, policy, kept >>

\* reachability(ctx=ctx) and dead_blocks(ctx=ctx) look at the context alone,
\* query_cost(ctx=ctx) looks for the exits in self.blocks.
ReachabilityIn ==
    /\ ctx # NONE
    /\ \E beside \in {ctx.list, prog.blocks} :
          answer' = answered({"ctx"}, NONE, ctx, beside, prog)
    /\ UNCHANGED << prog, passes, ctx, policy, kept >>

\* return_values(ctx=ctx) analyzes and looks for the exits in self.blocks.
ReturnValuesIn ==
    /\ ctx # NONE
    /\ CanAnalyze
    /\ \E p \in { analyze(prog, passes + 1) } :
          /\ Analyzed(p)
          /\ answer' = answered({"ctx"}, NONE, ctx, p.blocks, p)
    /\ UNCHANGED << ctx, policy, kept >>

-----------------------------------------------------------------------------

Init ==
    /\ prog = [file |-> 1, decoded |-> 0, lists |-> << >>, blocks |-> 0,
               calls |-> << >>, facts |-> NONE, timings |-> {}]
    /\ passes = 0
    /\ ctx = NONE /\ policy = NONE /\ kept = {} /\ answer = NONE

Upto(n) == UNION { [1 .. k -> Specs] : k \in 0 .. n }

Next ==
    \/ Recompile \/ DecodeBinary \/ BuildCfg \/ Track
    \/ Facts \/ KeepContextOfPolicy
    \/ VerifyPolicy \/ VerifyPolicyIn \/ ReachabilityIn \/ ReturnValuesIn
    \/ \E specs \in Upto(2) : KeepContext(specs)
    \/ \E specs \in Upto(1) : Reachability(specs)
    \/ \E s \in Specs : LoadSpec(s) \/ Verify(s) \/ VerifyIn(s)

Spec == Init /\ [][Next]_vars

-----------------------------------------------------------------------------
(* Properties. *)

BlockList == [ver : Nat, pass : Nat, brief : BOOLEAN]

Program == [file : Nat, decoded : Nat, lists : Seq(BlockList), blocks : Nat,
            calls : {<< >>} \cup (Nat \X Nat), facts : {NONE} \cup (Nat \X Nat),
            timings : SUBSET {"decode", "cfg", "track"}]

\* The fields have the shape the code gives them.
TypeOK ==
    /\ prog \in Program
    /\ prog.decoded \in 0 .. prog.file
    /\ prog.blocks \in 0 .. Len(prog.lists)
    /\ passes \in 0 .. MaxPasses
    /\ kept \subseteq {"ctx", "policy"}
    /\ ctx # NONE => ctx.targets \subseteq Blocks
    /\ policy # NONE => policy.spec \in Specs

(***************************************************************************)
(* A query answers for one version of the program and one tracking pass:   *)
(* the blocks of its context were built from the instructions decoded      *)
(* together with the context's maps, they are tracked, the call index is   *)
(* of the pass that tracked them, the list whose exits are looked up is    *)
(* theirs, and a policy was parsed against just these blocks, maps and     *)
(* calls.  So it is in every order of passes and queries when the query    *)
(* parses and builds what it needs, and with a context or a policy the     *)
(* caller kept as long as no pass was called directly since (program.py    *)
(* analyze, _done, load_spec): a query never makes kept objects stale.     *)
(* Only a brief pass made last leaves an older call index.  Nothing of     *)
(* the kind holds of objects kept across a direct call: the code mixes     *)
(* what they carry with the new program.                                   *)
(***************************************************************************)
AnswerCoherent ==
    (answer # NONE /\ answer.kind # "facts" /\ answer.uses \subseteq kept) =>
        /\ answer.tracked.ver = answer.ctx.maps
        /\ answer.tracked.pass # 0
        /\ ~answer.tracked.brief =>
              answer.ctx.calls = << answer.ctx.list, answer.tracked.pass >>
        /\ answer.beside = answer.ctx.list
        /\ answer.parsed # NONE =>
              answer.parsed.against = [list |-> answer.ctx.list, tracked |-> answer.tracked,
                                       maps |-> answer.ctx.maps, calls |-> answer.ctx.calls]

(***************************************************************************)
(* While no pass is outstanding, the facts a report is rendered from are   *)
(* of the block list of the last tracking pass and not from before that    *)
(* pass (program.py facts, track).                                         *)
(***************************************************************************)
FactsCurrent ==
    (answer # NONE /\ answer.kind = "facts" /\ answer.analyzed) =>
        /\ answer.facts[1] = answer.calls[1]
        /\ answer.facts[2] >= answer.calls[2]

(***************************************************************************)
(* No query overwrites the blocks of a list that is fully tracked: a       *)
(* context the caller keeps stays valid across reports, further queries    *)
(* and rebuilds, and only an explicit track() changes blocks under it      *)
(* (program.py analyze, track).                                            *)
(***************************************************************************)
NoSilentRetrack ==
    [][\A l \in DOMAIN prog.lists :
          (/\ prog.lists[l].pass # 0 /\ ~prog.lists[l].brief
           /\ prog'.lists[l] # prog.lists[l])
              => answer' = NONE /\ ctx' = ctx /\ policy' = policy]_vars

-----------------------------------------------------------------------------
(* The inductive invariant behind these properties. *)

\* What the timings say of the blocks they are about: the blocks of a done cfg
\* pass come from the instructions decoded, those of a done tracking pass are
\* tracked and indexed by calls, and only a brief pass may have run since.
TimingsTell(p) ==
    /\ "cfg" \in p.timings =>
          p.blocks # 0 /\ p.lists[p.blocks].ver = p.decoded
    /\ "track" \in p.timings =>
          /\ p.blocks # 0 /\ p.lists[p.blocks].pass # 0
          /\ p.calls \in Nat \X Nat
          /\ p.calls[1] = p.blocks /\ p.calls[2] <= p.lists[p.blocks].pass
          /\ ~p.lists[p.blocks].brief => p.calls[2] = p.lists[p.blocks].pass
    /\ "cfg" \in p.timings /\ "track" \notin p.timings =>
          p.lists[p.blocks].pass = 0 \/ p.lists[p.blocks].brief

\* Cached facts that a done tracking pass has not reset are of its blocks.
FactsTell(p) ==
    p.facts # NONE /\ "track" \in p.timings =>
        p.facts[1] = p.calls[1] /\ p.facts[2] >= p.calls[2]

\* What no direct call came after was made from the program as it is, and no
\* pass is outstanding that a query could still run.
KeptTells ==
    /\ kept # {} => current(prog)
    /\ "ctx" \in kept =>
          ctx.list = prog.blocks /\ ctx.maps = prog.decoded /\ ctx.calls = prog.calls
    /\ "policy" \in kept => policy.against = against(prog)

\* No list was tracked by a pass after pass n.
PassesUpto(p, n) == \A l \in 1 .. Len(p.lists) : p.lists[l].pass <= n

IndInv ==
    /\ TypeOK
    /\ TimingsTell(prog) /\ FactsTell(prog) /\ PassesUpto(prog, passes)
    /\ KeptTells /\ AnswerCoherent /\ FactsCurrent
=============================================================================
