# HorNET: TLA+ models, model checking and proofs

HorNET (`src/hornet/`) verifies compiled XDP programs.  It decodes an ELF
object, builds a control-flow graph, tracks every register through it
(abstract interpretation), encodes the tracked blocks as z3 terms, and decides
the conditions of a policy with a solver.  This directory models the steps on
which the verdict rests and checks that each one says what is true of every run
of the program under test.

Nothing in HorNET runs concurrently and nothing survives a crash: it is a
pipeline of sequential passes.  What is hard about it is *soundness*: each pass
makes a claim about all runs of another program, and the claims are combined
across joins, slices, caches and orderings.  The models therefore put two things
side by side: the pass, and an arbitrary run of the program it analyses.

## 1. Inventory

| component | source | state it keeps | operations | what makes it correct |
|---|---|---|---|---|
| loader, decoder | `bpf/loader.py`, `bpf/instr.py`, `bpf/constants.py` | instructions, maps, globals | decode an ELF/BTF object | byte formats (not modelled) |
| linker | `bpf/link.py` | merged instruction list, maps, globals, regions of tail-call targets | `link`, `_merge_maps`, `_merge_globals`, `_retag` | every reference names the same object after renumbering |
| CFG builder | `bpf/cfg.py` | blocks with `succ_t`, `succ_f`, `preds` | `build_cfg`, `get_next_block_no` | edges recorded at both ends; fall-through to the next block |
| tracker | `track/tracker.py`, `track/block.py` | per block: registers, stack, pointer facts, packet facts, actions, edge facts | `track` (worklist), `track_block`, `track_alu`, `track_call`, `track_branch`, `merge_predecessors`, `merge_entry` | what it records of a block is true of every run that gets there |
| expressions | `track/expr.py` | expression trees, `JoinValue` | constructors that simplify | value preserved |
| encodings | `track/encode.py` | - | `expr_to_z3`, `Action.to_z3`, `Condition.to_z3`, guard combinators | the z3 term has the instruction's value |
| dead-phi elimination | `track/dce.py` | sources in use | `dce` | imported, never called (not modelled) |
| aliasing | `track/record.py` | - | `may_alias`, `build_call_index` | never misses an overlap |
| graph passes | `verify/prune.py` | `seen`, `keep`, colours, stack, postorder, ancestors | `forward_reachable`, `_slice_to`, `topo_order`, `ancestors` | exact slice, topological order, exact ancestors |
| forward encoding | `verify/forward.py`, `verify/slice.py` | `ForwardContext.info` (reach, edge guards, sigma), `Memory` (write lists), `Phis` (cache) | `_walk`, `_merge_sigma`, `_read`, `present`, `Phis.value`, `state_at`, `ret_state` | the encoding evaluated on an input is the run on that input |
| checker | `verify/checker.py` | one solver, `vac_cache`, `dead`, results | `context_for`, `check`, `check_block_condition`, `check_exit_condition`, `reach_report` | the verdict answers the question over all inputs |
| witness | `verify/witness.py` | - | `build`: packet, maps, helper results and path of a model | the program run on what the witness lists does what the witness says |
| specification parser | `verify/spec.py` | - | `_parse_input`, `z3_state_from_input`, `_parse_cond`, the atoms' `to_z3` | a world is one the input describes; a condition means what its atoms say of the run |
| session | `program.py` | blocks, tracker results, `timings`, cached facts | `decode_binary`, `build_cfg`, `track`, `analyze`, `facts`, `context`, `verify`, ... in any order | no query mixes results of different passes |
| reports, CLI, cost | `report/`, `cli.py`, `verify/cost.py` | - | text output, counters | no effect on verdicts |

How they interact: `eBPFProgram` calls decode, CFG, tracker once each; the
tracker mutates the blocks in place; a query builds one `ForwardContext` from the
blocks (graph passes, then the walk) and the checker decides all conditions of
the policy in it with one incremental solver.  Shared mutable state: the `Block`
objects (written by CFG builder and tracker, read by everything after), the
`Phis` cache inside a context, and `vac_cache` inside a check.

The behaviours that are hard to test (see `hazards` in `PROJECT.json` for each
with its line):

- order: the tracker's worklist iterates over a Python set, `topo_order` leaves
  the order among unrelated blocks open, and `Memory` nests its terms in block
  number order whatever the CFG;
- joins: pointer facts, JoinValues and merged states at blocks with several
  predecessors, where one predecessor's knowledge may leak onto another's edge;
- pruning: regions, blocks and edges that "cannot matter" are dropped before the
  solver sees them, and what simplifies to a Python literal changes the control
  flow of the verifier itself;
- caches: null fact ids shared by copies of a pointer, JoinValues cached at
  first use, vacuity cached across conditions, facts and contexts kept across
  passes of the session;
- renumbering: each object of a tail-call pipeline counts its maps, globals,
  constants and instructions from zero, and a reference remapped wrongly still
  names something;
- widths: a term has as many bits as its operands need, a store touches some
  bytes of a slot or a value, and a comparison or a wider load later sees the rest;
- packet views: after `bpf_xdp_adjust_head` the tracker does not know which frame
  a pointer is into until the result is tested, perhaps in another block;
- moments: a condition is decided at one block about a call made at another, and a
  witness shows memory at entry under keys computed later;
- worklists that must end, also on the cyclic graphs they are there to reject.

## 2. Modules

| module | models | state and actions |
|---|---|---|
| `TopoOrder` | `verify/prune.py`, `_block_slice` | One action per loop iteration. `ForwardReachableStep`, `ForwardReachableReturn`, `NextTarget`, `SliceToStep`, `BlockSliceReturn` build the live set; `TopoExpand`, `TopoSkip`, `TopoFinish`, `TopoCycle`, `TopoReturn` are the branches of `topo_order`'s loop; `AncestorsStep`, `AncestorsReturn` the last pass. |
| `TopoOrderProofs`, `TopoExactProofs` | - | TLAPS proofs about `TopoOrder`. |
| `CheckerProofs`, `SessionProofs`, `LinkProofs`, `PktViewProofs` | - | TLAPS proofs about `Checker` (with `Oracle`), `Session`, `Link` and `PktView`. |
| `ForwardRunProofs`, `ForwardProofs` | - | TLAPS proofs about `Forward`: tracking and the run, then the walk. |
| `NullTrack` | worklist of `Tracker.track`, `merge_predecessors`, `merge_entry`, `_stamp_null_phi`, lookups, moves, loads, null tests | `TrackBlock(b)` tracks a whole block (join, instructions, branch); then `RunOp`, `RunEdge`, `RunExit` run the program with lookups that hit or miss. |
| `Forward` | `ForwardContext` and `Memory`, `Phis`, over the tracker's scalar expressions | One instruction a step. `TrackEntry(b)`, `TrackOp(b)` compute the expressions; `Feed` chooses the input and `RunOp`, `RunEdge` run the program on it; `StartWalk` fixes slice, relevance and folded regions; an iteration of `_walk` is `WalkEntry(b)` (reach condition, merged state, JoinValue), a `WalkItem(b)` per source or action, and `WalkExit(b)` (guards and the block's `ForwardInfo`). |
| `Checker` | `context_for`, `check` and what it calls | `CheckBlockUnreachable`, `CheckBlockCondition`, `CheckExitCondition`, `ReachReport(b)` append one result each. |
| `Oracle` | what `check` promises | the list of right verdicts and those given so far; `Answer` gives the next. `Checker` implements it (`Decides`). |
| `Bits` | `arith` (`bpf/constants.py`), `_resize`, `_bits_used`, `_alu64_width`, the ALU part of `expr_to_z3`, `expr_alu`, `trunc32`, `sext` | operators only; a term is its width, its value and whether it is a literal. |
| `Scalar` | `track_alu`, `LDDW`, scalar joins, `Condition.to_z3`, `_jmp_taken` | extends `Bits`. Two registers as expressions and, beside them, as machine words; one action per kind of instruction. |
| `ByteMem` | `stk_store`, `stk_load`, `_atomic_stack`, the stores and loads of map values and globals, `_splice_bytes*`, `may_alias`, `Memory._read` | extends `Bits`. `StkStore`, `StkLoad`, `AtomicStack`, `LoadVal`, `StoreVal` (plain or atomic), each beside the machine's bytes. |
| `PktView` | packet pointers and base ids, the adjust helpers, `AdjustFacts`, `_with_view`, `init_tail_entry`, bounds checks, `pkt_len` | Tracker goes block by block: `TrackEntry` (state at entry, or a callee refused), `TrackOp` (one instruction), `TrackEnd` (the branch). `Feed` chooses a frame and the helpers' outcomes; `RunOp` and `RunEdge` run the program with the encoder's state beside the machine. |
| `Policy` | `verify/spec.py`, `verify/witness.py` | `ParseInput` (the world the run starts in), `RunBlock`, `Ask` (parse a condition and evaluate it), `Build` (the witness), `Replay` (a second run, on the witness alone). |
| `Link` | `bpf/link.py` | `CheckTails`, then one step per map (`AddMap`, `ShareMap`), per `.bss` symbol (`MergeSymbol`), per `.rodata` (`MergeRodata`), per body (`AppendBody`) and per claimed prog array (`Claim`), each with the step that raises; `LinkReturn`. |
| `LinkRun` | `bpf/cfg.py`; in `tracker.py`, `block.py` and `expr.py` the references to maps and globals and the tail-call check | extends `Link`. `FindLeaders`, `BlockEdges`, `MarkEntries` build the CFG; `TrackBlock` follows references through a block; then the kernel runs the separate programs (`RunPlain`, `RunJump`, `RunTailCall`, `RunExit`; `RunRefused` is a path its verifier would reject) while a walk follows the edges of the linked CFG (`Follow`). |
| `Session` | `eBPFProgram` of `program.py` | the passes called by hand (`DecodeBinary`, `BuildCfg`, `Track`), `Recompile` (the object file changes), `Facts`, what a caller keeps (`KeepContext`, `KeepContextOfPolicy`, `LoadSpec`) and the queries (`Verify`, `VerifyIn` a kept context, `VerifyPolicy` and `VerifyPolicyIn` with a kept policy, `Reachability`, `ReachabilityIn`, `ReturnValuesIn`). |
| `MC*` | - | programs, graphs, policies and queries for TLC. |

How the modules fit together: `TopoOrder` shows what the graph passes return
(exact slice, topological order, exact ancestors).  `Forward` takes these results
as definitions (`live`, `block_slice`, `before`, "a block whose predecessors
are done") and shows that the reach condition of a block is true exactly of the
inputs that run it.  `Checker` takes the reach conditions in that form (`Runs`)
and shows that the verdicts are right: it is an implementation of `Oracle`.
`Scalar` and `ByteMem` justify what `Forward` takes for granted of a leaf and of a
write, that the terms have the values the machine has; `Policy` starts where
`Forward` ends, with the state at a block equal to the run's.  `NullTrack` covers the part of the
tracker that decides which null conditions are handed to the encoding; in
`Forward` a lookup's pointer is represented by its nullity, `lookup_hit`.
`LinkRun` composes the front end: linker, CFG builder and tracker run one after
the other on one state, and the graphs the other modules start from are what it
builds.  `Session` is the driver around all of them, with each pass reduced to
which version of the program its result is of.

### Abstractions

- **Sets for stacks.** `forward_reachable` and `_slice_to` only collect a set, so
  their stacks are sets from which any member is popped.  The stack of
  `topo_order` decides its result and is a sequence.
- **Terms by their value.** In `Forward` a z3 term is its value under one
  valuation of the free variables, chosen by `Feed`: the initial memory, and a
  Boolean for each branch whose condition was not recorded.  TLC explores all of
  them, so an encoding that disagrees with a run on any input is found.  Guards
  keep the difference between Python's `True`/`False` and a formula, because the
  code tests for it; whether `simplify` finds a literal is a nondeterministic
  choice limited to the value the guard has.
- **Formulas by their models.** In `Checker` a formula is the set of inputs that
  satisfy it and the solver picks any model.
- **Eager evaluation.** Leaves and JoinValues are evaluated when their block is
  walked; the code evaluates them at first use and caches them.
- **Folded regions.** Whether a relevant region is folded depends in the code on
  whether some access has a variable offset.  `StartWalk` allows every subset.
- **Identity of terms.** `_merge_component` joins the guards of contributions
  with the same term; `merge_sigma` chooses per contribution, which has the same
  value.
- **Ids.** JoinValues are compared by identity in the code; in `NullTrack` one is
  its index in `phis`, in `Forward` its block (there is one register).

- **Small bytes.** In `Bits` a byte has `B` bits, a register eight bytes: with
  `B = 1` a register has 8 bits and a word 4, and the code's 32, 64 and 8 are
  `H`, `W` and `B`.  The width formulas, masks and shifts are those of the code in
  these units, and rounding up to whole bytes hides nothing.  `Policy` has
  bytes of two bits, so that byte order shows.
- **Python integers.** Constants are unbounded, as in the code, where 64-bit sums
  are not masked; `NumMax` stops their growth.
- **The frame as addresses.** In `PktView` a byte's content is its address, so a
  read from the wrong place is a wrong value.  A length is kept as the
  expression it is, encoded where it is read.  Pointers only grow (`Op`): the code
  compares offset and length as unsigned terms, and on terms that are not negative
  (`RunInv`) that is the comparison of integers, short of 2^32.
- **Choices of the solver.** A valuation in `Policy` holds every variable the
  encoding leaves free: memory at the start, call results, and `ok`, the outcome of
  an adjustment, of an update with unknown flags, and of a branch that was not
  recorded or a tail call through a symbolic slot; a program has one of these.
  `adjust_tail` stands for the adjustments: it moves no byte, where
  `bpf_xdp_adjust_head` does (`PktView`, finding 2).
- **Loads are checked.** The programs of `Policy` compare what they load with the
  frame's length first; a run on a shorter frame ends at once (`left`).
- **Documents after JSON and scapy.** In `Policy` an input or a condition is the
  tree that `json.load` gives; a packet is the list of fields with the values and
  the "assigned" flags scapy reports.  Strings of a value's text are its form
  (integer, or byte after byte).

- **Objects after decoding.** In `Link` a load is what `Loader.decode_binary`
  returns.  Map ids count from 1; a symbol name is a sequence of parts, so that
  the prefix `<entry>.` is a part; maps of one name are one map, as the pinning
  that `--tail` supposes makes them.  The `.rodata` symbol table, which only
  reports read, is left out.
- **The kernel.** `LinkRun`'s run side is external: programs of separate objects,
  prog arrays filled as the `--tail` options say, a symbolic slot.
- **Passes by their version.** In `Session` a block list is known by the object
  version it was built from and the number of the pass that tracked it last.  A
  re-track overwrites the current list in place, a rebuild makes a new one.  A
  parsed policy is its specification and what it was parsed against: the blocks,
  as they were then, the maps and the call index, for a `Policy` holds map ids,
  recorded expressions and block numbers of these.  `kept` is a history variable:
  which kept objects no direct call of a pass has come after.
  `Verification`, `--only` selection and rendering are left out.

## 3. Runs

| run | what it checks |
|---|---|
| `topo_order` | every CFG of 4 blocks whose fall-through goes to the next block (cyclic ones included), every list of up to two targets, and no list: 1,079,416 states |
| `null_track` | 10,368 programs on two diamonds in a row with two registers: 141,152 states |
| `forward` | diamonds, lookups with a hit branch, programs with two exits, all initial memories of one packet cell and a two-key map, three queries: 1,241,742 states |
| `checker` | two CFGs with dead code and two inputs, policies of up to two conditions, as an implementation of `Oracle`: 30,512 states |
| `link` | main programs of five instructions over two prog arrays and a global, eight other layouts, seven lists of callees (two of them share or rename a global) and seven that must be refused: 81,703 states |
| `session` | two specifications, two versions of the object file, three tracking passes: 518,014 states |
| `scalar` | every pair of inputs of 1, 2, 4 and 8 bytes, constants and adjust results, under any sequence of ALU instructions: 23,717 states |
| `byte_mem` | three accesses of 1, 4 or 8 bytes to two stack slots, to two map entries under constant and computed keys, or to a global: 776,025 states |
| `pkt_view` | 3,616 programs of six blocks with up to four adjustments, three frame lengths, all outcomes: 395,827 states |
| `policy` | eleven programs, 48 worlds, nine input sections, 179 conditions: 856,360 states |
| `null_track_shared_fact`, `pkt_view_shifted` | counterexamples, see section 5 |

Properties of `topo_order`:

- `TopologicalOrder`: the result lists each live block once and every edge
  between live blocks goes forward in it.
- `SortCoversLive`: the second `RuntimeError` is never raised.
- `CycleExact`: the first one is raised exactly when block 0 reaches a cycle
  inside the slice.
- `SliceExact`: the blocks kept are those on a path from block 0 to a target.
- `AncestorsExact`: `anc[b]` is the set of blocks with a path to `b` in the slice.
- `Terminates`: every call ends.
- `IndInv`: the inductive invariant of section 4.

Properties of `null_track`: `FactsSound` (what a block starts and ends with is
true of every run there), `CondExact` (the recorded condition is true exactly
when the run takes the branch), `NoNullLoad` (an accepted program never loads
through null), `OrderIrrelevant` (the worklist's order does not change the conclusions).

Properties of `forward`: `ReachExact`, `ReadsExact`, `StateExact`, `RetExact`:
reach conditions, reads and JoinValues, the state a condition is decided in, and
the return value all agree with the run.  Reads are asked about only where they
depend on no region `relevant_regions` left out; the states in the regions the
query names.

Properties of `checker`: `Decides` (the refinement: every condition, and every
block of a reachability report, gets the one right verdict, in order, and the
check does not stop before), `WitnessReal` (a counterexample is an input that
shows the verdict), `UntestedFlagged` (a condition no input reaches is marked, and
no other is).

Properties of `link`: `RefsExact` (a reference to a map, a global or a constant
names after the merge what it named in its object), `FlowExact` (a kernel path
is a path of the linked CFG), `TailExact` (a tail call goes where the array in r2
says), `TrackedRefExact` (what the tracker thinks a register points to is what it
points to, through moves, calls, joins and tail calls), `SupportedAccepted`
(nothing the command line promises is refused), `Terminates` (linking, building and
tracking end).  Where a join selects between two maps or two globals the code keeps
the first predecessor's, which is wrong for a run that brings the other (section 5);
such joins are in the run, and `TailExact` and `TrackedRefExact` say nothing of a run
from the moment it has `strayed` in this way.  Without that condition TLC finds both
violated.

Properties of `session`: `AnswerCoherent` (blocks, maps and call index of an
answer are of one version and one pass, and its policy was parsed against them;
of kept contexts and policies this is asked until a pass is called directly, after
which it is false, see section 5), `FactsCurrent` (a report is not older
than the last full pass), `NoSilentRetrack` (only an explicit `track()`
overwrites fully tracked blocks).

Properties of `scalar`: `ValueExact` (the term of a register's expression has the
register's value, whatever width it was given), `CondExact` (a condition between
two such terms, 32- or 64-bit, signed or not, takes the machine's side),
`EvalExact` (so does the tracker's own evaluation of a test of an adjust result).

Properties of `byte_mem`: `StackExact`, `SigmaExact`, `FoldExact` (the symbolic
stack, the state's values and the write fold have the machine's bytes),
`LoadExact` (so has the register after a load or a fetch).

Properties of `pkt_view`: `ViewSound` (a view the tracker names is that of the
last head adjustment that succeeded on this path, before every instruction),
`BranchExact` (recorded conditions take the run's side and the length is the
frame's; `BoundsExact` is this without the tests of a length or a joined result),
`ReloadAccepted` (a program that reloads both pointers before comparing them is
not refused).

Properties of `policy`: `InputExact` (the world at entry is one the input section
describes, stated bit by bit on memory), `MeaningExact` (a condition that parses
is true exactly when what its atoms say holds of the run, at the moment they are
about), `WitnessReplays` (the program, run on nothing but the witness, takes the
witness's path with the values of the first run).

Two of these have conditions, because the code does not do what the documents say
everywhere (section 5).  `MeaningExact` leaves out three kinds of condition the code
decides in a way of its own (`OwnWay`): `or: []`, `op: ne` of a context field, and a
read of a map value in a block that reads one at a variable offset.  `WitnessReplays`
is about hash maps, about runs and conditions within the bytes shown (`Displayed`) and
runs with no outcome the witness leaves out (`Unlisted`), though `spec.md:55` promises
a witness that produces the answer of every run.  The programs, conditions and frames
that break them are in the run, and TLC finds the property violated when `OwnWay`,
`Displayed` or `Unlisted` is dropped.

Each property of a passing run has a mutant in `PROJECT.json`: a variant of one
definition with a plausible slip (named `Faulty variant` in the modules) under
which TLC finds the property violated.

### Bounds, and why they are enough to be interesting

- `TopoOrder`, `N = 4`: the smallest size at which a slice can hold a join, a
  cross edge, a block pushed twice on the stack, a cycle away from the entry and
  a target outside the live blocks at the same time.  The theorems of section 4
  remove the bound.
- `NullTrack`, `N = 7`, `MaxOps = 2`: two joins, so that what the first join
  makes (a pointer with a null_phi, a fresh id) is tested and joined again.  The
  passing set leaves out a second copy of an unchecked pointer that outlives a
  join of the first (the finding) and a test with 0 on the left (section 5).
- `Forward`, `N = 4`, two keys, two values: a
  write on one side of a branch and not on the other, writes to the same key
  through a constant and through a register, an update that does not apply, a
  delete after an update, an exit reached along two paths.  Edges go to higher
  block numbers: with a backward jump `StateExact` does not hold (section 5).  The
  theorems of section 4 remove the bounds on blocks, instructions, keys and values.
- `Checker`, `N = 5`, two inputs: one that satisfies a body and one that does
  not, on either side of each branch.

- `LinkRun`, `Regs = {2, 6}`, three free instructions before the tail call: enough
  for an array loaded in one register and moved, overwritten on one path, lost
  to a call, or joined with another one; main programs with every choice of the three
  are in the run.
- `Session`, `MaxPasses = 3`, `MaxVersion = 2`: a full pass, a brief one and a
  re-track, on a rebuilt object.  Two specifications, of which one names blocks and
  an input and the other is decided at the exits.

- `Scalar`, `B = 1`: the widths 1, 2, 4 and 8 of the leaves, and sums, products and
  shifts that leave them by one bit; sequences are bounded by the finite set of
  values, not by a count.
- `ByteMem`, `MaxOps = 3`, `Offs = {0, 3, 4}`: two overlapping writes and a read
  that straddles them; an offset that is not aligned to the next size; a write
  under the computed key between two under a constant one.
- `PktView`, `N = 6`, `Headroom = 2`: an adjustment before a branch, one in an arm
  and one after the join, tested in either sense in the block of the call or two
  blocks later; frames of one byte, where a shrinking adjustment must fail.
- `Policy`, two-bit bytes, values of two bytes, frames of up to three of which a
  witness shows two (`DISPLAY_BYTES`): enough for byte order, for a byte of which
  half is assigned, for a value wider than its field and for a byte that is cut off.
  Programs are diamonds with up to four instructions a block, two of them with a
  read at a variable offset, of the packet and of a map value.

### Fairness and deadlock

`TopoOrder`, `LinkRun` and, through `Oracle`, `Checker` have a liveness property.
They assume `WF_vars(Next)`: the passes are loops of one thread and a loop that
can iterate does; for `Checker` this includes that a solver query ends.  Their
modules, `NullTrack`, `Forward` and `Session` are checked for deadlock: a step
(`Ended`, `Finished`) is enabled only when the pass has returned or raised, so a
state where the code would be stuck is reported.  `ByteMem`, `PktView` and `Policy`
follow one run that ends (at the bound on accesses, at an exit, at an access the
kernel's verifier would refuse, with a refused document), so their runs do not
check deadlock.

## 4. Proofs

All proofs are checked by TLAPS, for every value of the constants that the named
assumptions of the modules allow.

| module | theorem | statement |
|---|---|---|
| `TopoOrderProofs` | `TypeCorrect` | `Spec => []TypeOK` |
| | `OrderInvariant` | `Spec => []OrderInv` |
| | `OrderIsTopological` | `Spec => []TopologicalOrder` |
| | `CoverageErrorIsDead` | `Spec => []SortCoversLive` |
| `TopoExactProofs` | `InductiveInvariant` | `Spec => []IndInv` |
| | `SliceIsExact` | `Spec => []SliceExact` |
| | `CyclesAreExact` | `Spec => []CycleExact` |
| | `AncestorsAreExact` | `Spec => []AncestorsExact` |
| `CheckerProofs` | `CheckInvariant` | `Spec => []IndInv` |
| | `WitnessesAreReal` | `Spec => []WitnessReal` |
| | `UntestedAreFlagged` | `Unknown = {}` proves `Spec => []UntestedFlagged` |
| | `VerdictsAreRight` | `Unknown = {}` proves `Spec => Promise!SafeSpec` |
| `SessionProofs` | `SessionInvariant` | `Spec => []IndInv` |
| | `SessionTypeCorrect` | `Spec => []TypeOK` |
| | `AnswersAreCoherent` | `Spec => []AnswerCoherent` |
| | `FactsAreCurrent` | `Spec => []FactsCurrent` |
| | `QueriesDoNotRetrack` | `Spec => NoSilentRetrack` |
| `LinkProofs` | `LinkInvariant` | `Spec => []LinkInv` |
| | `ReferencesAreExact` | `Spec => []RefsExact` |
| `PktViewProofs` | `PktInvariant` | `Spec => []IndInv` |
| | `ReloadsAreAccepted` | `Spec => []ReloadAccepted` |
| | `BoundsAreExact` | `Spec => []BoundsExact` |
| | `BranchesAreExact` | `Spec => [](settles => BranchExact)` |
| | `ViewsAreSound` | `DistinctEdges` proves `Spec => []ViewSound` |
| `ForwardProofs` | `ReachIsExact` | `Ordered` proves `Spec => []ReachExact` |
| | `ReadsAreExact` | `Ordered` proves `Spec => []ReadsExact` |
| | `StatesAreExact` | `Ordered` proves `Spec => []StateExact` |
| | `ReturnIsExact` | `Ordered` proves `Spec => []RetExact` |

### Graph passes

The assumptions of `TopoOrder` say only that `N` is positive, that `None` is no
block and that the constants have their types.  No property is inductive.
`OrderInv` adds, per phase:

- `ReachInv`, `SliceInv`: what the walks have collected is connected to block 0,
  or will be once the stack is empty: `seen` and `work` are closed under the
  successors (predecessors) they have still to follow;
- `LiveInv`: the set given to `topo_order` contains block 0 and every set of
  blocks that contains 0 and is closed under live successors contains it
  (`Connected`, reachability stated without paths);
- `DfsInv`: `GrayInv` (gray blocks are those with one `leave` entry on the stack,
  each once), `SuccessorInv` (a live successor of a gray block is black, or waits
  above it on the stack), `PostorderInv` (`order` lists the black blocks, once
  each, a block after its live successors), `EntryInv` (block 0 is painted or
  waits).

The argument: a block turns black only when its own `leave` entry is on top, so
nothing waits above it and by `SuccessorInv` its successors are black, hence
already in the postorder; reversing it makes every edge go forward.  A successor
that would be gray is exactly what `TopoCycle` stops on.  When the stack is empty
nothing is gray, the black blocks contain 0 and are closed under live successors,
so by `Connected` they are all of `live`, and the length test cannot fail.

Exactness is about reachability, which `ReachableWithin` states as the least
closed set, so that no induction over paths is needed: to show that a block is
reachable, show it in every closed set; to show that it is not, exhibit a closed
set without it.  `IndInv` adds to `OrderInv`

- `CollectInv`: `seen` and `keep` hold only blocks from which the target, or to
  which block 0, leads, and all of them once the walk is done;
- `PathInv`: every entry above a `leave` entry on the stack of `topo_order` is
  reachable from its block, so a successor found gray closes a real cycle;
- `AncestorsInv`: `ancestors` has done a first part of the order, each block with
  exactly its ancestors.  The step is right because the order is topological: all
  live predecessors of a block come before it.

### Checker

`ContextInv` says what queries rely on: the literals among the reach conditions
are right, no input runs a block other than the entry without running a
predecessor of it, and what is asked about but was pruned from the context is run
by no input.  It is proved from `Init`, where the context is built: the blocks an
input runs are a least closed set, and one that lies in the slice's complement is
empty.  `CacheInv` and `DeadInv` say that `vac_cache` and `dead` are right, which is
what makes an answer without a query right; `OrderInv` puts results and questions
in step.  `VerdictsAreRight` is the refinement of `Oracle` without its fairness:
every step of `check` appends `Truth`'s next verdict.  `rank`, the place of a block
in the report, is counted with the cardinality theorems.

`Unknown = {}`, the solver decides every query, is needed for the last two
theorems and false in the code when z3 gives up (`verify/checker.py:44`);
`WitnessesAreReal` holds without it.  That a check gives every answer (`Decides`
with fairness) stays with TLC.

### Session

`TimingsTell` says what an entry in `timings` means (blocks from the decoded
instructions; blocks tracked, and indexed by `calls`, with at most a brief pass
since), `FactsTell` that cached facts are of the blocks a done pass tracked,
`PassesUpto` that pass numbers only grow.  `KeptTells` says of the objects a caller
kept: as long as no pass was called directly, every pass is done, so that the
`analyze()` of a query does nothing, and a kept context or policy is of the current
list, tracked as it is now, of the current maps and the current call index.  A
direct call empties `kept`; a query that has a pass left to run starts with `kept`
empty, by the same invariant, and so makes nothing stale.  Each pass is a function on the program
object, and one lemma per pass says what it does to these; a query is a
composition of passes and inherits them.

### Linker

`ReferencesAreExact` holds for every request whose objects are as the loader
leaves them (`InputsAssumption`: one more load than tails, ids of declared maps,
names of declared symbols).  `ProgressInv` says how far each list has grown,
`MapsInv` that a merged map stands for one key and every remap leads to the map of
its key, `GlobalsInv` that a rename adds the entry of its load and that every
object's constants are in the blob from its base on, `BodiesInv` that the bodies
appended so far are the objects' instructions, retagged.  Each step grows one list
at the end and leaves what the other parts talk about in place; at the end two
references of bodies are compared through the keys, names and bytes they stand for.

### Packet views

The theorems are about every set of programs with acyclic edges, numbered in an
order Tracker may visit them in (`ProgramsAssumption`), every frame length and
every outcome of the calls.  `IndInv` has three parts besides types and
`BoundsExact`, and the views need a fourth:

- `TrackInv`: the blocks before `next` are done; within a block each state is
  `track_op` of the one before, a pending call is an earlier one of the same
  block, the branch left what `track_branch` made of the last state, and the state
  at entry has of every predecessor what `joined` says: a view only if each edge
  brings it, a pointer or a call's result only if each predecessor ends with it;
- `RunInv`: the encoder's length, offset and `adjust_ok` are the machine's, and a
  register that Tracker calls the result of a call is 0 exactly if that call's
  `adjust_ok` is true;
- `CarefulInv`: in a careful program, which pointers have been loaded, and in the
  view of the context since the last adjustment;
- `PendingInv`, only for `ViewsAreSound`: a pending call that succeeded is the
  machine's view, and if it failed the view before it still is.

Tracker walks one instruction at a time and the run does too, so one lemma per
operator (`TrackOpFacts`, `ExecFacts`, `EncodeFacts`) compares the three; the
instruction at which `adjust_head` leaves the view open, and the edge at which
its test closes it, are where `PendingInv` is needed.

`DistinctEdges` says that no conditional jump leads to the next instruction.
Without it both edges have the label of the fall-through (`track/block.py:369`)
and the view of the taken one is lost, so the theorem is false.

`BranchExact` adds the tests of a length, of a byte and of a joined result, and is
false of some programs: a byte read after the head moved (finding 2), and a length
that goes through a join after an adjustment, which the JoinValue evaluates on the
state at entry (section 5).  `settles` keeps these out block by block and
`BranchesAreExact` covers the rest: a test of `r` is settled if the program moves
neither end of the packet, or has nothing but call results in `r`, or computes `r`
in the block of the test, as a length or by a call, with no read after it.
`ValueInv` is the invariant for it: the encoder's `r` is the machine's wherever `r`
is settled; a read needs the head at `Headroom`, and a join needs the length at
entry or an `r` that is no length, so both are part of it.  `r` stands for r0, which
every call overwrites; a length saved in another register across an adjustment is
outside the model.

### Forward encoding

The theorems are about every set of programs of the shape `Program`, any number of
blocks, instructions, cells, keys and values, every initial memory, every query,
every subset of the relevant regions folded, every order of the walk and every
literal `simplify` may find.  They have one hypothesis, `Ordered`, about the
programs: edges go to larger block numbers, and the two edges of a branch do not
meet.  The code needs both.  `Memory` lists its writes by block number
(`verify/slice.py:25`), so with a backward jump an earlier write hides a later one;
`merge_predecessors` labels an edge by `succ_f == self.num`
(`track/block.py:369`), so of two edges that meet the taken one is lost.  It is a
hypothesis and not an assumption of the module because the model has a meaning
without it and the theorems are false there; TLC evaluates it for the run's
programs.

The inductive invariant `Inv` has one part per phase:

- `TrackInv`: each expression is `track_op` of the one before, a block starts from
  what its predecessors leave, and a leaf or JoinValue in an expression was recorded
  at a smaller block or earlier in the same one;
- `RunInv`: the run goes up from block 0, each block to the next one that ran; the
  machine states follow each other by `exec`; what an expression says of `r` is what
  the run had when its leaf was recorded (`RunSound`); and every location holds what
  the last write before that moment put there, or the initial value (`RunMemory`);
- `CtxInv`: the slice holds every block that ran before one of its blocks, `anc` of
  a block holds the same, and the relevant regions hold what the query, the branches,
  the returns and the writes to relevant regions read;
- `WalkInv`: for every block walked or being walked, its reach condition is true
  exactly if it ran, its branch guards are those of the run, its reads so far, the
  update conditions and the JoinValue are the run's, and sigma has the run's memory
  in the relevant regions that are not folded.

Neither side of the comparison is recursive: the fold is a last write over a set of
writes, and `RunMemory` says the same of the machine, so the induction over the
writes is the induction over the steps of the run.  `FoldCellFacts`,
`FoldValueFacts` and `FoldPresentFacts` show that the writes a read sees in the
fold with a true guard are the writes the run did before; this needs the walked
blocks' guards and reads to be right, hence one invariant for all of them.
`ExprValue` takes an expression apart: its leaf or JoinValue is of a block that is
already visited.  `EntryReach`, `EntrySigma` and `EntryPhi` are about joins: of the
edges into a block at most one is on the path of the run, it is the first whose
guard holds, and `_merge_sigma` and `Phis.value` choose it.

### Only model-checked

- `Terminates` and the fairness part of `Decides`: liveness under fairness is
  outside the prover.
- `FactsSound`, `CondExact`, `NoNullLoad` of `NullTrack`: they are false of some
  programs (finding 1), and hold of the set `null_track` gives.
- `Policy`: what a block computes is a recursive function of its instructions, and
  what it computes for every list is an induction over data, which the prover
  cannot do.  It also has RECURSIVE operators.
- `Scalar`, `ByteMem`: powers of two of a symbolic exponent, and again recursion
  over bytes.
- `LinkRun.FlowExact`, `TailExact`, `TrackedRefExact`: true only of the requests
  described in section 3, the last two also only of runs that have not strayed;
  `SupportedAccepted` holds of a list of them.
- `PktView.BranchExact` of programs with a test that is not settled, see above.

## 5. Findings

1. `null_track_shared_fact` (`track/block.py:269`): a joined pointer keeps its
   first component's null fact id; if another register still holds that
   component, testing it marks the joined pointer non-null too.
2. `pkt_view_shifted` (`track/encode.py:806`): a head adjustment changes the length
   of the frame but not the packet array, so a byte read after it is encoded as
   the byte at that offset of the frame that arrived.

Met while modelling, without a run of their own.  Those marked with the name of a
definition are in the instances and left out of a property by that definition alone;
the others are left out of the instances, where the module's bounds say so:

- tracker: a null test with 0 on the left is negated where its operands should be
  exchanged (`track/tracker.py:476`); a conditional jump to the next instruction
  has two edges with one label and a JoinValue loses the taken one
  (`track/block.py:369`); pointers to two maps, or two globals, are equal to
  `PTR.__eq__` (`track/expr.py:405`), so a join that selects between two prog arrays
  keeps the first (`track/block.py:338`), the tail call is accepted and a run makes it
  through the other (`strayed`);
- encoding: `Memory` orders writes by block number, which is not the execution
  order once an edge goes backward (`verify/slice.py:25`); a length kept in a
  register across an adjustment is encoded with the later length, one that went
  through a join with the length at entry (`track/encode.py:237`); a packet
  pointer moved back before the frame has an offset that the unsigned comparison
  with the length takes for a large one (`track/encode.py:440`);
- checker: `unknown` counts as `unsat` (`verify/checker.py:44`); an untested block
  condition is called `VACUOUS` or `unreachable` depending on what `simplify`
  finds (`verify/checker.py:67`), where `spec.md:56` says `VACUOUS`;
- linker: `.bss` symbols of two objects become one variable when name and size
  agree (`bpf/link.py:143`); a rename carries the callee's entry, so two callees of
  one object that share a variable get one each when it must be renamed, and the new
  name of `x` in entry `f` may be the name `f.x` of a static variable;
- session: a context built for several specifications starts in the first one's
  input (`program.py:199`), and `verify(spec, ctx=ctx)` does not look at the others';
  a context or a parsed policy kept across `decode_binary()`, `build_cfg()` or
  `track()` is used with the new blocks, maps and calls (`program.py:178`,
  `program.py:238`), which `AnswerCoherent` leaves out and no document speaks of;
- specifications: an atom about a call the run did not make is decided on a free
  variable (`verify/spec.py:475`); a call's or return value wider than the result
  wraps (`verify/spec.py:374`); `or: []` is true (`verify/spec.py:682`); `op: ne` of
  a context field is ignored (`verify/spec.py:568`); a read atom passes over packet
  reads at a variable offset and takes one of a map value for a read at the constant
  part of it (`verify/spec.py:604`) (`OwnWay` for these three); a length atom with
  neither `min` nor `max` ends in an `IndexError` (`verify/spec.py:342`);
- witness: it ends after 128 bytes of the frame (`verify/witness.py:98`, `Displayed`);
  the outcomes of `bpf_xdp_adjust_tail` (and `_head`, `_meta`), of updates with unknown
  flags, of tail calls through a symbolic slot and of unrecorded branches are the
  solver's choice and are not listed (`verify/witness.py:147`, `Unlisted`); map
  entries that only a condition names are not listed (`verify/witness.py:123`; there
  `WitnessReplays` asks for the path only); a context field of four bytes may be given a value
  that needs more (`track/encode.py:937`, `verify/spec.py:247`), which `Scalar`'s
  inputs leave out.

`Memory.pkt_len_at` and `rx_index_at` are never called, and the `min_len` and
`max_len` of packet facts are recorded and joined but never read.

## 6. Not modelled, and the plan

Left out, and why: ELF and BTF decoding, JSON and scapy evaluation, rendering of
reports and witnesses, the command line and the term-size counters convert or
print and keep no state a verdict depends on; `track/dce.py` is not called;
`_bind_unresolved` and helpers whose result is unconstrained (time, CPU, random)
add free variables only; two programs in one session (`Z3State.map_meta`,
`verify/forward.py:314`) are a use no document describes.

Theorems left, in this order: `FlowExact` of `LinkRun` for programs whose last
instruction leaves; what `resize` and `byte_width` of `Bits` keep; the pointer part
of `NullTrack` for programs in which a joined pointer has no second copy.
