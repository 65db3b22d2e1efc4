------------------------------- MODULE LinkRun -------------------------------
(***************************************************************************)
(* From the linked program to its runs.  build_cfg (bpf/cfg.py) splits the *)
(* linked instructions into blocks, the tracker follows references to      *)
(* maps and globals through the registers (track_load, MOV, merge_entry)   *)
(* and checks every tail call against them, and the kernel then runs the   *)
(* separate programs while HorNET's walk follows the edges of its CFG.     *)
(*                                                                         *)
(* Instructions and blocks count from 0, as in the code; At(i) and         *)
(* Block(b) index the sequences.  Of the instructions the model keeps:     *)
(* ld (LD IMM64 of a relocated address), mov, other (no effect on the      *)
(* registers of interest), call, ja, jcc, tail, exit.                      *)
(***************************************************************************)
EXTENDS Link, FiniteSetsExt, SequencesExt

CONSTANTS
    Regs,   \* the registers followed; 2 is bpf_tail_call's array argument
    Slots   \* slots of a prog array

VARIABLES
    blocks,     \* Cfg_builder: a sequence of block records
    b,          \* the block whose edges are added next
    regs_in,    \* tracker: what registers hold when a block is entered
    where,      \* kernel: the slot each callee was loaded into
    kload, kidx, kregs,  \* kernel: running program, instruction, registers
    hblock, hidx,        \* HorNET's walk: block and instruction
    strayed              \* history: the walk brought another object to a join
                         \* that selects between objects than the join kept

run_vars == << blocks, b, regs_in, where, kload, kidx, kregs, hblock, hidx, strayed >>
vars == << link_vars, run_vars >>

At(i) == instrs[i + 1]
Block(n) == blocks[n + 1]
n_instrs == Len(instrs)
BlockNums == 0 .. Len(blocks) - 1

ASSUME RegsAssumption == 2 \in Regs

-----------------------------------------------------------------------------
(* build_cfg: leaders and blocks. *)

leaders_after(i) ==
    CASE At(i).op \in {"exit", "tail"} -> {i + 1}
      [] At(i).op \in {"ja", "jcc"}    -> {i + 1, i + 1 + At(i).offset}
      [] OTHER                         -> {}

leaders ==
    ( {0} \cup { r.start : r \in ToSet(progs) }
          \cup UNION { leaders_after(i) : i \in 0 .. n_instrs - 1 } )
    \cap (0 .. n_instrs - 1)

\* sorted(leaders)
sorted_leaders(ls) ==
    [n \in 1 .. Cardinality(ls) |->
        CHOOSE i \in ls : Cardinality({ x \in ls : x < i }) = n - 1]

new_block(sorted, n) ==
    [start |-> sorted[n],
     end   |-> IF n < Len(sorted) THEN sorted[n + 1] - 1 ELSE n_instrs - 1,
     succ_t |-> NONE, succ_f |-> NONE, preds |-> << >>, prog_entry |-> NONE]

FindLeaders ==
    /\ pc = "linked"
    /\ \E sorted \in { sorted_leaders(leaders) } :
          blocks' = [n \in DOMAIN sorted |-> new_block(sorted, n)]
    /\ b' = 0
    /\ pc' = "edges"
    /\ UNCHANGED << loads, tails, cause, k, j, maps, remaps, bss, renames,
                    rodata, bases, instrs, progs, claimed, regs_in, where,
                    kload, kidx, kregs, hblock, hidx, strayed >>

-----------------------------------------------------------------------------
(* build_cfg: edges, one block per step. *)

\* block_start_map.get(i)
block_at(i) == { n \in BlockNums : Block(n).start = i }

callees == { r \in ToSet(progs) : r.map_id # NONE }

\* _tail_target: the array last loaded into r2 inside the block, if any.
r2_loads(n) ==
    { i \in Block(n).start .. Block(n).end - 1 :
        At(i).op = "ld" /\ At(i).region = "map" /\ At(i).dst = 2 }

\* _tail_target: the callees it may return; it raises unless there is one.
tail_targets(n) ==
    IF r2_loads(n) # {}
    THEN { r \in callees : r.map_id = At(Max(r2_loads(n))).tag }
    ELSE callees

\* Faulty variant: jumps count from the instruction itself.
taken_to_short(n) ==
    CASE At(Block(n).end).op \in {"ja", "jcc"} ->
            block_at(Block(n).end + At(Block(n).end).offset)
      [] At(Block(n).end).op = "tail" ->
            UNION { block_at(r.start) : r \in tail_targets(n) }
      [] OTHER -> {}

taken_to(n) ==
    CASE At(Block(n).end).op \in {"ja", "jcc"} ->
            block_at(Block(n).end + 1 + At(Block(n).end).offset)
      [] At(Block(n).end).op = "tail" ->
            UNION { block_at(r.start) : r \in tail_targets(n) }
      [] OTHER -> {}

falls_to(n) ==
    IF At(Block(n).end).op \in {"ja", "exit"} THEN {}
    ELSE block_at(Block(n).end + 1)

\* A jump outside the list, or a call or branch that would fall off its end:
\* an assert fails or build_cfg exits.
assert_fails(n) ==
    \/ At(Block(n).end).op \in {"ja", "jcc"} /\ taken_to(n) = {}
    \/ At(Block(n).end).op \in {"jcc", "call", "tail"} /\ falls_to(n) = {}

tail_raises(n) ==
    At(Block(n).end).op = "tail" /\ Cardinality(tail_targets(n)) # 1

\* succ_t or succ_f of block n, and n among the preds of its target.
add_edge(bs, n, field, to) ==
    IF to = {} THEN bs
    ELSE LET with_succ == [bs EXCEPT ![n + 1][field] = CHOOSE t \in to : TRUE]
         IN  [with_succ EXCEPT ![(CHOOSE t \in to : TRUE) + 1].preds = Append(@, n)]

BlockEdges ==
    /\ pc = "edges" /\ b < Len(blocks)
    /\ ~tail_raises(b) /\ ~assert_fails(b)
    /\ blocks' = add_edge(add_edge(blocks, b, "succ_t", taken_to(b)),
                          b, "succ_f", falls_to(b))
    /\ b' = b + 1
    /\ UNCHANGED << link_vars, regs_in, where, kload, kidx, kregs, hblock, hidx, strayed >>

BlockEdgesRaises ==
    /\ pc = "edges" /\ b < Len(blocks)
    /\ tail_raises(b) \/ assert_fails(b)
    /\ Raise(IF tail_raises(b) THEN "cfg" ELSE "assert")
    /\ UNCHANGED << loads, tails, k, j, maps, remaps, bss, renames, rodata,
                    bases, instrs, progs, claimed, run_vars >>

\* The last loop of build_cfg: callees' entry blocks know their region.
MarkEntries ==
    /\ pc = "edges" /\ b = Len(blocks)
    /\ blocks' = [n \in DOMAIN blocks |->
                    [blocks[n] EXCEPT !.prog_entry =
                        IF n = 1 THEN NONE
                        ELSE IF \E r \in ToSet(progs) : r.start = blocks[n].start
                        THEN CHOOSE r \in ToSet(progs) : r.start = blocks[n].start
                        ELSE NONE]]
    /\ pc' = "track"
    /\ UNCHANGED << loads, tails, cause, k, j, maps, remaps, bss, renames,
                    rodata, bases, instrs, progs, claimed, b, regs_in, where,
                    kload, kidx, kregs, hblock, hidx, strayed >>

-----------------------------------------------------------------------------
(* The tracker, for references only. *)

no_regs == [r \in Regs |-> NONE]

\* track_load of a relocated address, and MOV; every helper call forgets r1 to r5.
track_instr(regs, i) ==
    CASE At(i).op = "ld" ->
            [regs EXCEPT ![At(i).dst] =
                [region |-> At(i).region, tag |-> At(i).tag, sym |-> At(i).sym,
                 rodata_offset |-> At(i).rodata_offset]]
      [] At(i).op = "mov" -> [regs EXCEPT ![At(i).dst] = regs[At(i).src]]
      [] At(i).op \in {"call", "tail"} -> [r \in Regs |-> IF r \in 1 .. 5 THEN NONE ELSE regs[r]]
      [] OTHER -> regs

\* The registers when the last instruction of the block is tracked
regs_at_end(regs, n) ==
    FoldLeft(track_instr, regs,
             [p \in 1 .. Block(n).end - Block(n).start |-> Block(n).start + p - 1])

regs_after(regs, n) == track_instr(regs_at_end(regs, n), Block(n).end)

\* PTR.__eq__ as it applies to pointers to maps and globals: the type, and an
\* offset that is 0 here.  What they point to is not compared.
ptr_eq(p, q) == p.region = q.region

\* Faulty variant: the first predecessor's value whatever the others have.
merge_entry_first(vals) == IF NONE \in ToSet(vals) THEN NONE ELSE vals[1]

\* merge_entry: unknown if it is unknown on an edge, else the first
\* predecessor's value if it equals the others.
merge_entry(vals) ==
    IF \/ NONE \in ToSet(vals)
       \/ \E v \in ToSet(vals) : ~ptr_eq(v, vals[1])
    THEN NONE ELSE vals[1]

\* What the predecessors leave in a register
entries(n, r) == [p \in DOMAIN Block(n).preds |->
                     regs_after(regs_in[Block(n).preds[p]], Block(n).preds[p])[r]]

entry_regs(n) ==
    IF n = 0 \/ Block(n).prog_entry # NONE THEN no_regs
    ELSE [r \in Regs |-> merge_entry(entries(n, r))]

\* Faulty variant: the callee of the edge is not compared with the array.
tail_call_ok_any(regs, n) ==
    /\ regs[2] # NONE
    /\ regs[2].region = "map"
    /\ maps[regs[2].tag].type = "prog_array"

\* track_call of bpf_tail_call: r2 must be a prog array, and the one the callee
\* of the CFG edge was loaded into.  r1, which must be the context (the kernel's
\* verifier demands it too), is not followed.
tail_call_ok(regs, n) ==
    /\ regs[2] # NONE
    /\ regs[2].region = "map"
    /\ maps[regs[2].tag].type = "prog_array"
    /\ Block(Block(n).succ_t).prog_entry.map_id = regs[2].tag

untraced == BlockNums \ DOMAIN regs_in

\* Block 0 first, then get_next_block_no: a set of small integers iterates in
\* ascending order.
ready == IF 0 \in untraced THEN {0}
         ELSE { n \in untraced : ToSet(Block(n).preds) \cap untraced = {} }

\* merge_predecessors indexes the first of no predecessors.
no_entry(n) == n # 0 /\ Block(n).prog_entry = NONE /\ Block(n).preds = << >>

track_raises(n) ==
    \/ no_entry(n)
    \/ /\ At(Block(n).end).op = "tail"
       /\ ~tail_call_ok(regs_at_end(entry_regs(n), n), n)

TrackBlock ==
    /\ pc = "track" /\ ready # {}
    /\ ~track_raises(Min(ready))
    /\ regs_in' = [n \in DOMAIN regs_in \cup {Min(ready)} |->
                      IF n \in DOMAIN regs_in THEN regs_in[n]
                                              ELSE entry_regs(n)]
    /\ UNCHANGED << link_vars, blocks, b, where, kload, kidx, kregs, hblock, hidx, strayed >>

TrackRaises ==
    /\ pc = "track" /\ ready # {}
    /\ track_raises(Min(ready))
    /\ Raise("track")
    /\ UNCHANGED << loads, tails, k, j, maps, remaps, bss, renames, rodata,
                    bases, instrs, progs, claimed, run_vars >>

\* Faulty variant: no block is ready, and the search starts over.
TrackStuck_spins ==
    /\ pc = "track" /\ untraced # {} /\ ready = {}
    /\ UNCHANGED vars

\* get_next_block_no exits: the blocks left are on or behind a loop.
TrackStuck ==
    /\ pc = "track" /\ untraced # {} /\ ready = {}
    /\ Raise("track")
    /\ UNCHANGED << loads, tails, k, j, maps, remaps, bss, renames, rodata,
                    bases, instrs, progs, claimed, run_vars >>

-----------------------------------------------------------------------------
(* The kernel runs the separate programs (external), HorNET's walk follows *)
(* the CFG.  A register of the kernel holds the object itself, or NONE     *)
(* where the kernel's verifier forbids reading it.                         *)

Here == loads[kload].instrs[kidx + 1]

object_of(l, ins) ==
    CASE ins.region = "map" -> << "map", map_key(loads[l].maps[ins.tag], ins.tag,
                                                 loads[l].path) >>
      [] ins.region = "bss" -> << "bss", loads[l].path, ins.sym >>
      [] ins.region = "rodata" -> << "rodata", loads[l].path, ins.rodata_offset >>

StartRun ==
    /\ pc = "track" /\ untraced = {}
    /\ where' \in [DOMAIN tails -> Slots]
    /\ \A t \in DOMAIN tails : tails[t].slot # NONE => where'[t] = tails[t].slot
    /\ kload' = 1 /\ kidx' = loads[1].entry_idx /\ kregs' = no_regs
    /\ hblock' = 0 /\ hidx' = 0 /\ strayed' = FALSE
    /\ pc' = "run"
    /\ UNCHANGED << loads, tails, cause, k, j, maps, remaps, bss, renames,
                    rodata, bases, instrs, progs, claimed, blocks, b, regs_in >>

\* Block n selects between two maps, or two globals, and the edge from p brings
\* another one than the first predecessor's.
brings_other(p, n) ==
    /\ Block(n).prog_entry = NONE
    /\ \E r \in Regs :
          /\ NONE \notin ToSet(entries(n, r))
          /\ \A v \in ToSet(entries(n, r)) : v.region = entries(n, r)[1].region
          /\ regs_after(regs_in[p], p)[r] # entries(n, r)[1]

\* HorNET's walk: to the next instruction of the block, or over an edge.
Follow(edge) ==
    IF hidx < Block(hblock).end
    THEN hidx' = hidx + 1 /\ UNCHANGED << hblock, strayed >>
    ELSE /\ hblock' = Block(hblock)[edge]
         /\ hidx' = IF hblock' = NONE THEN NONE ELSE Block(hblock').start
         /\ strayed' = (strayed \/ (hblock' # NONE /\ brings_other(hblock, hblock')))

\* A helper call leaves r1 to r5 unreadable.
clobbered == [r \in Regs |-> IF r \in 1 .. 5 THEN NONE ELSE kregs[r]]

RunPlain ==
    /\ pc = "run" /\ Here.op \in {"ld", "mov", "call", "other"}
    /\ Here.op = "mov" => kregs[Here.src] # NONE
    /\ kregs' = CASE Here.op = "ld" -> [kregs EXCEPT ![Here.dst] = object_of(kload, Here)]
                  [] Here.op = "mov" -> [kregs EXCEPT ![Here.dst] = kregs[Here.src]]
                  [] Here.op = "call" -> clobbered
                  [] OTHER -> kregs
    /\ kidx' = kidx + 1
    /\ Follow("succ_f")
    /\ UNCHANGED << link_vars, blocks, b, regs_in, where, kload >>

RunJump ==
    /\ pc = "run" /\ Here.op \in {"ja", "jcc"}
    /\ \/ kidx' = kidx + 1 + Here.offset /\ Follow("succ_t")
       \/ Here.op = "jcc" /\ kidx' = kidx + 1 /\ Follow("succ_f")
    /\ UNCHANGED << link_vars, blocks, b, regs_in, where, kload, kregs >>

\* The map the user loads callee t into: the named one, or the only prog array
\* of the main object.
array_of(t) ==
    IF tails[t].map_name # NONE THEN << tails[t].map_name >>
    ELSE CHOOSE key \in { map_key(loads[1].maps[m], m, loads[1].path) :
                            m \in { x \in DOMAIN loads[1].maps :
                                      loads[1].maps[x].type = "prog_array" } } : TRUE

\* The programs in a slot of the array that r2 holds, as loads.
in_slot(index) ==
    { t + 1 : t \in { x \in DOMAIN tails : /\ << "map", array_of(x) >> = kregs[2]
                                           /\ where[x] = index } }

holds_array(ref) ==
    \E l \in DOMAIN loads : \E m \in DOMAIN loads[l].maps :
        /\ loads[l].maps[m].type = "prog_array"
        /\ ref = << "map", map_key(loads[l].maps[m], m, loads[l].path) >>

RunTailCall ==
    /\ pc = "run" /\ Here.op = "tail" /\ holds_array(kregs[2])
    /\ \E index \in Slots :
          \/ /\ \E l \in in_slot(index) : kload' = l
             /\ kidx' = 0 /\ kregs' = no_regs
             /\ Follow("succ_t")
          \/ /\ in_slot(index) = {}
             /\ kidx' = kidx + 1 /\ kregs' = clobbered
             /\ Follow("succ_f")
             /\ UNCHANGED kload
    /\ UNCHANGED << link_vars, blocks, b, regs_in, where >>

RunExit ==
    /\ pc = "run" /\ Here.op = "exit"
    /\ pc' = "done"
    /\ UNCHANGED << loads, tails, cause, k, j, maps, remaps, bss, renames,
                    rodata, bases, instrs, progs, claimed, run_vars >>

\* The kernel's verifier does not load a program with such a path.
RunRefused ==
    /\ pc = "run"
    /\ \/ Here.op = "mov" /\ kregs[Here.src] = NONE
       \/ Here.op = "tail" /\ ~holds_array(kregs[2])
    /\ pc' = "refused"
    /\ UNCHANGED << loads, tails, cause, k, j, maps, remaps, bss, renames,
                    rodata, bases, instrs, progs, claimed, run_vars >>

Ended == pc \in {"error", "done", "refused"} /\ UNCHANGED vars

-----------------------------------------------------------------------------

Init ==
    /\ LinkInit
    /\ blocks = << >> /\ b = 0
    /\ regs_in = << >>
    /\ where = << >>
    /\ kload = 1 /\ kidx = 0 /\ kregs = no_regs
    /\ hblock = 0 /\ hidx = 0 /\ strayed = FALSE

Next ==
    \/ LinkNext /\ UNCHANGED run_vars
    \/ FindLeaders \/ BlockEdges \/ BlockEdgesRaises \/ MarkEntries
    \/ TrackBlock \/ TrackRaises \/ TrackStuck
    \/ StartRun \/ RunPlain \/ RunJump \/ RunTailCall \/ RunExit \/ RunRefused
    \/ Ended

Spec == Init /\ [][Next]_vars /\ WF_vars(Next)

-----------------------------------------------------------------------------
(* Properties. *)

\* The state has the shape the code gives it.
TypeOK ==
    /\ pc \in {"check", "maps", "globals", "append", "claim", "linked", "edges",
               "track", "run", "done", "refused", "error"}
    /\ cause \in {NONE, "link", "cfg", "assert", "track"}
    /\ (cause # NONE) <=> (pc = "error")
    /\ Len(progs) <= Len(loads) /\ Len(bases) <= Len(loads)
    /\ \A l \in DOMAIN remaps : ToSet(remaps[l]) \subseteq DOMAIN maps
    /\ \A n \in DOMAIN blocks : ToSet(blocks[n].preds) \subseteq BlockNums
    /\ DOMAIN regs_in \subseteq BlockNums

(***************************************************************************)
(* While the kernel runs the separate programs, the walk over the linked   *)
(* CFG is at the same instruction, inside its block: a path of the kernel  *)
(* is a path of the CFG, across branches, fall-throughs and tail calls     *)
(* (link.py:239, cfg.py build_cfg).                                        *)
(***************************************************************************)
FlowExact ==
    pc = "run" =>
        /\ hblock # NONE
        /\ hidx = progs[kload].start + kidx
        /\ hidx \in Block(hblock).start .. Block(hblock).end
        /\ At(hidx).op = Here.op /\ At(hidx).idx = hidx

(***************************************************************************)
(* A tail call transfers exactly when its slot holds the callee, and to    *)
(* that callee: the edge build_cfg chose and the slot that tail_call_taken *)
(* compares with agree with the kernel on the array that r2 really holds,  *)
(* however it got there, unless the run has strayed (see TrackedRefExact). *)
(* With a symbolic slot both edges are possible.                           *)
(***************************************************************************)
TailExact ==
    pc = "run" /\ ~strayed /\ Here.op = "tail" /\ holds_array(kregs[2]) =>
        \E r \in { Block(Block(hblock).succ_t).prog_entry } :
        \A index \in Slots :
            /\ \A l \in in_slot(index) : r.load = l /\ r.slot \in {NONE, index}
            /\ in_slot(index) = {} => r.slot # index

\* The linked reference names the kernel's object.
names(ref, obj) ==
    CASE ref.region = "map" -> obj[1] = "map" /\ maps[ref.tag].key = obj[2]
      [] ref.region = "bss" ->
            /\ obj[1] = "bss"
            /\ \E l \in DOMAIN loads :
                  /\ loads[l].path = obj[2]
                  /\ ref.sym = IF obj[3] \in DOMAIN renames[l]
                               THEN renames[l][obj[3]] ELSE obj[3]
      [] ref.region = "rodata" ->
            /\ obj[1] = "rodata"
            /\ \E l \in DOMAIN loads :
                  loads[l].path = obj[2] /\ ref.rodata_offset = obj[3] + bases[l]

(***************************************************************************)
(* What the tracker believes a register points to when a block is entered  *)
(* is what it points to on every run that enters the block, through moves, *)
(* calls, joins and tail calls: two globals, or two maps, are distinct     *)
(* objects (block.py merge_entry, expr.py PTR.__eq__).  The exception is a *)
(* run that has strayed: where a join selects between two maps, or two     *)
(* globals, PTR.__eq__ takes them for equal and merge_entry keeps the      *)
(* first predecessor's, which is wrong for a run that brings the other;    *)
(* nothing is said of it from there on.                                    *)
(***************************************************************************)
TrackedRefExact ==
    pc = "run" /\ ~strayed /\ hidx = Block(hblock).start =>
        \A r \in Regs :
            regs_in[hblock][r] # NONE /\ kregs[r] # NONE =>
                names(regs_in[hblock][r], kregs[r])

\* What the command line and the error messages promise to handle: callees in
\* sections of their own without tail calls, one per prog array, maps declared
\* alike everywhere, tail calls whose array is loaded in front of them and has
\* a callee, no loop and no dead code.
supported ==
    /\ \A l \in 2 .. Len(loads) : ~chained(loads[l])
    /\ \A l \in DOMAIN loads :
          /\ loads[l].entry_idx = 0
          /\ loads[l].instrs # << >> /\ Last(loads[l].instrs).op = "exit"
    /\ \A l, m \in DOMAIN loads :
        \A x \in DOMAIN loads[l].maps : \A y \in DOMAIN loads[m].maps :
            map_key(loads[l].maps[x], x, loads[l].path)
              = map_key(loads[m].maps[y], y, loads[m].path)
                => same_geometry(loads[l].maps[x], loads[m].maps[y])
    /\ \A t \in DOMAIN tails : tails[t].map_name # NONE
                                 /\ holds_array(<< "map", << tails[t].map_name >> >>)
    /\ \A s, t \in DOMAIN tails : tails[s].map_name = tails[t].map_name => s = t
    /\ \A p \in DOMAIN loads[1].instrs :
        loads[1].instrs[p].op = "tail" =>
            \E q \in { p - 1 } :
                /\ q > 0 /\ loads[1].instrs[q].op = "ld" /\ loads[1].instrs[q].dst = 2
                /\ loads[1].instrs[q].region = "map"
                /\ \E t \in DOMAIN tails :
                      array_of(t) = map_key(loads[1].maps[loads[1].instrs[q].tag],
                                            loads[1].instrs[q].tag, loads[1].path)
    /\ \A p \in DOMAIN loads[1].instrs :
        /\ loads[1].instrs[p].op \in {"ja", "jcc"} =>
              /\ loads[1].instrs[p].offset >= 0
              /\ loads[1].instrs[p + 1 + loads[1].instrs[p].offset].op # "tail"
        /\ p < Len(loads[1].instrs) /\ loads[1].instrs[p].op \in {"ja", "exit"} =>
              \E q \in DOMAIN loads[1].instrs :
                 loads[1].instrs[q].op \in {"ja", "jcc"}
                   /\ q + 1 + loads[1].instrs[q].offset = p + 1

(***************************************************************************)
(* No supported request is refused, by the linker, the CFG builder, one of *)
(* its asserts or the tracker: renumbering loses nothing that a later      *)
(* stage needs.                                                            *)
(***************************************************************************)
SupportedAccepted == pc = "error" => ~supported

\* Linking, building the CFG and tracking end, in an exception or in a program
\* ready to be queried, on cyclic code too.
Terminates == <>(pc \in {"error", "run"})
=============================================================================
