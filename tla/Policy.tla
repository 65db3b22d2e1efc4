--------------------------------- MODULE Policy ---------------------------------
(***************************************************************************)
(* What a specification document means: the world its input describes      *)
(* (_parse_input, z3_state_from_input), its conditions (_parse_cond and    *)
(* the atoms' to_z3, verify/spec.py) and the witness that accompanies an   *)
(* answer (verify/witness.py).                                             *)
(*                                                                         *)
(* The program is run on one valuation of the solver's variables; the run  *)
(* is what the state at a block and the value of a recorded read or call   *)
(* are, which is what Forward, ByteMem and Scalar are about.  Then one     *)
(* condition is parsed and evaluated there, a witness is taken from the    *)
(* valuation, and the program is run again on the witness alone.           *)
(*                                                                         *)
(* Memory is bytes, lowest address first; the parser's values are          *)
(* integers, as in the code.  There is one map.                            *)
(***************************************************************************)
EXTENDS Integers, FiniteSets, SequencesExt

CONSTANTS B,          \* bits of a byte
          None,       \* Python's None, a key that is not in the document
          Refused,    \* SpecError, or OverflowError for a value too wide
          Reg,        \* the register r, as the key of a map operation
          Programs,   \* records [ops, branch, kind, max_entries], see Op
          Worlds,     \* valuations: [pkt, len, present, value, ret, ok, rx, r0]
          Inputs,     \* input sections: None or [packet, pkt_len, maps, rx]
          Conds       \* conditions: records [at, cond]; at is None at the exits

ASSUME BAssumption == B \in Nat \ {0}

Base == 2^B
Byte == 0 .. Base - 1
PktSize == 3
ValueSize == 2      \* value_size; key_size is one byte
WordSize == 2       \* bytes of a register
CallSize == 1       \* ret_size of the scalar helper
DISPLAY_BYTES == 2
MaxOps == 4

\* Every program is a diamond: block 0 branches, 1 and 2 meet again in 3.  The
\* branch tests r # 0 ("tested"), or its condition was not recorded or is a tail
\* call through a symbolic slot ("free"): then the valuation's ok decides.
Block == 0 .. 3
succ_t(b) == CASE b = 0 -> 1 [] b \in {1, 2} -> 3 [] OTHER -> None
succ_f(b) == IF b = 0 THEN 2 ELSE None
block_slice(b) == IF b \in {None, 3} THEN Block ELSE {0, b}
Idx == {MaxOps * b + i : b \in Block, i \in 1..MaxOps}

\* A read at a variable offset (var_off) is at off plus the lowest bit of r; an
\* update whose flags are None does not know them.
Op == [op : {"load", "deref"}, off : 0..(PktSize - 1), size : 1..2, var : BOOLEAN]
      \cup [op : {"store", "mstore"}, off : 0..(PktSize - 1)]
      \cup [op : {"lookup", "delete"}, key : Byte \cup {Reg}]
      \cup [op : {"update"}, key : Byte \cup {Reg}, flags : {"any", "noexist", "exist", None}]
      \cup [op : {"set"}, v : 0..(Base^WordSize - 1)]
      \cup [op : {"call", "bss", "setrx", "tail_call"}] \cup [op : {"adjust_tail"}, d : Int]

ASSUME ProgramsAssumption ==
  \A p \in Programs : p.branch \in {"tested", "free"}
                      /\ \A b \in Block : Range(p.ops[b + 1]) \subseteq Op

VARIABLES prog, world, input,    \* the inputs; read only
          phase,                 \* "parse", "run", "ask", "witness", "replay", "done"
          st0,                   \* the state the program starts in
          cur, m, trace,         \* the run: block, machine, what each block did
          asked,                 \* the condition, its parsed form and its value
          witness, replay        \* the witness, and trace of the run from it

vars == <<prog, world, input, phase, st0, cur, m, trace, asked, witness, replay>>
inputs == <<prog, world, input>>
run == <<st0, cur, m, trace>>

-----------------------------------------------------------------------------
(* Integers and bytes.                                                     *)

little(bs) == LET S[i \in 0..Len(bs)] == IF i = 0 THEN 0 ELSE S[i-1] + bs[i] * Base^(i-1)
              IN  S[Len(bs)]
big(bs) == little(Reverse(bs))
to_little(n, size) == [i \in 1..size |-> (n \div Base^(i-1)) % Base]
to_big(n, size) == Reverse(to_little(n, size))
slot(bs, off, size) == [i \in 1..size |-> bs[off + i]]

\* A value of the document is an integer (decimal or hex) or one byte after the
\* other (a list, an IPv4 or a MAC address).
_parse_val_bytes(v, size) ==
  IF v.form = "int" THEN IF v.n < Base^size THEN to_big(v.n, size) ELSE Refused
  ELSE IF Len(v.bytes) = size THEN v.bytes ELSE Refused

_parse_multibyte_int(v, size) ==
  LET bs == _parse_val_bytes(v, size) IN IF bs = Refused THEN Refused ELSE little(bs)

-----------------------------------------------------------------------------
(* The input section.  A packet is a sequence of layers, a layer a sequence *)
(* of fields [bits, v, set]; maps names one map and lists its entries.      *)

\* The bytes of a layer and, for each, whether every field in it was assigned.
_layer_byte_facts(layer) ==
  LET step(s, f) ==
        LET val == s.val * 2^f.bits + f.v
            n == s.n + f.bits
            explicit == s.explicit /\ f.set
        IN  IF n % B # 0 THEN [s EXCEPT !.val = val, !.n = n, !.explicit = explicit]
            ELSE [bytes |-> s.bytes \o to_big(val, n \div B),
                  mask |-> s.mask \o [i \in 1..(n \div B) |-> explicit],
                  val |-> 0, n |-> 0, explicit |-> TRUE]
      start == [bytes |-> << >>, mask |-> << >>, val |-> 0, n |-> 0, explicit |-> TRUE]
      end == FoldLeft(step, start, layer)
  IN  IF end.n = 0 THEN [bytes |-> end.bytes, mask |-> end.mask] ELSE Refused

_packet_byte_facts(layers) ==
  LET facts == [i \in DOMAIN layers |-> _layer_byte_facts(layers[i])] IN
  IF \E i \in DOMAIN facts : facts[i] = Refused THEN Refused
  ELSE [bytes |-> FlattenSeq([i \in DOMAIN facts |-> facts[i].bytes]),
        mask |-> FlattenSeq([i \in DOMAIN facts |-> facts[i].mask])]

\* map_values: None for a map that is not named, else <<key, value>> pairs.
_parse_entries(maps) ==
  LET kv == {<<_parse_multibyte_int(e[1], 1), _parse_multibyte_int(e[2], ValueSize)>> :
             e \in Range(maps.entries)}
  IN  IF maps.name # "m" \/ (\E e \in kv : Refused \in {e[1], e[2]}) THEN Refused ELSE kv

\* InputSpec: the bytes that are fixed, as a function; the length; the entries.
_parse_input(node) ==
  LET facts == _packet_byte_facts(node.packet)
      own == Len(facts.bytes)
      entries == IF node.maps = None THEN None ELSE _parse_entries(node.maps)
  IN  CASE facts = Refused \/ entries = Refused -> Refused
        [] node.pkt_len # None /\ node.packet # << >> /\ node.pkt_len < own -> Refused
        [] OTHER -> [pkt_bytes |-> [i \in {j \in 1..own : facts.mask[j]} |-> facts.bytes[i]],
                     pkt_len |-> IF node.pkt_len # None THEN node.pkt_len
                                 ELSE IF node.packet # << >> THEN own ELSE None,
                     map_values |-> entries, rx |-> node.rx]

Given(x, else) == IF x = None THEN else ELSE x

\* Faulty variant: an empty list of entries leaves the map open.
closed_listed(spec) == spec.map_values \notin {None, {}}

\* A map that is named holds exactly the entries listed, be there none.
closed(spec) == spec.map_values # None

\* What the input fixes is fixed; the rest is the valuation's.
z3_state_from_input(spec, w) ==
  LET entries == spec.map_values
      listed(k) == {e \in entries : e[1] = k}
  IN  [pkt |-> [i \in 1..PktSize |-> IF i \in DOMAIN spec.pkt_bytes THEN spec.pkt_bytes[i] ELSE w.pkt[i]],
       len |-> Given(spec.pkt_len, w.len), rx |-> Given(spec.rx, w.rx),
       present |-> IF ~closed(spec) THEN w.present ELSE [k \in Byte |-> listed(k) # {}],
       value |-> IF ~closed(spec) THEN w.value
                 ELSE [k \in Byte |-> IF listed(k) = {} THEN w.value[k]
                                      ELSE to_little((CHOOSE e \in listed(k) : TRUE)[2], ValueSize)]]

-----------------------------------------------------------------------------
(* The machine: [r, p, pkt, len, present, value, bss, rx]; r outlives       *)
(* calls, p is the key that was looked up last.                             *)

\* An array holds every key below max_entries.
contains(present, k) == IF prog.kind = "array" THEN k < prog.max_entries ELSE present[k]
keyof(mc, key) == IF key = Reg THEN mc.r % Base ELSE key
put(bs, off, v) == [bs EXCEPT ![off + 1] = v % Base]
\* Where a read at a constant or a variable offset goes.
address(mc, o) == IF o.var THEN o.off + (mc.r % 2) ELSE o.off

\* Unknown flags leave the outcome to the valuation.
update_applies(flags, there, w) ==
  CASE flags = "any" -> TRUE [] flags = "noexist" -> ~there
    [] flags = "exist" -> there [] flags = None -> w.ok

exec(mc, o, idx, w) ==
  LET k == keyof(mc, o.key)
      there == contains(mc.present, k)
  IN
  CASE o.op = "load"   -> [mc EXCEPT !.r = little(slot(mc.pkt, address(mc, o), o.size))]
    [] o.op = "store"  -> [mc EXCEPT !.pkt = put(@, o.off, mc.r)]
    [] o.op = "lookup" -> [mc EXCEPT !.p = k, !.r = IF there THEN 1 ELSE 0]
    [] o.op = "deref"  -> [mc EXCEPT !.r = little(slot(mc.value[mc.p], address(mc, o), o.size))]
    [] o.op = "mstore" -> [mc EXCEPT !.value[mc.p] = put(@, o.off, mc.r)]
    [] o.op = "update" -> IF \/ ~update_applies(o.flags, there, w)
                             \/ prog.kind = "array" /\ ~there
                          THEN mc
                          ELSE [mc EXCEPT !.value[k] = to_little(mc.r, ValueSize), !.present[k] = TRUE]
    [] o.op = "delete" -> [mc EXCEPT !.present[k] = FALSE]
    [] o.op = "set"    -> [mc EXCEPT !.r = o.v]
    [] o.op = "call"   -> [mc EXCEPT !.r = w.ret[idx]]
    [] o.op = "bss"    -> [mc EXCEPT !.bss = to_little(mc.r, WordSize)]
    [] o.op = "setrx"  -> [mc EXCEPT !.rx = mc.r]
    [] o.op = "adjust_tail" -> [mc EXCEPT !.len = IF w.ok THEN @ + o.d ELSE @,
                                          !.r = IF w.ok THEN 0 ELSE Base^WordSize - 1]
    [] o.op = "tail_call" -> mc

\* The machine before and after each instruction of a block.
steps(mc, b, w) ==
  LET ops == prog.ops[b + 1]
      M[i \in 0..Len(ops)] == IF i = 0 THEN mc ELSE exec(M[i-1], ops[i], MaxOps * b + i, w)
  IN  M
machine(s) == [r |-> 0, p |-> 0, pkt |-> s.pkt, len |-> s.len, present |-> s.present,
               value |-> s.value, bss |-> [i \in 1..WordSize |-> 0], rx |-> s.rx]
after(mc, b, w) == IF b = 0 /\ ~(IF prog.branch = "free" THEN w.ok ELSE mc.r # 0)
                   THEN succ_f(b) ELSE succ_t(b)
last(M) == M[Cardinality(DOMAIN M) - 1]

-----------------------------------------------------------------------------
(* The parser of conditions; b is the block, None in exit_conditions.      *)

blockOf(idx) == (idx - 1) \div MaxOps
posOf(idx) == ((idx - 1) % MaxOps) + 1
opOf(idx) == prog.ops[blockOf(idx) + 1][posOf(idx)]
\* build_call_index: the calls whose return can be asked about.
calls == {idx \in Idx : /\ posOf(idx) =< Len(prog.ops[blockOf(idx) + 1])
                        /\ opOf(idx).op \in {"lookup", "call", "adjust_tail", "tail_call"}}
ret_size(idx) == IF opOf(idx).op = "call" THEN CallSize ELSE WordSize
Orders == {"eq", "ne", "lt", "le", "gt", "ge"}

_parse_helper_atom(a) ==
  CASE a.idx \notin calls \/ (a.helper # None /\ a.helper # opOf(a.idx).op) -> Refused
    [] opOf(a.idx).op = "tail_call" -> Refused
    [] opOf(a.idx).op = "lookup" ->
         IF a.returns \notin {"null", "non_null"} THEN Refused
         ELSE [is |-> "null", idx |-> a.idx, result |-> a.returns = "non_null"]
    [] OTHER -> IF a.op \notin Orders \/ a.value = None THEN Refused
                ELSE [is |-> "scalar", idx |-> a.idx, op |-> a.op, value |-> a.value]

\* The block's last read of a byte, as a set of at most one instruction.  Reads
\* at a variable offset are passed over in the packet; in a map value they count
\* as reads at the constant part of their offset.
_byte_index(b, from, off) ==
  {i \in DOMAIN prog.ops[b + 1] :
     LET covers(j) == LET o == prog.ops[b + 1][j] IN
                        /\ o.op = from /\ off \in o.off .. o.off + o.size - 1
                        /\ from = "load" => ~o.var
     IN  covers(i) /\ \A j \in (i + 1)..Len(prog.ops[b + 1]) : ~covers(j)}

_parse_read_atom(a, b) ==
  LET target == _parse_multibyte_int(a.value, a.size)
      index(j) == _byte_index(b, a.from, a.off + j - 1)
  IN  IF b = None \/ target = Refused \/ (\E j \in 1..a.size : index(j) = {}) THEN Refused
      ELSE [is |-> "read", target |-> target, op |-> a.op,
            parts |-> [j \in 1..a.size |->
                        LET i == CHOOSE x \in index(j) : TRUE
                        IN  <<i, a.off + j - 1 - prog.ops[b + 1][i].off>>]]

_parse_map_atom(a) ==
  LET key == _parse_multibyte_int(a.key, 1)
      value == IF a.value = None THEN None ELSE _parse_multibyte_int(a.value, ValueSize)
  IN  IF \/ a.name # "m"
         \/ a.contains = None /\ a.value = None
         \/ a.contains = FALSE /\ a.value # None
         \/ Refused \in {key, value}
      THEN Refused ELSE [is |-> "map", key |-> key, present |-> a.contains, value |-> value]

\* r0 is bound at the exits only.
_parse_ret_atom(a, b) == IF b # None THEN Refused ELSE [is |-> "ret", op |-> a.op, value |-> a.value]

_parse_atom(a, b) ==
  CASE a.is = "call" -> _parse_helper_atom(a)
    [] a.is = "ret"  -> _parse_ret_atom(a, b)
    [] a.is = "read" -> _parse_read_atom(a, b)
    [] a.is = "bss"  -> LET v == _parse_multibyte_int(a.value, a.size) IN
                        IF v = Refused \/ a.size < 1 THEN Refused
                        ELSE [is |-> "bss", off |-> a.off, size |-> a.size, value |-> v, op |-> a.op]
    [] a.is = "map"  -> _parse_map_atom(a)
    [] a.is \in {"len", "ctx"} -> a
    [] a.is = "pkt"  -> LET data == _parse_val_bytes(a.value, a.size) IN
                        IF data = Refused THEN Refused
                        ELSE [is |-> "pkt", off |-> a.off, data |-> data, op |-> a.op]

Tree == {"and", "or", "not"}

RECURSIVE _parse_cond(_, _)
_parse_cond(n, b) ==
  IF n.is \notin Tree THEN _parse_atom(n, b)
  ELSE LET kids == [i \in DOMAIN n.kids |-> _parse_cond(n.kids[i], b)] IN
       IF (n.is = "not" /\ Len(kids) # 1) \/ (\E i \in DOMAIN kids : kids[i] = Refused) THEN Refused
       ELSE [is |-> IF kids = << >> THEN "and" ELSE n.is, kids |-> kids]

\* _parse_block_condition and _parse_exit_condition.
_parse_condition(c) == IF c.at # None /\ c.at \notin Block THEN Refused ELSE _parse_cond(c.cond, c.at)

-----------------------------------------------------------------------------
(* Evaluation: each atom's to_z3 under the valuation, in the state at the  *)
(* end of block b (state_at, ret_state); tr is the run's trace.            *)

compare(op, x, y) == CASE op = "eq" -> x = y [] op = "ne" -> x # y
                       [] op = "lt" -> x < y [] op = "le" -> x =< y
                       [] op = "gt" -> x > y [] op = "ge" -> x >= y

ran(tr, idx) == tr[blockOf(idx)] # None
got(tr, idx) == tr[blockOf(idx)][posOf(idx)].r

\* Faulty variant: whether the key is there now, not when it was looked up.
helper_null_now(tr, st, idx) ==
  contains(st.present, tr[blockOf(idx)][posOf(idx)].p)

\* contain_map_value with a map_key_id: presence in the state of that lookup.
helper_null(tr, st, idx) ==
  LET at == tr[blockOf(idx)][posOf(idx) - 1] IN
  contains(at.present, keyof(at, opOf(idx).key))

LenAtom(a, st) == (a.min = None \/ st.len >= a.min) /\ (a.max = None \/ st.len =< a.max)

\* A call that the run did not meet leaves a variable of the solver's own.
HelperAtom(a, tr, st, w) ==
  IF a.is = "null" THEN IF ran(tr, a.idx) THEN helper_null(tr, st, a.idx) = a.result ELSE w.ok
  ELSE LET v == IF ran(tr, a.idx) THEN got(tr, a.idx) ELSE w.ret[a.idx]
       IN  compare(a.op, v, a.value % Base^ret_size(a.idx))

MapAtom(a, st) ==
  LET there == contains(st.present, a.key) IN
  IF a.value # None THEN there /\ little(st.value[a.key]) = a.value ELSE there = a.present

ReadAtom(a, tr, b) ==
  LET byte(p) == (tr[b][p[1]].r \div Base^p[2]) % Base
      v == little([j \in DOMAIN a.parts |-> byte(a.parts[j])])
  IN  compare(a.op, v, a.target)

RECURSIVE to_z3(_, _, _, _)
to_z3(c, b, tr, w) ==
  LET at == IF b = None THEN 3 ELSE b
      st == last(tr[at])
  IN  CASE c.is = "and" -> \A i \in DOMAIN c.kids : to_z3(c.kids[i], b, tr, w)
        [] c.is = "or"  -> \E i \in DOMAIN c.kids : to_z3(c.kids[i], b, tr, w)
        [] c.is = "not" -> ~to_z3(c.kids[1], b, tr, w)
        [] c.is = "pkt" -> compare(c.op, slot(st.pkt, c.off, Len(c.data)), c.data)
        [] c.is = "map" -> MapAtom(c, st)
        [] c.is = "bss" -> compare(c.op, little(slot(st.bss, c.off, c.size)), c.value)
        [] c.is = "len" -> LenAtom(c, st)
        [] c.is = "ctx" -> st.rx = c.value
        [] c.is \in {"null", "scalar"} -> HelperAtom(c, tr, st, w)
        [] c.is = "read" -> ReadAtom(c, tr, at)
        [] c.is = "ret" -> compare(c.op, IF b = None THEN st.r ELSE w.r0, c.value)

-----------------------------------------------------------------------------
(* The witness of a valuation.                                             *)

_packet == slot(st0.pkt, 0, IF st0.len < DISPLAY_BYTES THEN st0.len ELSE DISPLAY_BYTES)

\* Faulty variant: the memory that the run left.
shown_memory_end == m

\* ctx.init_st: the memory the run started with.
shown_memory == st0

\* The contents at the start under every key a call looks up; the key of a call
\* that the run did not make is any value (guess).
_maps(guess) ==
  {[key |-> k, present |-> shown_memory.present[k], value |-> shown_memory.value[k]] :
     k \in {IF ran(trace, idx) THEN trace[blockOf(idx)][posOf(idx)].p ELSE guess :
            idx \in {i \in calls : opOf(i).op = "lookup"}}}

\* The returns of the calls recorded as func_retval: adjustments are not.
_helpers == [idx \in {i \in calls : opOf(i).op = "call"} |-> world.ret[idx]]

\* Along the true edges, as far as the context's slice goes.
_path(b) ==
  LET next(x) == after(last(trace[x]), x, world)
      P[i \in 0..3] == IF i = 0 THEN <<0>>
                       ELSE LET x == Last(P[i-1]) IN
                            IF x = 3 \/ next(x) \notin block_slice(b) THEN P[i-1]
                            ELSE Append(P[i-1], next(x))
  IN  P[3]

\* The world that has what the witness lists and nothing else.
shown(w) ==
  LET entry(k) == {e \in w.maps : e.key = k}
  IN  [pkt |-> [i \in 1..PktSize |-> IF i \in DOMAIN w.packet THEN w.packet[i] ELSE 0],
       len |-> w.pkt_len, rx |-> w.rx,
       present |-> [k \in Byte |-> \E e \in entry(k) : e.present],
       value |-> [k \in Byte |-> IF entry(k) = {} THEN [i \in 1..ValueSize |-> 0]
                                 ELSE (CHOOSE e \in entry(k) : TRUE).value]]

-----------------------------------------------------------------------------
\* Bytes of the packet an instruction may read, from the first of the frame.
last_byte(o) == o.off + o.size + (IF o.var THEN 1 ELSE 0)

\* A program checks the bounds of what it loads first and leaves if a frame is
\* too short; the run that follows is one of a frame that is not.
InFrame(s) == \A b \in Block : \A i \in DOMAIN prog.ops[b + 1] :
  LET o == prog.ops[b + 1][i] IN o.op = "load" => last_byte(o) =< s.len

NoTrace == [b \in Block |-> None]

Init ==
  /\ prog \in Programs /\ world \in Worlds /\ input \in Inputs
  /\ phase = "parse" /\ cur = 0 /\ trace = NoTrace
  /\ st0 = None /\ m = None /\ asked = None /\ witness = None /\ replay = None

ParseInput ==
  /\ phase = "parse"
  /\ LET spec == IF input = None THEN None ELSE _parse_input(input) IN
     IF spec = Refused THEN phase' = "refused" /\ UNCHANGED <<st0, m>>
     ELSE /\ st0' = IF spec = None THEN [pkt |-> world.pkt, len |-> world.len, rx |-> world.rx,
                                         present |-> world.present, value |-> world.value]
                    ELSE z3_state_from_input(spec, world)
          /\ phase' = IF InFrame(st0') THEN "run" ELSE "left"
          /\ m' = machine(st0')
  /\ UNCHANGED <<inputs, cur, trace, asked, witness, replay>>

RunBlock ==
  /\ phase = "run"
  /\ LET M == steps(m, cur, world) IN
     /\ trace' = [trace EXCEPT ![cur] = M] /\ m' = last(M)
     /\ IF cur = 3 THEN phase' = "ask" /\ UNCHANGED cur
        ELSE cur' = after(last(M), cur, world) /\ UNCHANGED phase
  /\ UNCHANGED <<inputs, st0, asked, witness, replay>>

\* The nodes of a condition, and its atoms.
RECURSIVE Nodes(_)
Nodes(n) == {n} \cup (IF n.is \in Tree THEN UNION {Nodes(n.kids[i]) : i \in DOMAIN n.kids} ELSE {})
Atoms(n) == {x \in Nodes(n) : x.is \notin Tree}

\* LenAtom.to_z3 has no term for a length without bounds, and raises.
unbounded(c) == \E a \in Atoms(c) : a.is = "len" /\ a.min = None /\ a.max = None

\* A condition of the policy, decided where the run comes by.
Ask ==
  /\ phase = "ask"
  /\ \E c \in Conds :
       LET parsed == _parse_condition(c) IN
       /\ IF c.at \in Block THEN trace[c.at] # None ELSE TRUE
       /\ IF parsed = Refused \/ unbounded(parsed)
          THEN phase' = "refused" /\ asked' = [c |-> c, parsed |-> Refused]
          ELSE /\ phase' = "witness"
               /\ asked' = [c |-> c, parsed |-> parsed, value |-> to_z3(parsed, c.at, trace, world)]
  /\ UNCHANGED <<inputs, run, witness, replay>>

Build ==
  /\ phase = "witness"
  /\ \E guess \in Byte :
       witness' = [packet |-> _packet, pkt_len |-> st0.len, rx |-> st0.rx, maps |-> _maps(guess),
                   helpers |-> _helpers, path |-> _path(asked.c.at)]
  /\ phase' = "replay"
  /\ UNCHANGED <<inputs, run, asked, replay>>

\* What the witness does not list, the second run meets as it comes (ok).
Replay ==
  /\ phase = "replay"
  /\ \E ok \in BOOLEAN :
     LET w == [world EXCEPT !.ok = ok, !.ret = [idx \in Idx |-> IF idx \in DOMAIN witness.helpers
                                                                THEN witness.helpers[idx] ELSE 0]]
         first == steps(machine(shown(witness)), 0, w)
         side == after(last(first), 0, w)
         mid == steps(last(first), side, w)
     IN  replay' = [NoTrace EXCEPT ![0] = first, ![side] = mid, ![3] = steps(last(mid), 3, w)]
  /\ phase' = "done"
  /\ UNCHANGED <<inputs, run, asked, witness>>

Next == ParseInput \/ RunBlock \/ Ask \/ Build \/ Replay
Spec == Init /\ [][Next]_vars

-----------------------------------------------------------------------------
(* What the documents say, on the machine's own memory.                    *)

\* Memory order, lowest address first; an integer is written big-endian.
Reads(bs, v) == IF v.form = "int" THEN big(bs) = v.n ELSE bs = v.bytes

\* The world s is one the input section describes.
Describes(node, s) ==
  LET fields == FlattenSeq(node.packet)
      end(i) == LET E[j \in 0..Len(fields)] == IF j = 0 THEN 0 ELSE E[j-1] + fields[j].bits IN E[i]
      \* bit j of the frame, counted from the most significant bit of byte 1
      bit(j) == (s.pkt[(j - 1) \div B + 1] \div 2^((B - j) % B)) % 2
      byteOf(j) == (j - 1) \div B
      in(j) == CHOOSE i \in DOMAIN fields : end(i - 1) < j /\ j =< end(i)
      Bits == 1 .. end(Len(fields))
      set(j) == \A x \in Bits : byteOf(x) = byteOf(j) => fields[in(x)].set
  IN  /\ \A j \in Bits : set(j) => bit(j) = (fields[in(j)].v \div 2^(end(in(j)) - j)) % 2
      /\ node.pkt_len # None => s.len = node.pkt_len
      /\ node.pkt_len = None /\ fields # << >> => s.len * B = end(Len(fields))
      /\ node.rx # None => s.rx = node.rx
      /\ node.maps # None =>
           LET listed(k) == {e \in Range(node.maps.entries) : Reads(<<k>>, e[1])} IN
           \A k \in Byte : /\ prog.kind = "hash" => s.present[k] = (listed(k) # {})
                           /\ \A e \in listed(k) : Reads(s.value[k], e[2])

\* "What is left out stays symbolic": the encoded start of the program is a
\* world the input section describes, and any world it describes can be it,
\* down to the bit fields of the packet expression and the closed maps
\* (_parse_input, z3_state_from_input).
InputExact ==
  (input # None /\ st0 # None) =>
    /\ Describes(input, st0)
    /\ Describes(input, world) =>
         /\ \A f \in {"pkt", "len", "rx", "value"} : st0[f] = world[f]
         /\ prog.kind = "hash" => st0.present = world.present

\* The reads of the byte at off in block b: those at a constant offset.
reads_of(b, from, off) ==
  {i \in DOMAIN prog.ops[b + 1] :
     LET o == prog.ops[b + 1][i] IN
     o.op = from /\ ~o.var /\ o.off =< off /\ off < o.off + o.size}

\* The document gives an atom a meaning here: the bytes are in the frame, the
\* block read them, the call was made, the number fits what it is compared with.
Defined(a, b, tr) ==
  LET st == last(tr[b]) IN
  CASE a.is = "pkt" -> a.off + a.size =< st.len
    [] a.is = "read" -> \A j \in 1..a.size : reads_of(b, a.from, a.off + j - 1) # {}
    [] a.is = "call" -> ran(tr, a.idx) /\ (a.value # None => a.value < Base^ret_size(a.idx))
    [] OTHER -> TRUE

Means(a, b, tr) ==
  LET st == last(tr[b])
      eq(x) == IF a.op = "eq" THEN x ELSE ~x
      \* what the block's latest read of the byte at off brought
      latest(off) ==
        LET hits == reads_of(b, a.from, off)
            src == tr[b][(CHOOSE x \in hits : \A y \in hits : y =< x) - 1]
        IN  (IF a.from = "load" THEN src.pkt ELSE src.value[src.p])[off + 1]
  IN  CASE a.is = "pkt" -> eq(Reads(slot(st.pkt, a.off, a.size), a.value))
        [] a.is = "map" -> \E k \in Byte :
             /\ Reads(<<k>>, a.key)
             /\ IF a.value # None THEN contains(st.present, k) /\ Reads(st.value[k], a.value)
                ELSE contains(st.present, k) = a.contains
        [] a.is = "bss" -> eq(Reads(slot(st.bss, a.off, a.size), a.value))
        [] a.is = "len" -> (a.min # None => a.min =< st.len) /\ (a.max # None => st.len =< a.max)
        [] a.is = "ctx" -> eq(st.rx = a.value)
        [] a.is = "ret" -> compare(a.op, st.r, a.value)
        [] a.is = "call" -> IF a.returns # None THEN (got(tr, a.idx) = 1) = (a.returns = "non_null")
                            ELSE compare(a.op, got(tr, a.idx), a.value)
        [] a.is = "read" -> eq(Reads([j \in 1..a.size |-> latest(a.off + j - 1)], a.value))

RECURSIVE Holds(_, _, _)
Holds(n, b, tr) == CASE n.is = "and" -> \A i \in DOMAIN n.kids : Holds(n.kids[i], b, tr)
                     [] n.is = "or"  -> \E i \in DOMAIN n.kids : Holds(n.kids[i], b, tr)
                     [] n.is = "not" -> ~Holds(n.kids[1], b, tr)
                     [] OTHER -> Means(n, b, tr)

where == IF asked.c.at = None THEN 3 ELSE asked.c.at
AllDefined(tr) == tr[where] # None /\ \A a \in Atoms(asked.c.cond) : Defined(a, where, tr)

\* What the code accepts and decides in a way of its own: `or: []` is true, `op: ne`
\* of a context field is ignored, and a read of a map value at a variable offset is
\* taken for one at the constant part of it (_parse_cond, _parse_atom, _byte_index).
OwnWay(c, b) ==
  \/ \E n \in Nodes(c) : n.is = "or" /\ n.kids = << >>
  \/ \E a \in Atoms(c) : a.is = "ctx" /\ a.op = "ne"
  \/ (\E a \in Atoms(c) : a.is = "read" /\ a.from = "deref")
     /\ \E o \in Range(prog.ops[b + 1]) : o.op = "deref" /\ o.var

\* A condition the parser accepts has, at its block, the value the documents give
\* it on the run: the memory of that moment in memory order, the value a call
\* returned when it was made, r0 at the exits only, and what the block's reads at
\* a constant offset brought (_parse_atom and the atoms' to_z3).  Left out are
\* atoms that have no meaning here (Defined) and the three kinds of condition the
\* code decides otherwise (OwnWay).
MeaningExact ==
  (phase = "witness" /\ AllDefined(trace) /\ ~OwnWay(asked.c.cond, where)) =>
    asked.value = Holds(asked.c.cond, where, trace)

\* Run on nothing but the witness, the program goes through the blocks shown and
\* comes by the block asked about.
SamePath ==
  /\ \A i \in DOMAIN witness.path : replay[witness.path[i]] # None
  /\ where \in Range(witness.path)

\* There, the condition has the value the solver found.
SameValue ==
  AllDefined(trace) => /\ AllDefined(replay)
                       /\ to_z3(asked.parsed, asked.c.at, replay, world) = asked.value

\* Neither the run nor the condition is about a byte that the witness cuts off.
Displayed ==
  /\ \A b \in Block : \A i \in DOMAIN prog.ops[b + 1] :
       LET o == prog.ops[b + 1][i] IN
       trace[b] # None /\ o.op = "load" => last_byte(o) =< DISPLAY_BYTES
  /\ \A a \in Atoms(asked.c.cond) : a.is = "pkt" => a.off + a.size =< DISPLAY_BYTES

\* Outcomes the solver chooses and the witness does not list: of an adjustment, of
\* an update with unknown flags, of a branch that was not recorded or a tail call.
Unlisted ==
  \/ prog.branch = "free"
  \/ \E b \in Block : trace[b] # None /\ \E o \in Range(prog.ops[b + 1]) :
       o.op = "adjust_tail" \/ (o.op = "update" /\ o.flags = None)

\* "The packet bytes, map contents and helper return values that produce it, and
\* the blocks that run" (witness.py, build), for a hash map: of a run that depends
\* on no byte cut off and on no unlisted outcome, the witness alone gives the path
\* again, and the value of the condition if the keys it names were looked up.
\* The keys are those the program computed when it looked up, the contents those
\* of the start, whatever the program wrote in between.  spec.md promises this of
\* every run; of the runs left out here it is false.
WitnessReplays ==
  (phase = "done" /\ prog.kind = "hash" /\ Displayed /\ ~Unlisted) =>
    /\ SamePath
    /\ (\A a \in Atoms(asked.parsed) :
          a.is = "map" => \E e \in witness.maps : e.key = a.key) => SameValue
=============================================================================
