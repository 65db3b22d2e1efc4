--------------------------------- MODULE ByteMem --------------------------------
(***************************************************************************)
(* Memory of several bytes: the stack slots of track/block.py, the map     *)
(* values and byte arrays that the actions of track/encode.py rewrite, and *)
(* the fold of verify/slice.py that reads a byte back from a list of       *)
(* writes, each beside the bytes the machine holds.  A run works on one    *)
(* of the three memories, in one block, with one scalar register.          *)
(***************************************************************************)
EXTENDS Bits, Sequences

CONSTANTS V,        \* bytes of a map value, and of a .bss object
          Keys,     \* constant map keys; a key held in a register is "x"
          Addrs,    \* stack addresses, negative as in the code
          Offs,     \* offsets into a value or an object
          Sizes,    \* access sizes
          Sources,  \* expressions the register starts with
          Imms,     \* immediates of ST
          MaxOps    \* bound on the accesses of a run

ASSUME ByteMemAssumption == V \in Nat /\ MaxOps \in Nat /\ Sizes \subseteq {1, 2, 4, 8}

KeyExpr == Keys \cup {"x"}
\* The machine's bytes: by stack address, object offset, map key and offset.
Cell == ({"stk"} \X (-16 .. -1)) \cup (({"bss"} \cup Keys) \X (0 .. V-1))

VARIABLES where,     \* the memory of this run: "stk", "map" or "bss"
          x,         \* the valuation of the key "x"
          mem,       \* the machine's bytes
          defined,   \* the cells that were initialised
          init,      \* mem as it was at entry, which the folds start from
          reg, mreg, \* the register: its expression, and its value
          stk,       \* Block.stk: expressions, or None
          sigma,     \* Z3State: the map's values, and the bytes of the object
          fold,      \* the region is folded: no access of the program has a var_off
          writes,    \* Memory.writes of the region
          n          \* accesses so far

vars == <<where, x, mem, defined, init, reg, mreg, stk, sigma, fold, writes, n>>

keyval(k) == IF k = "x" THEN x ELSE k
Pack(f(_), size) == MapThenSumSet(LAMBDA i : f(i) * 2^(B * i), 0 .. size-1)
\* What the machine reads, and how it writes.
peek(key, a, size) == Pack(LAMBDA i : mem[<<key, a + i>>], size)
poke(key, a, size, v) ==
  [c \in Cell |-> IF c[1] = key /\ c[2] \in a .. a + size - 1
                  THEN field(v, (c[2] - a) * B, (c[2] - a + 1) * B) ELSE mem[c]]
Aligned(a, size) == a % size = 0

ST(i) == [e |-> imm64(i), v |-> low(i, W)]
STX == [e |-> reg, v |-> mreg]
Stored == {STX} \cup {ST(i) : i \in Imms}

-----------------------------------------------------------------------------
(* The stack: slots of a register each, the first one just under r10. *)

slot_idx(a) == -(a \div 8) - 1
slot_off(a) == a % 8
mask(bytes) == 2^(bytes * B) - 1
binary(op, d, s) == ALUbinary(op, d, s, 8, FALSE)

\* Faulty variant: the bytes kept are those of the low end of the slot.
keep_unshifted(off, size) == Num(mask(8) - mask(size), 8)

keep(off, size) == Num(mask(8) - mask(size) * 2^(off * B), 8)

stk_store(a, size, value) ==
  LET at   == slot_idx(a) + 1
      off  == slot_off(a)
      cells == [i \in 1 .. Max({Len(stk), at}) |-> IF i \in DOMAIN stk THEN stk[i] ELSE None]
      cut  == IF size < 8 THEN binary("AND", value, Num(mask(size), 8)) ELSE value
      new  == IF off # 0 THEN binary("LSH", cut, Num(off * B, 8)) ELSE cut
      old  == cells[at]
  IN  [cells EXCEPT ![at] = IF old = None \/ (off = 0 /\ size >= 8) THEN new
                            ELSE binary("OR", binary("AND", old, keep(off, size)), new)]

\* The k-th slot that a load from slot i on covers: addresses grow downwards.
chunk(i, k) == i - k

stk_load(a, size) ==
  LET i   == slot_idx(a)
      off == slot_off(a)
      slot(j) == IF j + 1 \in DOMAIN stk /\ stk[j + 1] # None THEN stk[j + 1] ELSE Num(0, 8)
      num_slots == (off + size + 7) \div 8
      s   == stk[i + 1]
  IN  IF off + size > 8 THEN ByteSeq([k \in 1 .. num_slots |-> slot(chunk(i, k - 1))], size, off)
      ELSE IF off # 0 THEN ByteSeq(<<s>>, size, off)
      ELSE IF size >= s.size THEN s
      ELSE binary("AND", s, Num(mask(size), size))

Readable(a, size) == {"stk"} \X (a .. a + size - 1) \subseteq defined

StkStore(a, size, s) ==
  /\ stk' = stk_store(a, size, s.e)
  /\ mem' = poke("stk", a, size, s.v)
  /\ defined' = defined \cup ({"stk"} \X (a .. a + size - 1))
  /\ UNCHANGED <<reg, mreg, sigma, writes>>

StkLoad(a, size) ==
  /\ Readable(a, size)
  /\ reg' = stk_load(a, size)
  /\ mreg' = peek("stk", a, size)
  /\ UNCHANGED <<mem, defined, stk, sigma, writes>>

\* Faulty variant: the value after the update is fetched.
fetched_new(old, new) == new

\* A fetch gives the register the value before the update.
fetched(old, new) == old

\* _atomic_stack: the operation, or an exchange; fetch returns the old value.
AtomicStack(op, a, size, fetch) ==
  LET old == stk_load(a, size)
      was == peek("stk", a, size)
      sum == CASE op = "ADD" -> was + mreg
               [] op = "XCHG" -> mreg
               [] OTHER -> bitwise(op, was, mreg, W)
      new == IF op = "XCHG" THEN reg ELSE expr_alu(old, reg, op, size, FALSE)
  IN  /\ size \in {4, 8} /\ Readable(a, size) /\ (op = "XCHG" => fetch)
      /\ stk' = stk_store(a, size, new)
      /\ mem' = poke("stk", a, size, sum)
      /\ IF fetch THEN reg' = fetched(old, new) /\ mreg' = was ELSE UNCHANGED <<reg, mreg>>
      /\ UNCHANGED <<defined, sigma, writes>>

-----------------------------------------------------------------------------
(* Map values: one bit-vector of V bytes under each key. *)

_splice_bytes(cur, off, size, v) ==
  LET lo == off * B
      hi == Min({(off + size) * B, V * B})
  IN  IF lo >= V * B THEN cur
      ELSE field(cur, hi, V * B) * 2^hi + low(v, hi - lo) * 2^lo + low(cur, lo)

_extract_bytes_var(cur, off, size) == low(cur \div 2^Min({off * B, V * B}), size * B)

\* Faulty variant: the old bytes are not cleared before the new are put in.
_splice_bytes_var_or(cur, off, size, v) == bitwise("OR", cur, low(v, size * B) * 2^(off * B), V * B)

_splice_bytes_var(cur, off, size, v) ==
  LET m == low(mask(size) * 2^(off * B), V * B)
      patched == bitwise("AND", low(v * 2^(off * B), V * B), m, V * B)
  IN  bitwise("OR", bitwise("AND", cur, mask(V) - m, V * B), patched, V * B)

\* A map_val or bss_val at an offset that may hold an expression in var_off.
map_read(k, vo, off, size) ==
  LET cur == sigma.map[keyval(k)]
  IN  IF vo # None THEN _extract_bytes_var(cur, vo + off, size)
      ELSE field(cur, off * B, (off + size) * B)

\* MapWrite, and MapAtomicAdd when add.
map_store(k, vo, off, size, v, add) ==
  LET cur == sigma.map[keyval(k)]
      new == IF add THEN low(map_read(k, vo, off, size) + v, size * B) ELSE v
  IN  [sigma EXCEPT !.map[keyval(k)] =
         IF vo # None THEN _splice_bytes_var(cur, vo + off, size, new)
         ELSE _splice_bytes(cur, off, size, new)]

\* PktWrite and BssWrite store byte by byte; BssAtomicAdd writes a sum of
\* expressions, whose term has a width of its own.
bss_read(base, size) == Pack(LAMBDA i : sigma.bss[base + i], size)
bss_store(base, size, e, add) ==
  LET old == Expr(size, Term(size * B, bss_read(base, size), FALSE), None)
      v == low(ValueOf(IF add THEN ALUbinary("ADD", old, e, size, FALSE) ELSE e), size * B)
  IN  [sigma EXCEPT !.bss = [i \in DOMAIN @ |-> IF i \in base .. base + size - 1
                                THEN field(v, (i - base) * B, (i - base + 1) * B) ELSE @[i]]]

-----------------------------------------------------------------------------
(* Memory: a byte is its initial value under the writes that may alias it. *)

is_const(k) == k # "x"
may_alias(loc, w) ==
  /\ ~(is_const(loc.key) /\ is_const(w.key) /\ loc.key # w.key)
  /\ loc.off < w.off + w.size /\ w.off < loc.off + 1

\* Faulty variant: a key in a register is taken for any key it may alias.
write_guard_any(loc, w) == TRUE

write_guard(loc, w) ==
  (is_const(loc.key) /\ is_const(w.key)) \/ loc.key = w.key \/ keyval(loc.key) = keyval(w.key)

written_byte(w, off) ==
  LET v == low(w.v, w.size * B)
      val == IF w.old = None THEN v ELSE low(w.old + v, w.size * B)
  IN  field(val, (off - w.off) * B, (off - w.off + 1) * B)

fold_byte(key, off) ==
  LET loc == [key |-> key, off |-> off]
      term[i \in 0 .. Len(writes)] ==
        IF i = 0 THEN init[<<keyval(key), off>>]
        ELSE IF may_alias(loc, writes[i]) /\ write_guard(loc, writes[i])
             THEN written_byte(writes[i], off) ELSE term[i-1]
  IN  term[Len(writes)]

fold_read(key, off, size) == Pack(LAMBDA i : fold_byte(key, off + i), size)

-----------------------------------------------------------------------------
(* Loads and stores through a pointer to a map value or a global.  vo is   *)
(* the value of the pointer's var_off, or None.                            *)

address(vo, off) == (IF vo = None THEN 0 ELSE vo) + off
Access(vo, off, size) ==
  /\ fold => vo = None
  /\ Aligned(address(vo, off), size) /\ address(vo, off) + size <= V
home(k) == IF where = "map" THEN keyval(k) ELSE "bss"

\* The encoding a load reads: the fold or the state.
leaf_value(k, vo, off, size) ==
  IF fold THEN fold_read(k, off, size)
  ELSE IF where = "map" THEN map_read(k, vo, off, size)
  ELSE bss_read(address(vo, off), size)

LoadVal(k, vo, off, size) ==
  /\ Access(vo, off, size)
  /\ reg' = Expr(size, Term(size * B, leaf_value(k, vo, off, size), FALSE), None)
  /\ mreg' = peek(home(k), address(vo, off), size)
  /\ UNCHANGED <<mem, defined, stk, sigma, writes>>

\* track_store on MEM and, when add, on ATOMIC with or without fetch.
StoreVal(k, vo, off, size, s, add, fetch) ==
  LET a == address(vo, off)
      old == peek(home(k), a, size)
  IN  /\ Access(vo, off, size)
      /\ add => size \in {4, 8} /\ s = STX
      /\ fetch => add
      /\ mem' = poke(home(k), a, size, IF add THEN old + s.v ELSE s.v)
      /\ sigma' = IF fold THEN sigma
                  ELSE IF where = "map" THEN map_store(k, vo, off, size, ValueOf(s.e), add)
                  ELSE bss_store(a, size, s.e, add)
      /\ writes' = IF ~fold THEN writes
                   ELSE Append(writes, [key |-> k, off |-> off, size |-> size, v |-> ValueOf(s.e),
                                 old |-> IF add THEN leaf_value(k, vo, off, size) ELSE None])
      /\ IF fetch
         THEN /\ reg' = Expr(size, Term(size * B, leaf_value(k, vo, off, size), FALSE), None)
              /\ mreg' = old
         ELSE UNCHANGED <<reg, mreg>>
      /\ UNCHANGED <<defined, stk>>

StackOp ==
  /\ where = "stk"
  /\ \E a \in Addrs, size \in Sizes :
       /\ Aligned(a, size) /\ a + size <= 0
       /\ \/ \E s \in Stored : StkStore(a, size, s)
          \/ StkLoad(a, size)
          \/ \E op \in {"ADD", "OR", "AND", "XOR", "XCHG"}, fetch \in BOOLEAN :
               AtomicStack(op, a, size, fetch)

ValueOp ==
  /\ where # "stk"
  /\ \E k \in IF where = "map" THEN KeyExpr ELSE {"bss"}, vo \in {None, 1, 4},
        off \in Offs, size \in Sizes :
       \/ LoadVal(k, vo, off, size)
       \/ \E s \in Stored, add, fetch \in BOOLEAN : StoreVal(k, vo, off, size, s, add, fetch)

Init ==
  /\ where \in {"stk", "map", "bss"}
  /\ x \in IF where = "map" THEN Keys ELSE {CHOOSE k \in Keys : TRUE}
  /\ mem = [c \in Cell |-> IF c[1] \in Keys THEN c[2] % 2 ELSE 0]
  /\ init = mem
  /\ defined = {c \in Cell : c[1] # "stk"}
  /\ reg \in Sources /\ mreg = ValueOf(reg)
  /\ stk = << >> /\ writes = << >> /\ n = 0
  /\ fold \in IF where = "stk" THEN {FALSE} ELSE BOOLEAN
  /\ sigma = [map |-> [k \in Keys |-> peek(k, 0, V)], bss |-> [i \in 0 .. V-1 |-> mem[<<"bss", i>>]]]

Next ==
  /\ n < MaxOps
  /\ n' = n + 1
  /\ UNCHANGED <<where, x, init, fold>>
  /\ StackOp \/ ValueOp

Spec == Init /\ [][Next]_vars

-----------------------------------------------------------------------------
(* The slots and masks of the stack hold its bytes: any load of initialised *)
(* bytes, also one that crosses slots as a map key may, has their value.    *)
StackExact ==
  \A a \in Addrs, size \in {1, 2, 4, 8, 12} :
    (where = "stk" /\ a + size <= 0 /\ Readable(a, size))
      => ValueOf(stk_load(a, size)) = peek("stk", a, size)

(* The state encoding: after any writes and atomic adds, at constant and   *)
(* variable offsets, the map's values and the object are the machine's.    *)
SigmaExact ==
  ~fold => /\ \A k \in Keys : sigma.map[k] = peek(k, 0, V)
           /\ \A i \in 0 .. V-1 : sigma.bss[i] = mem[<<"bss", i>>]

(* The fold gives the same bytes as the machine wherever it applies: the   *)
(* last aliasing write wins, whichever of constant and computed keys name  *)
(* the entry, and an atomic add sees the write before it.                  *)
FoldExact ==
  fold => \A k \in (IF where = "map" THEN KeyExpr ELSE {"bss"}), i \in 0 .. V-1 :
            where # "stk" => fold_byte(k, i) = mem[<<home(k), i>>]

(* A register loaded from any of them holds what the machine loaded, so    *)
(* that an old value fetched by an atomic is the value before the update.  *)
LoadExact == ValueOf(reg) = mreg
=============================================================================
