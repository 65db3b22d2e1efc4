---------------------------------- MODULE Bits ----------------------------------
(***************************************************************************)
(* Scalar expressions (track/expr.py), the constant folding of             *)
(* bpf/constants.py and the bit-vector terms of track/encode.py.           *)
(*                                                                         *)
(* A byte has B bits, so that a register has 8 * B and the sizes 1, 2, 4   *)
(* and 8 of the code keep their meaning.  A z3 term is its width, its      *)
(* value under one valuation of the program's inputs, and whether it is a  *)
(* literal, which the encoder asks with is_bv_value.  An expression is     *)
(* what the tracker and the encoder can tell of it: its size attribute,    *)
(* its term, and what _eval_at makes of it.                                *)
(***************************************************************************)
EXTENDS Integers, FiniteSetsExt

CONSTANTS B,     \* bits of a byte: 8 in the code
          None   \* Python's None

ASSUME BAssumption == B \in Nat \ {0}

W == 8 * B   \* the code's 64
H == 4 * B   \* the code's 32

Shift == {"LSH", "RSH", "ARSH"}
Binary == {"ADD", "SUB", "MUL", "DIV", "MOD", "OR", "AND", "XOR"} \cup Shift

low(n, w) == n % 2^w
signed(n, w) == IF low(n, w) >= 2^(w-1) THEN low(n, w) - 2^w ELSE low(n, w)
bit(n, i) == (n \div 2^i) % 2
abs(n) == IF n < 0 THEN -n ELSE n
bit_length(n) == Min({k \in 0..W : n < 2^k})

\* The bits lo .. hi - 1 of n.
field(n, lo, hi) == low(n \div 2^lo, hi - lo)

bitwise(op, a, b, w) ==
  LET keep(i) == CASE op = "OR"  -> bit(a, i) + bit(b, i) > 0
                   [] op = "AND" -> bit(a, i) + bit(b, i) = 2
                   [] op = "XOR" -> bit(a, i) # bit(b, i)
  IN  MapThenSumSet(LAMBDA i : 2^i, {i \in 0..(w-1) : keep(i)})

\* The n bytes of v in the opposite order.
swap(v, n) == MapThenSumSet(LAMBDA i : field(v, i * B, (i+1) * B) * 2^(B * (n-1-i)), 0..(n-1))

-----------------------------------------------------------------------------
(* bpf/constants.py: arith, on Python integers of at most PyBits bits. *)

PyBits == 2 * W + 2

divide(op, dst, src, bits, sgn) ==
  LET a == low(dst, bits)      b == low(src, bits)
      sa == signed(dst, bits)  sb == signed(src, bits)
      mag == IF op = "DIV" THEN abs(sa) \div abs(sb) ELSE abs(sa) % abs(sb)
      neg == IF op = "DIV" THEN (sa < 0) # (sb < 0) ELSE sa < 0
  IN  IF b = 0 THEN (IF op = "DIV" THEN 0 ELSE a)
      ELSE IF ~sgn THEN (IF op = "DIV" THEN a \div b ELSE a % b)
      ELSE low(IF neg THEN -mag ELSE mag, bits)

shift(op, dst, src, bits) ==
  LET amt == src % bits
  IN  CASE op = "LSH"  -> low(low(dst, bits) * 2^amt, bits)
        [] op = "RSH"  -> low(dst, bits) \div 2^amt
        [] op = "ARSH" -> low(signed(dst, bits) \div 2^amt, bits)

\* 64-bit results other than shifts and quotients are not masked.
unmasked(op, a, b) ==
  CASE op = "ADD" -> a + b
    [] op = "SUB" -> a - b
    [] op = "MUL" -> a * b
    [] OTHER -> signed(bitwise(op, a, b, PyBits), PyBits)

arith(op, dst, src, bits, sgn) ==
  CASE op \in Shift -> shift(op, dst, src, bits)
    [] op \in {"DIV", "MOD"} -> divide(op, dst, src, bits, sgn)
    [] bits = H /\ op \notin Shift \cup {"DIV", "MOD"} -> low(unmasked(op, low(dst, H), low(src, H)), H)
    [] OTHER -> unmasked(op, dst, src)

-----------------------------------------------------------------------------
(* z3 terms. *)

Term(w, v, lit) == [w |-> w, v |-> v, lit |-> lit]

\* _resize: Extract, or Concat with zeros; either leaves no literal.
resize(t, w) == IF t.w = w THEN t ELSE Term(w, low(t.v, w), FALSE)

bits_used(t) == IF t.lit THEN Max({bit_length(t.v), 1}) ELSE t.w

\* The least multiple of a byte, one at least and a register at most.
byte_width(bits) == Min({W, Max({B, ((bits + B - 1) \div B) * B})})

\* Faulty variant: a sum gets no room for its carry.
alu64_width_no_carry(op, d, s) ==
  byte_width(CASE op = "ADD" -> Max({bits_used(d), bits_used(s)})
               [] op = "MUL" -> bits_used(d) + bits_used(s)
               [] op = "LSH" /\ s.lit -> bits_used(d) + s.v
               [] op = "SUB" \/ (op = "LSH" /\ ~s.lit) -> W
               [] OTHER -> Max({d.w, s.w}))

\* The width a 64-bit operation is encoded in: what its result may need.
alu64_width(op, d, s) ==
  byte_width(CASE op = "ADD" -> Max({bits_used(d), bits_used(s)}) + 1
               [] op = "MUL" -> bits_used(d) + bits_used(s)
               [] op = "LSH" /\ s.lit -> bits_used(d) + s.v
               [] op = "SUB" \/ (op = "LSH" /\ ~s.lit) -> W
               [] OTHER -> Max({d.w, s.w}))

\* A bit-vector operation on two values of w bits.
bv(op, a, b, w, sgn) ==
  CASE op = "LSH"  -> IF b >= w THEN 0 ELSE low(a * 2^b, w)
    [] op = "RSH"  -> IF b >= w THEN 0 ELSE a \div 2^b
    [] op = "ARSH" -> low(signed(a, w) \div 2^Min({b, w}), w)
    [] op \in {"DIV", "MOD"} -> divide(op, a, b, w, sgn)
    [] OTHER -> low(unmasked(op, a, b), w)

\* A shift amount: its low 5 or 6 bits, of which a literal stays one.
shift_amount(s, size) ==
  LET bits == bit_length(size * B - 1)
  IN  IF s.lit THEN Term(bits, low(s.v, bits), TRUE) ELSE Term(bits, low(resize(s, W).v, bits), FALSE)

\* expr_to_z3 on an ALUbinary; ARSH is logical in a width that leaves the sign
\* bit of the register out.
encode_binary(op, dst, src, size, sgn) ==
  LET s == IF op \in Shift THEN shift_amount(src, size) ELSE src
      w == IF size = 4 THEN H ELSE IF sgn THEN W ELSE alu64_width(op, dst, s)
      o == IF op = "ARSH" /\ w # size * B THEN "RSH" ELSE op
  IN  Term(w, bv(o, resize(dst, w).v, resize(s, w).v, w, sgn), FALSE)

-----------------------------------------------------------------------------
(* Expressions.  at is _eval_at's value for the adjust result of the run,  *)
(* None where the expression has another leaf or an operation it skips.    *)

Expr(size, t, at) == [is |-> "expr", size |-> size, term |-> t, at |-> at]
Num(n, size) == [is |-> "num", size |-> size, n |-> n]
is_num(e) == e.is = "num"

expr_to_z3(e) == IF is_num(e) THEN Term(e.size * B, low(e.n, e.size * B), TRUE) ELSE e.term
\* What the term of e is worth as a register.
ValueOf(e) == expr_to_z3(e).v

_eval_at(e) == IF is_num(e) THEN low(e.n, W) ELSE e.at

ALUbinary(op, d, s, size, sgn) ==
  Expr(size, encode_binary(op, expr_to_z3(d), expr_to_z3(s), size, sgn),
       IF None \in {_eval_at(d), _eval_at(s)} THEN None
       ELSE low(arith(op, _eval_at(d), _eval_at(s), size * B, sgn), W))

imm64(imm) == Num(imm, IF imm >= 0 THEN 4 ELSE 8)

\* x + 0 and x - 0 are x itself.
is_noop(op, d, s) == op \in {"ADD", "SUB"} /\ ~is_num(d) /\ is_num(s) /\ s.n = 0

expr_alu(d, s, op, size, sgn) ==
  IF is_num(d) /\ is_num(s) THEN Num(arith(op, d.n, s.n, size * B, sgn), size)
  ELSE IF is_noop(op, d, s) THEN d
  ELSE ALUbinary(op, d, s, size, sgn)

trunc32(e) ==
  IF is_num(e) THEN Num(low(e.n, H), 4)
  ELSE IF e.size <= 4 THEN e
  ELSE ALUbinary("AND", e, Num(2^H - 1, 4), 4, FALSE)

\* ALUunary MOV on `bytes` bytes of e.
sext(e, bytes, size) ==
  LET from(n) == signed(n, bytes * B)
      t == expr_to_z3(e)
  IN  IF is_num(e) THEN Num(IF size = 4 THEN low(from(e.n), H) ELSE from(e.n), size)
      ELSE Expr(size, Term(size * B, low(from(resize(t, W).v), size * B), FALSE),
                IF _eval_at(e) = None THEN None ELSE low(from(_eval_at(e)), size * B))

neg(e, size) ==
  IF is_num(e) THEN Num(IF size = 4 THEN low(-e.n, H) ELSE -e.n, size)
  ELSE Expr(size, Term(size * B, low(-resize(expr_to_z3(e), size * B).v, size * B), FALSE), None)

\* ALUunary END on n bytes; swapped is FALSE for the little-endian form.
byte_swap(e, n, swapped) ==
  LET v == low(resize(expr_to_z3(e), W).v, n * B)
  IN  Expr(n, Term(n * B, IF swapped THEN swap(v, n) ELSE v, FALSE), None)

\* ByteSeq: the 64-bit cells, the first one lowest, from byte off on.
ByteSeq(cells, size, off) ==
  LET whole == MapThenSumSet(LAMBDA k : ValueOf(cells[k]) * 2^(W * (k-1)), DOMAIN cells)
  IN  Expr(size, Term(size * B, field(whole, off * B, (off + size) * B), FALSE), None)
=============================================================================
