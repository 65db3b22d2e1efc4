--------------------------------- MODULE Scalar ---------------------------------
(***************************************************************************)
(* One straight-line run of ALU instructions: the machine's registers      *)
(* beside the expressions Tracker.track_alu (track/tracker.py) keeps for   *)
(* them.  Register d is written, register s only read.                     *)
(***************************************************************************)
EXTENDS Bits

CONSTANTS EINVAL,   \* what a failed bpf_xdp_adjust_* returns, negated
          Leaves,   \* the values the inputs of a program take
          Imms,     \* immediates, and constants of LDDW
          NumMax    \* bound on a folded constant, which Python leaves unmasked

ASSUME ScalarAssumption == EINVAL \in 1..(2^(H-1) - 1) /\ NumMax \in Nat

VARIABLES regs,   \* Block.regs: the expressions of d and s
          mach    \* what the machine's registers hold
vars == <<regs, mach>>

Reg == {"d", "s"}
Src == [is : {"imm"}, n : Imms] \cup [is : {"reg"}, r : Reg]
Codes == {"JEQ", "JNE", "JGT", "JGE", "JLT", "JLE", "JSGT", "JSGE", "JSLT", "JSLE", "JSET"}

-----------------------------------------------------------------------------
(* The machine: the instruction set's own definitions.                     *)

quotient(x, y) == IF (x < 0) = (y < 0) THEN abs(x) \div abs(y) ELSE -(abs(x) \div abs(y))

\* A binary operation on registers of w bits; the rest of the result is zero.
machine_alu(op, a, b, w, sgn) ==
  LET x == IF sgn THEN signed(a, w) ELSE low(a, w)
      y == IF sgn THEN signed(b, w) ELSE low(b, w)
      k == b % w
      ones(on(_)) == MapThenSumSet(LAMBDA i : 2^i, {i \in 0..(w-1) : on(i)})
  IN  CASE op = "ADD"  -> low(x + y, w)
        [] op = "SUB"  -> low(x - y, w)
        [] op = "MUL"  -> low(x * y, w)
        [] op = "DIV"  -> IF y = 0 THEN 0 ELSE low(quotient(x, y), w)
        [] op = "MOD"  -> IF y = 0 THEN low(x, w) ELSE low(x - y * quotient(x, y), w)
        [] op = "OR"   -> ones(LAMBDA i : bit(a, i) = 1 \/ bit(b, i) = 1)
        [] op = "AND"  -> ones(LAMBDA i : bit(a, i) = 1 /\ bit(b, i) = 1)
        [] op = "XOR"  -> ones(LAMBDA i : bit(a, i) # bit(b, i))
        [] op = "LSH"  -> ones(LAMBDA i : i >= k /\ bit(a, i - k) = 1)
        [] op = "RSH"  -> ones(LAMBDA i : i + k < w /\ bit(a, i + k) = 1)
        [] op = "ARSH" -> ones(LAMBDA i : bit(a, Min({i + k, w - 1})) = 1)

compare(code, a, b, w) ==
  CASE code = "JEQ"  -> a = b
    [] code = "JNE"  -> a # b
    [] code = "JGT"  -> a > b
    [] code = "JGE"  -> a >= b
    [] code = "JLT"  -> a < b
    [] code = "JLE"  -> a <= b
    [] code = "JSGT" -> signed(a, w) > signed(b, w)
    [] code = "JSGE" -> signed(a, w) >= signed(b, w)
    [] code = "JSLT" -> signed(a, w) < signed(b, w)
    [] code = "JSLE" -> signed(a, w) <= signed(b, w)
    [] code = "JSET" -> \E i \in 0..(w-1) : bit(a, i) = 1 /\ bit(b, i) = 1

\* An immediate is sign-extended to the register.
operand(x) == IF x.is = "imm" THEN low(x.n, W) ELSE mach[x.r]
taken(code, x, w) == compare(code, low(mach.d, w), low(operand(x), w), w)

-----------------------------------------------------------------------------
(* The inputs an expression starts from. *)

leaf(n, v) == Expr(n, Term(n * B, v, FALSE), None)
\* ingress_ifindex and its like: four bytes in a term of a whole register.  The
\* solver may choose a value that needs more than four bytes, which no run starts
\* with (encode.py, _make_init_state); Inputs leaves these out.
ctx_leaf(v) == Expr(4, Term(W, v, FALSE), None)
\* The func_retval of bpf_xdp_adjust_head, under one outcome of the call.
adjust_ret(v) == Expr(8, Term(W, v, FALSE), v)

Inputs(ret) ==
  {e \in {leaf(n, v) : n \in {1, 2, 4, 8}, v \in Leaves} \cup {ctx_leaf(v) : v \in Leaves} :
     e.term.v < 2^(e.size * B)}
  \cup {adjust_ret(ret)} \cup {Num(n, 8) : n \in Imms}

Init ==
  /\ \E ret \in {0, 2^W - EINVAL} : regs \in [Reg -> Inputs(ret)]
  /\ mach = [r \in Reg |-> ValueOf(regs[r])]

-----------------------------------------------------------------------------
(* track_alu, and LDDW of track_load: the new expression of d, and beside  *)
(* it the value the instruction gives the register.                        *)

source(x, size) ==
  IF x.is = "reg" THEN regs[x.r] ELSE IF size = 8 THEN imm64(x.n) ELSE Num(x.n, 4)

Write(e, v) ==
  /\ is_num(e) => abs(e.n) <= NumMax
  /\ regs' = [regs EXCEPT !.d = e]
  /\ mach' = [mach EXCEPT !.d = v]

Alu(op, x, size, sgn) ==
  LET s == source(x, size)
      e == expr_alu(regs.d, s, op, size, sgn)
  IN  /\ sgn => op \in {"DIV", "MOD"}
      /\ Write(IF size = 4 /\ is_noop(op, regs.d, s) THEN trunc32(e) ELSE e,
               machine_alu(op, mach.d, operand(x), size * B, sgn))

Mov(x, size) ==
  Write(IF size = 8 THEN source(x, size) ELSE trunc32(source(x, size)), low(operand(x), size * B))

MovSx(r, n, size) ==
  /\ n < size
  /\ Write(sext(regs[r], n, size), low(signed(mach[r], n * B), size * B))

Neg(size) == Write(neg(regs.d, size), low(-mach.d, size * B))

End(n, swapped) ==
  Write(byte_swap(regs.d, n, swapped),
        IF swapped THEN MapThenSumSet(LAMBDA i : 2^i,
                          {i \in 0..(n * B - 1) : bit(mach.d, (n - 1 - i \div B) * B + (i % B)) = 1})
        ELSE low(mach.d, n * B))

Lddw(n) == Write(Num(low(n, W), 8), low(n, W))

\* A join: constants that agree stay, anything else is a JoinValue.
Join == Write(IF is_num(regs.d) THEN regs.d ELSE leaf(8, mach.d), mach.d)

Next ==
  \/ \E op \in Binary, x \in Src, size \in {4, 8}, sgn \in BOOLEAN : Alu(op, x, size, sgn)
  \/ \E x \in Src, size \in {4, 8} : Mov(x, size)
  \/ \E r \in Reg, n \in {1, 2, 4}, size \in {4, 8} : MovSx(r, n, size)
  \/ \E size \in {4, 8} : Neg(size)
  \/ \E n \in {2, 4, 8}, swapped \in BOOLEAN : End(n, swapped)
  \/ \E n \in Imms : Lddw(n)
  \/ Join

Spec == Init /\ [][Next]_vars

-----------------------------------------------------------------------------
(* track_branch: the condition it leaves for the encoder, and the verdict  *)
(* it reaches itself on a test of an adjust result.                        *)

branch_source(x, jmp32) ==
  IF x.is = "reg" THEN regs[x.r] ELSE IF jmp32 THEN Num(low(x.n, H), 4) ELSE imm64(x.n)

\* Faulty variant: a signed comparison is made in the width of its operands.
condition_width_narrow(code, d, s, jmp32) == IF jmp32 THEN H ELSE Max({d.w, s.w})

condition_width(code, d, s, jmp32) ==
  IF jmp32 THEN H
  ELSE IF code \in {"JSGT", "JSGE", "JSLT", "JSLE"} THEN Max({d.w, s.w, W})
  ELSE Max({d.w, s.w})

\* Condition.to_z3.
to_z3(code, dst, src, jmp32) ==
  LET d == expr_to_z3(dst)
      s == expr_to_z3(src)
      w == condition_width(code, d, s, jmp32)
  IN  compare(code, resize(d, w).v, resize(s, w).v, w)

\* Faulty variant: a 32-bit jump compares whole registers.
_jmp_taken_wide(code, a, b, jmp32) == compare(code, a, b, W)

_jmp_taken(code, a, b, jmp32) ==
  LET w == IF jmp32 THEN H ELSE W IN compare(code, low(a, w), low(b, w), w)

-----------------------------------------------------------------------------
(* The encoder's narrow widths never lose a carry, a sign or a high half:  *)
(* the term of a tracked register, zero-extended as every reader of it     *)
(* does, is the value the register has.                                    *)
ValueExact == \A r \in Reg : ValueOf(regs[r]) = mach[r]

(* A branch condition that reaches the solver is true exactly when the     *)
(* machine takes the branch, whatever widths its two sides came out with.  *)
CondExact ==
  \A code \in Codes, x \in Src, jmp32 \in BOOLEAN :
    to_z3(code, regs.d, branch_source(x, jmp32), jmp32) = taken(code, x, IF jmp32 THEN H ELSE W)

(* What track_branch folds for an adjust result is what the machine        *)
(* computes from it, and so is the side of the branch it infers.           *)
EvalExact ==
  /\ _eval_at(regs.d) \in {None, mach.d}
  /\ \A code \in Codes, x \in Src, jmp32 \in BOOLEAN :
       LET b == _eval_at(branch_source(x, jmp32)) IN
       None \notin {_eval_at(regs.d), b}
         => _jmp_taken(code, _eval_at(regs.d), b, jmp32) = taken(code, x, IF jmp32 THEN H ELSE W)
=============================================================================
