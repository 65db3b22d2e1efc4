------------------------------- MODULE MCByteMem -------------------------------
(***************************************************************************)
(* ByteMem with one-bit bytes: two stack slots, two map entries of eight   *)
(* bytes, and a register of each of the widths a program can bring.        *)
(***************************************************************************)
EXTENDS ByteMem

MCAddrs == {-16, -12, -9, -8, -7, -4}
MCImms == {-1}
MCSources == {Expr(8, Term(8, 165, FALSE), None), Expr(4, Term(4, 9, FALSE), None)}
=============================================================================
