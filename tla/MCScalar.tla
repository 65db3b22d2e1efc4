-------------------------------- MODULE MCScalar --------------------------------
(***************************************************************************)
(* Scalar with one-bit bytes: registers of 8 bits, words of 4, so that     *)
(* every value of the narrow leaves is an input and rounding a width up to *)
(* whole bytes hides nothing.                                              *)
(***************************************************************************)
EXTENDS Scalar

MCLeaves == {1, 9, 200}
MCImms == {-8, -1, 0, 3}
=============================================================================
