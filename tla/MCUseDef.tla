------------------------------ MODULE MCUseDef ------------------------------
(* UseDef with two instructions of up to two operands each and a constant,  *)
(* so that an instruction can use itself (a phi), another one twice, and    *)
(* both can use one value.                                                  *)
EXTENDS UseDef

CONSTANTS x, y, c
=============================================================================
