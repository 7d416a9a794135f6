------------------------------ MODULE Numbers ------------------------------
(***************************************************************************)
(* C arithmetic on integers: the operators, truncating division; and the   *)
(* types and constants of the LLVM text codegen writes, and the types and  *)
(* the header of a wasm module.                                            *)
(***************************************************************************)
EXTENDS Integers, Sequences

CONSTANT Bits   \* width of an integer type -> bits the instance keeps of it

Arithmetic == {"+", "-", "*", "/", "%"}
Comparing == {"==", "!=", "<", "<=", ">", ">="}
Flag(b) == IF b THEN 1 ELSE 0
Quot(a, b) == IF (a < 0) = (b < 0) THEN (IF a < 0 THEN -a ELSE a) \div (IF b < 0 THEN -b ELSE b)
              ELSE -((IF a < 0 THEN -a ELSE a) \div (IF b < 0 THEN -b ELSE b))
Rem(a, b) == a - Quot(a, b) * b
Compared(op, a, b) ==
    Flag(CASE op = "==" -> a = b [] op = "!=" -> a # b [] op = "<" -> a < b
           [] op = "<=" -> a <= b [] op = ">" -> a > b [] op = ">=" -> a >= b)
Calculated(op, a, b) ==
    CASE op = "+" -> a + b [] op = "-" -> a - b [] op = "*" -> a * b [] op = "/" -> Quot(a, b) [] op = "%" -> Rem(a, b)

I(w) == <<"i", w>>
I32 == I(32)
I64 == I(64)
F32 == <<"float">>
Ptr == <<"ptr">>
Const(v) == <<"const", v>>

WT_I32 == \h7f
WT_F64 == \h7c
Header == <<0, \h61, \h73, \h6d, 1, 0, 0, 0>>
=============================================================================
