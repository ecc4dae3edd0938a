------------------------------ MODULE RustInts ------------------------------
(***************************************************************************)
(* The integer operations of the contracts, where they differ from those   *)
(* of TLA+.  The workspace is built with overflow-checks, so an i128 that  *)
(* overflows aborts and reverts the transaction; amounts carry 7 decimals  *)
(* and stay far below 2^127, so the width itself is not modelled.          *)
(***************************************************************************)
EXTENDS Integers

\* The `/` of i128: it truncates toward zero, while \div rounds down.  The
\* divisor is positive everywhere the contracts divide.
Quot(a, b) == IF a >= 0 THEN a \div b ELSE -((-a) \div b)

\* u64::saturating_sub, applied to ledger timestamps.
SaturatingSub(a, b) == IF a > b THEN a - b ELSE 0
=============================================================================
