----------------------------- MODULE Saturating -----------------------------
(***************************************************************************)
(* The saturating arithmetic of Rust's u64, on naturals.  The width is a   *)
(* constant, so that small instances reach saturation.                     *)
(***************************************************************************)
EXTENDS Integers

CONSTANT U64Max   \* u64::MAX

Lesser(a, b) == IF a <= b THEN a ELSE b

SaturatingAdd(a, b) == Lesser(a + b, U64Max)

SaturatingMul(a, b) == Lesser(a * b, U64Max)

SaturatingSub(a, b) == IF b <= a THEN a - b ELSE 0
=============================================================================
