--------------------------- MODULE TwosComplement ---------------------------
(***************************************************************************)
(* The signed integers of a C++ build, from -(max + 1) to max: what        *)
(* static_cast makes of a number that is not one of them, and what the     *)
(* machine's arithmetic leaves of a result that is not.                    *)
(***************************************************************************)
EXTENDS Integers

Signed(max) == -(max + 1) .. max
Modulus(max) == 2 * (max + 1)

ToSigned(n, max) ==
    LET bits == n % Modulus(max)
    IN  IF bits <= max THEN bits ELSE bits - Modulus(max)
=============================================================================
