-------------------------- MODULE MCNumberRounding --------------------------
EXTENDS NumberRounding

(* Two-digit mantissas: the boundaries, their neighbours, and the digits   *)
(* around a half.                                                          *)
MCMantissas == {10, 11, 14, 15, 16, 25, 44, 45, 46, 50, 55, 89, 90, 95, 98, 99}
MCExponents == -4..0
MCMinExponent == -20
=============================================================================
