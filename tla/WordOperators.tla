---------------------------- MODULE WordOperators ----------------------------
(***************************************************************************)
(* The operators ^, | and & of C++ on numbers that are not negative, for   *)
(* the constants of the instances.                                         *)
(***************************************************************************)
LOCAL INSTANCE Bitwise

BitXor(a, b) == a ^^ b
BitOr(a, b)  == a | b
BitAnd(a, b) == a & b

=============================================================================
