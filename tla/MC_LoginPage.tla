---------------------------- MODULE MC_LoginPage ----------------------------
(* Model values for LoginPage: two identity providers, passkey login on,   *)
(* and queries of up to three parameters over two keys.                    *)
EXTENDS LoginPage, TLC

CONSTANTS p1, p2

MC_Providers == {p1, p2}
MC_Keys == {"error", "state"}
MC_Symmetry == Permutations(MC_Providers)
=============================================================================
