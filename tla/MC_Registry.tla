----------------------------- MODULE MC_Registry -----------------------------
(* Model values for Registry: a TOTP and a FIDO authenticator in server   *)
(* order, and one display name besides "".                                 *)
EXTENDS Registry, TLC

CONSTANTS a1, a2, n1

MC_Order == <<a1, a2>>
MC_Names == {n1}
MC_Kind == (a1 :> "TOTP") @@ (a2 :> "FIDO")
=============================================================================
