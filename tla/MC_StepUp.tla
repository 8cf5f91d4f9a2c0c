------------------------------ MODULE MC_StepUp ------------------------------
(* Model values for StepUp: one TOTP and one FIDO authenticator; the FIDO  *)
(* one is also the main authenticator, so its Fido can run in the main     *)
(* slot and in its row at once.                                            *)
EXTENDS StepUp, TLC

CONSTANTS a1, a2

MC_Authns == {a1, a2}
MC_Kind == (a1 :> "TOTP") @@ (a2 :> "FIDO")
MC_MainAuthn == a2
=============================================================================
