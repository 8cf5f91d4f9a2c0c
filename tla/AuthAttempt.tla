----------------------------- MODULE AuthAttempt -----------------------------
(***************************************************************************)
(* What a login button promises (spec 4.4, 5): one attempt at a time; an   *)
(* attempt ends in success or failure; success sends the user on, and a    *)
(* failure makes the button usable again.                                  *)
(***************************************************************************)
VARIABLES
    pending,     \* an attempt is in progress (the button is disabled)
    succeeded    \* some attempt has succeeded (the success redirect ran)

Init == pending = FALSE /\ succeeded = FALSE

Start   == ~pending /\ pending' = TRUE  /\ UNCHANGED succeeded
Fail    ==  pending /\ pending' = FALSE /\ UNCHANGED succeeded
Succeed ==  pending /\ pending' = FALSE /\ succeeded' = TRUE

Spec == Init /\ [][Start \/ Fail \/ Succeed]_<<pending, succeeded>>

=============================================================================
