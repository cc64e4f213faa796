----------------------------- MODULE MCPhoneAuth -----------------------------
(* Instances of PhoneAuth for TLC: fewer attempts, and a larger maximum for  *)
(* the registration of devices, as in AuthPurpose.                           *)
EXTENDS PhoneAuth

MCMaxAttempt == [purpose \in Purposes |-> IF purpose = "SIGN_UP" THEN 1 ELSE 2]

=============================================================================
