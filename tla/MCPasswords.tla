----------------------------- MODULE MCPasswords -----------------------------
(* Passwords with two flag values: every pattern of set and empty flags.   *)
EXTENDS Passwords

CONSTANTS s1, s2

MCSecrets == {s1, s2}
=============================================================================
