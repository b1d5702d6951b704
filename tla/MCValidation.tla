---------------------------- MODULE MCValidation ----------------------------
(***************************************************************************)
(* Instances of Validation: two accounts, one born while passes run, and a *)
(* proxy account.                                                          *)
(***************************************************************************)
EXTENDS Validation

CONSTANTS a1, a2, p, f1, f2

MCAccounts  == {a1, a2, p}
MCBorn      == [a \in MCAccounts |-> IF a = a2 THEN 2 ELSE 1]
MCReceivers == {{f1}, {f1, f2}}
=============================================================================
