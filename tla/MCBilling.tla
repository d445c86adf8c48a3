----------------------------- MODULE MCBilling -----------------------------
(* Small instances of Billing for TLC. *)
EXTENDS Billing, TLC

MCOne == {1}
MCTwo == {1, 2}
=============================================================================
