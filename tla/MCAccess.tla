------------------------------ MODULE MCAccess ------------------------------
(* Small instances of Access for TLC. *)
EXTENDS Access, TLC

\* Tabs of one browser share its cookie.
OneBrowser == [t \in Tab |-> CHOOSE b \in Browser : TRUE]

MCSymmetry == Permutations(Tab)
=============================================================================
