------------------------------ MODULE MCFiles ------------------------------
(* Small instances of Files for TLC. *)
EXTENDS Files, TLC

\* Each transaction in a business of its own.
MCTxOf == CHOOSE f \in [Transaction -> Business] : \A t, u \in Transaction : t # u => f[t] # f[u]

\* A file that is a logo and a receipt, and one that is neither.
MCUpload == {[size |-> "logo", kind |-> "png", mime |-> "png"],
             [size |-> "receipt", kind |-> "pdf", mime |-> "png"]}

MCSymmetry == Permutations(Key) \cup Permutations(DriveFile) \cup Permutations(Call)
=============================================================================
