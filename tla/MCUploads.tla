------------------------------ MODULE MCUploads ------------------------------
(* A small instance of Uploads for TLC: a CSV whose columns are found with  *)
(* the mapping m1 and not by themselves, one that is no text, and a PDF     *)
(* that only the model reads.                                               *)
EXTENDS Uploads

CONSTANTS c1, x1, p1, m1

MCReadable == {<<c1, m1>>}
MCDetect == [f \in Csv |-> None]
=============================================================================
