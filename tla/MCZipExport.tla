----------------------------- MODULE MCZipExport ------------------------------
(* An instance of ZipExport for TLC. *)
EXTENDS ZipExport

CONSTANTS u1, u2, j1, j2, j3, w1, w2

MCOwner == [j \in Jobs |-> IF j = j2 THEN u2 ELSE u1]

=============================================================================
