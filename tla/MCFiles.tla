------------------------------- MODULE MCFiles ------------------------------
(* Two objects of the program and std.out, three streams besides the       *)
(* standard ones, five descriptors and one file that has a name; fdopen is *)
(* called with a standard descriptor and with one that fopen gives.        *)
EXTENDS Files, TLC

CONSTANTS f1, f2, s1, s2, s3

Numbers == 0 .. 4
Interchangeable == Permutations({f1, f2}) \cup Permutations({s1, s2, s3})
=============================================================================
