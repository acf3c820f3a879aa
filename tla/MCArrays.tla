------------------------------ MODULE MCArrays ------------------------------
(* Four addresses: a list, its string, a slice and a second array, or      *)
(* chains of slices of slices; blocks that move and are reused.  Neither   *)
(* addresses nor variables are told apart.  Slices take the first item of  *)
(* two, both and the second, cut at the end, and nothing.                  *)
EXTENDS Arrays, TLC

Asked == {<<0, 1>>, <<0, 3>>, <<1, 3>>, <<2, 3>>}

Interchangeable == Permutations(Blocks) \cup Permutations(Vars)
=============================================================================
