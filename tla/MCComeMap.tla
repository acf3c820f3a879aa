----------------------------- MODULE MCComeMap ------------------------------
(***************************************************************************)
(* Small instances of ComeMap.  Keys are numbers and their hashes are      *)
(* chosen so that clusters form, wrap round the end of the table, and are  *)
(* told apart again when the table grows.                                  *)
(***************************************************************************)
EXTENDS ComeMap, TLC

(* Home slots 2, 2, 0 in a table of 3 slots and 5, 5, 0 in one of 6: a     *)
(* cluster that wraps in both.  The table of 3 grows when it has two       *)
(* entries and is put into again, with a new key or with one of the two.   *)
GrowKeys == 0 .. 2
GrowHash == 0 :> 5 @@ 1 :> 11 @@ 2 :> 6

(* Home slots 4, 4, 4, 0, 1 in a table of 5 slots and 4, 4, 9, 0, 1 in one *)
(* of 10: a cluster of five that wraps, and that removals take apart in    *)
(* every order.  A table of 5 that is full because it could not grow is    *)
(* the smallest that grows inside a removal: with two entries out, the put *)
(* that follows is still above the load.                                   *)
ChainKeys == 0 .. 4
ChainHash == 0 :> 4 @@ 1 :> 14 @@ 2 :> 9 @@ 3 :> 10 @@ 4 :> 11

AnyVariable == Permutations(Vars)
=============================================================================
