-------------------------------- MODULE Cuts --------------------------------
(***************************************************************************)
(* Positions in the strings of src/src/string/string.c.  A text is the     *)
(* sequence of its bytes, none of them 0; positions count from 0, as in    *)
(* the code.  None stands for the -1 or the NULL of a search without a     *)
(* result.                                                                 *)
(***************************************************************************)
EXTENDS Integers, Sequences

None == -1

(* The bytes of t from position i up to j; the byte at i, 0 at the end. *)
Cutout(t, i, j) == SubSeq(t, i + 1, j)
ByteAt(t, i) == IF i < Len(t) THEN t[i + 1] ELSE 0

(* A match is from position so up to eo. *)
NoMatch == [so |-> None, eo |-> None]
Empty(m) == m.so = m.eo
=============================================================================
