------------------------------ MODULE MCStrings -----------------------------
(***************************************************************************)
(* All texts of up to four bytes "a" and "b" for the searches, of three of  *)
(* "A", "a" and the two bytes of a two-byte character, in any order, for   *)
(* what indexes and compares.                                              *)
(***************************************************************************)
EXTENDS Strings

AB == SeqOf({97, 98}, 4)
Utf8 == SeqOf({65, 97, 195, 169}, 3)
Separators == {<< >>, <<97>>, <<97, 98>>, <<97, 97>>}
Replacements == {<< >>, <<98, 98>>}

a == One({97})
b == One({98})
Pattern(anchored, body) == [anchored |-> anchored, body |-> body]

(* Characters and a class, repeated or not, both anchors, and groups.      *)
Expressions ==
  {Pattern(FALSE, <<a>>), Pattern(FALSE, <<a, Times(b, 0, None)>>),
   Pattern(FALSE, <<Times(a, 0, None)>>), Pattern(TRUE, <<a>>),
   Pattern(FALSE, <<b, End>>), Pattern(FALSE, <<Times(a, 1, None), b>>),
   Pattern(FALSE, <<Times(Group(<<a, b>>), 1, None)>>),
   Pattern(FALSE, <<Group(<<Times(a, 0, None)>>), a>>),
   Pattern(FALSE, <<Times(One({97, 98}), 2, 2)>>),
   Pattern(FALSE, <<Times(Group(<<a>>), 0, 1), b>>)}
=============================================================================
