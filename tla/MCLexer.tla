------------------------------ MODULE MCLexer ------------------------------
(***************************************************************************)
(* Lexer for TLC: all short texts, longer ones with comments, a buffer     *)
(* that holds every line and one that cuts them, and two ways the buffer   *)
(* may be filled before.                                                   *)
(***************************************************************************)
EXTENDS Lexer

CONSTANTS Length,        \* of the texts
          CommentLength  \* of those of comments

Strings(S, max) == UNION {[1 .. n -> S] : n \in 0 .. max}

MCTexts ==
  Strings({"/", "*", "=", "nl", QQ, "d", "o", "1", "@"}, Length)
    \cup Strings({"/", "*", "nl", "d"}, CommentLength)
=============================================================================
