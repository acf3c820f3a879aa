------------------------------- MODULE Lexer -------------------------------
(***************************************************************************)
(* The lexer of the compiler (src/src/core/lexer.c, lex_file).  It reads   *)
(* the file with fgets into a buffer of fixed size, so that a longer line  *)
(* comes in pieces, and carries nothing from one piece to the next but     *)
(* whether it is in a block comment.  One iteration of the loop over the   *)
(* buffer is one step.                                                     *)
(*                                                                         *)
(* The keyword "do" stands for all keywords, the letters "d" and "o" for   *)
(* letters, "1" for digits, and "/", "*", "=" for the operators, "nl" for  *)
(* white space, QQ for the quotes and "@" for what begins no token; a      *)
(* token is what it was made of.                                           *)
(* What is behind the buffer is not modelled: it reads as a NUL.           *)
(***************************************************************************)
EXTENDS Integers, Sequences, FiniteSets, FiniteSetsExt

CONSTANTS Texts,  \* the files, sequences of characters
          Sizes,  \* sizes of the buffer
          Stale   \* what the buffer can be full of before the first line

Letters == {"d", "o"}
Alnum == Letters \cup {"1"}
QQ == "quote"
NUL == "NUL"
Characters == Alnum \cup {"/", "*", "=", "nl", QQ, "@"}

(* No file has a NUL in it, and a buffer has room for a character.         *)
ASSUME LexerAssumption == Texts \subseteq Seq(Characters) /\ Sizes \subseteq Nat \ {0, 1}

VARIABLES text, size,
          at,       \* how many characters of the file are read
          line,     \* the buffer
          p,        \* the place in the buffer
          comment,  \* in_block_comment
          lineNum,
          out,      \* the tokens
          phase     \* "read", "scan" or "done"

lexer == <<text, size, at, line, p, comment, lineNum, out, phase>>

(* The character at a place, the end of the string there, the first "*/"   *)
(* from there on, and the end of a run of characters of S.                 *)
Char(i) == IF i < size THEN line[i] ELSE NUL
End(i) == Min({j \in i .. i + size : Char(j) = NUL})
Closing(i) == {j \in i .. End(i) - 1 : Char(j) = "*" /\ Char(j + 1) = "/"}
Run(i, S) == Min({j \in i .. i + size : Char(j) \notin S})

(* The end of a comment, or of the line. *)
Behind(i) == IF Closing(i) = {} THEN End(i) ELSE Min(Closing(i)) + 2

-----------------------------------------------------------------------------
LexerInit ==
  /\ text \in Texts /\ size \in Sizes
  /\ \E c \in Stale : line = [i \in 0 .. size - 1 |-> c]
  /\ at = 0 /\ p = 0 /\ comment = FALSE /\ lineNum = 1 /\ out = << >>
  /\ phase = "read"

(* fgets: up to the newline, the end of the file or of the buffer. *)
PieceEnd(i) == Min({i + size - 1, Len(text)} \cup {j \in i + 1 .. Len(text) : text[j] = "nl"})

ReadLine ==
  /\ phase = "read" /\ at < Len(text)
  /\ LET e == PieceEnd(at)
     IN /\ at' = e
        /\ line' = [i \in DOMAIN line |-> IF i < e - at THEN text[at + i + 1]
                                         ELSE IF i = e - at THEN NUL ELSE line[i]]
  /\ p' = 0 /\ phase' = "scan"
  /\ UNCHANGED <<text, size, comment, lineNum, out>>

EndOfLine ==
  /\ phase = "scan" /\ Char(p) = NUL
  /\ lineNum' = lineNum + 1 /\ phase' = "read"
  /\ UNCHANGED <<text, size, at, line, p, comment, out>>

EndOfFile ==
  /\ phase = "read" /\ at = Len(text)
  /\ out' = Append(out, [text |-> <<"EOF">>, line |-> lineNum])
  /\ phase' = "done"
  /\ UNCHANGED <<text, size, at, line, p, comment, lineNum>>

Scanning == phase = "scan" /\ Char(p) # NUL /\ UNCHANGED <<text, size, at, line, lineNum, phase>>

(* The rest of a block comment that began on a line before. *)
InComment ==
  /\ Scanning /\ comment
  /\ p' = Behind(p) /\ comment' = (Closing(p) = {})
  /\ UNCHANGED out

Blank == Char(p) = "nl"
LineComment == Char(p) = "/" /\ Char(p + 1) = "/"
BlockComment == Char(p) = "/" /\ Char(p + 1) = "*"

Skip ==
  /\ Scanning /\ ~comment /\ (Blank \/ LineComment)
  /\ p' = IF Blank THEN p + 1 ELSE Min({End(p)} \cup {j \in p .. End(p) : Char(j) = "nl"})
  /\ UNCHANGED <<comment, out>>

(* Mutant of Keyword: it may be the beginning of a name. *)
KeywordPrefix(i) == Char(i) = "d" /\ Char(i + 1) = "o"

(* A keyword, which is not the beginning of a name. *)
Keyword(i) == Char(i) = "d" /\ Char(i + 1) = "o" /\ Char(i + 2) \notin Alnum

(* The end of a literal, behind its quote or at the end of the line. *)
LiteralEnd(i) == Min({End(i)} \cup {j + 1 : j \in {k \in i + 1 .. End(i) : Char(k) = QQ}})

(* Where the token at i ends: a keyword, an operator, a number, a literal  *)
(* or a name; with no token, it is i.                                      *)
TokenEnd(i) ==
  CASE Keyword(i) -> i + 2
    [] Char(i) \in {"/", "*", "="} -> IF Char(i + 1) = "=" THEN i + 2 ELSE i + 1
    [] Char(i) = "1" -> Run(i, {"1"})
    [] Char(i) = QQ -> LiteralEnd(i)
    [] Char(i) \in Letters /\ ~Keyword(i) -> Run(i, Alnum)
    [] OTHER -> i

(* Mutant of Token: a character that begins no token is not stepped over. *)
TokenStuck(i) ==
  LET e == TokenEnd(i)
  IN /\ p' = e
     /\ out' = IF e = i THEN out
               ELSE Append(out, [text |-> [k \in 1 .. e - i |-> Char(i + k - 1)], line |-> lineNum])

(* The token at i; a character that begins none is stepped over. *)
Token(i) ==
  LET e == TokenEnd(i)
  IN /\ p' = IF e = i THEN i + 1 ELSE e
     /\ out' = IF e = i THEN out
               ELSE Append(out, [text |-> [k \in 1 .. e - i |-> Char(i + k - 1)], line |-> lineNum])

(* A block comment begins; if it ends on this line, the token behind it is *)
(* matched at once.                                                        *)
OpenComment ==
  /\ Scanning /\ ~comment /\ BlockComment
  /\ comment' = (Closing(p + 2) = {})
  /\ IF Closing(p + 2) = {} THEN p' = End(p + 2) /\ UNCHANGED out ELSE Token(Behind(p + 2))

Match ==
  /\ Scanning /\ ~comment /\ ~Blank /\ ~LineComment /\ ~BlockComment
  /\ Token(p) /\ UNCHANGED comment

LexerNext == ReadLine \/ EndOfLine \/ EndOfFile \/ InComment \/ Skip \/ OpenComment \/ Match

(* There is one thread, and nothing to wait for but the file. *)
LexerSpec == LexerInit /\ [][LexerNext]_lexer /\ WF_lexer(LexerNext)

-----------------------------------------------------------------------------
(* What is reached from a by the steps in f, which do not leave a .. z.    *)
Reached(f, a, z) ==
  LET Closed == {S \in SUBSET (a .. z) : a \in S /\ \A s \in f : s[1] \in S => s[2] \in S}
  IN {k \in a .. z : \A S \in Closed : k \in S}

(* The reference: the whole text is cut into pieces that are tokens, white *)
(* space and comments, each the longest or the first to close.             *)
Is(i, w) == \A k \in DOMAIN w : i + k - 1 <= Len(text) /\ text[i + k - 1] = w[k]
First(i, w) == {j \in i .. Len(text) : Is(j, w)}
LineEnd(i) == Min({Len(text) + 1} \cup First(i, <<"nl">>))
IsBlock(i) == Is(i, <<"/", "*">>)
IsComment(i) == Is(i, <<"/", "/">>) \/ IsBlock(i)
Closers(i) == First(i + 2, <<"*", "/">>)

PieceNext(i) ==
  CASE Is(i, <<"/", "/">>) -> LineEnd(i)
    [] IsBlock(i) -> Min({Len(text) + 1} \cup {j + 2 : j \in Closers(i)})
    [] text[i] = QQ -> Min({Len(text) + 1, LineEnd(i) + 1} \cup {j + 1 : j \in First(i + 1, <<QQ>>)})
    [] text[i] \in Alnum ->
         LET S == IF text[i] = "1" THEN {"1"} ELSE Alnum
         IN Min({j \in i .. Len(text) : text[j] \notin S} \cup {Len(text) + 1})
    [] ~IsComment(i) /\ text[i] \in {"/", "*", "="} /\ Is(i + 1, <<"=">>) -> i + 2
    [] OTHER -> i + 1

(* Where pieces begin and the last one ends, and where tokens begin. *)
Bounds == Reached({<<i, PieceNext(i)>> : i \in 1 .. Len(text)}, 1, Len(text) + 1)
TokenStarts == {i \in Bounds : i <= Len(text) /\ text[i] \notin {"nl", "@"} /\ ~IsComment(i)}

LineOf(i) == 1 + Cardinality({j \in 1 .. i - 1 : text[j] = "nl"})

(* How far the file is read, line by line, and where that is inside a line. *)
ReadEnds == Reached({<<i, PieceEnd(i)>> : i \in 0 .. Len(text) - 1}, 0, Len(text))
LineCuts == {c \in ReadEnds : 0 < c /\ c < Len(text) /\ text[c] # "nl"}

(* A cut is harmless between two pieces, and in a block comment where it   *)
(* does not part its two end characters.                                   *)
Harmless(c) ==
  \E i \in Bounds :
    \/ i = c + 1
    \/ IsBlock(i) /\ i + 1 <= c /\ c < PieceNext(i) - 1 /\ ~Is(c, <<"*", "/">>)

(* A block comment that is read and closed at once, up to e.               *)
ClosedAtOnce(i, e) ==
  /\ i \in Bounds /\ IsBlock(i) /\ Closers(i) # {} /\ e = PieceNext(i) - 1
  /\ \A r \in ReadEnds : ~(i <= r /\ r < e)

(* The lexer goes on to the next token behind such a comment.  It does not *)
(* see that this is another comment, or that the line is at its end.       *)
Hidden == \E i \in Bounds : ClosedAtOnce(i, PieceNext(i) - 1) /\ IsComment(PieceNext(i))
EndsLine == \E i \in Bounds, e \in LineCuts \cup {Len(text)} : ClosedAtOnce(i, e)

Plain == (\A c \in LineCuts : Harmless(c)) /\ ~Hidden /\ ~EndsLine

(* The tokens are those of the text, however its lines are cut, unless a   *)
(* cut goes through a token or a comment, or one of the two cases above;   *)
(* and where no line is cut, every token has the number of its line.       *)
TokensRight ==
  phase = "done" /\ Plain =>
    /\ Len(out) = Cardinality(TokenStarts) + 1 /\ out[Len(out)].text = <<"EOF">>
    /\ \A i \in TokenStarts :
         LET token == out[Cardinality({j \in TokenStarts : j <= i})]
         IN /\ token.text = SubSeq(text, i, PieceNext(i) - 1)
            /\ LineCuts = {} => token.line = LineOf(i)

(* The lexer comes to the end of every text. *)
Ends == <>(phase = "done")
=============================================================================
