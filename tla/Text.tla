-------------------------------- MODULE Text --------------------------------
(***************************************************************************)
(* What the operations of src/src/string/string.c that only read a string, *)
(* or copy a part of it, answer.                                           *)
(***************************************************************************)
EXTENDS Cuts, FiniteSetsExt, SequencesExt

(* b & 0xC0 is 0x80: a byte that continues a UTF-8 character. *)
Continues(b) == b \div 64 = 2

(* tolower and toupper in the C locale. *)
Lower(b) == IF b \in 65 .. 90 THEN b + 32 ELSE b
Upper(b) == IF b \in 97 .. 122 THEN b - 32 ELSE b

Mapped(Op(_), t) == [i \in DOMAIN t |-> Op(t[i])]

-----------------------------------------------------------------------------
(* Characters. *)

(* come_string_len counts the bytes that begin a character. *)
CharCount(t) == Len(SelectSeq(t, LAMBDA b : ~Continues(b)))

(* Where the loop over the bytes that continue a character takes a p at i. *)
NextChar(t, i) == Min({j \in i + 1 .. Len(t) : ~Continues(ByteAt(t, j))})

(* The positions at which that loop finds the characters. *)
RECURSIVE StartsFrom(_, _)
StartsFrom(t, i) ==
  IF i = Len(t) THEN << >> ELSE <<i>> \o StartsFrom(t, NextChar(t, i))

(* The position of character k, that of the terminator when there is none. *)
CharPos(t, k) ==
  LET s == StartsFrom(t, 0) IN IF k < Len(s) THEN s[k + 1] ELSE Len(t)

(* come_string_at, << >> for the NULL it answers out of bounds. *)
At(t, k) == Cutout(t, CharPos(t, k), CharPos(t, k + 1))

(* come_string_substr: a start behind the end is moved back to it. *)
Substr(t, start, end) ==
  Cutout(t, CharPos(t, IF start > end THEN end ELSE start), CharPos(t, end))

(* come_utf8_char_width *)
Width(t, i) ==
  LET b == ByteAt(t, i)
      w == IF b \in 192 .. 223 THEN 2 ELSE IF b \in 224 .. 239 THEN 3
           ELSE IF b \in 240 .. 247 THEN 4 ELSE 1
  IN Min({w, Len(t) - i})

(* come_utf8_compare_next: the characters of a at i and of b at j. *)
CompareNext(a, i, b, j, fold) ==
  LET w == Width(a, i)
      v == Width(b, j)
      Differ == {d \in 0 .. Min({w, v}) - 1 : ByteAt(a, i + d) # ByteAt(b, j + d)}
  IN IF fold /\ w = 1 /\ v = 1 THEN Lower(ByteAt(a, i)) - Lower(ByteAt(b, j))
     ELSE IF Differ = {} THEN w - v
     ELSE ByteAt(a, i + Min(Differ)) - ByteAt(b, j + Min(Differ))

(* The loops of cmp and casecmp, with n characters to go, None for all. *)
RECURSIVE CompareFrom(_, _, _, _, _, _)
CompareFrom(a, i, b, j, n, fold) ==
  LET Fold(c) == IF fold THEN Lower(c) ELSE c
      next == CompareNext(a, i, b, j, fold)
  IN IF n = 0 THEN 0
     ELSE IF i = Len(a) \/ j = Len(b) THEN Fold(ByteAt(a, i)) - Fold(ByteAt(b, j))
     ELSE IF next # 0 THEN next
     ELSE CompareFrom(a, i + Width(a, i), b, j + Width(b, j),
                      IF n = None THEN None ELSE n - 1, fold)

(* strcmp *)
StrCmp(a, b) ==
  LET Differ == {d \in 0 .. Len(a) : ByteAt(a, d) # ByteAt(b, d)}
  IN IF Differ = {} THEN (IF Len(a) < Len(b) THEN -ByteAt(b, Len(a)) ELSE 0)
     ELSE ByteAt(a, Min(Differ)) - ByteAt(b, Min(Differ))

(* come_string_cmp and come_string_casecmp; n = 0 compares everything. *)
Cmp(a, b, n) == IF n = 0 THEN StrCmp(a, b) ELSE CompareFrom(a, 0, b, 0, n, FALSE)

(* Mutant of CaseCmp: one character too few. *)
CaseCmpShort(a, b, n) ==
  CompareFrom(a, 0, b, 0, IF n = 0 THEN None ELSE n - 1, TRUE)

CaseCmp(a, b, n) == CompareFrom(a, 0, b, 0, IF n = 0 THEN None ELSE n, TRUE)

-----------------------------------------------------------------------------
(* Searches. *)

Occurs(t, sub, i) == i + Len(sub) <= Len(t) /\ Cutout(t, i, i + Len(sub)) = sub

(* strstr from position i *)
FindFrom(t, sub, i) ==
  LET At0 == {j \in i .. Len(t) : Occurs(t, sub, j)}
  IN IF At0 = {} THEN None ELSE Min(At0)

(* come_string_find and come_string_rfind *)
Find(t, sub) == FindFrom(t, sub, 0)

RFind(t, sub) ==
  LET At0 == {j \in 0 .. Len(t) - Len(sub) : Occurs(t, sub, j)}
  IN IF At0 = {} THEN None ELSE Max(At0)

(* come_string_count *)
RECURSIVE CountFrom(_, _, _)
CountFrom(t, sub, i) ==
  IF FindFrom(t, sub, i) = None THEN 0
  ELSE 1 + CountFrom(t, sub, FindFrom(t, sub, i) + Len(sub))

Count(t, sub) == IF sub = << >> THEN 0 ELSE CountFrom(t, sub, 0)

(* come_string_isdigit and the like, for the bytes S of a class. *)
AllIn(t, S) == \A i \in DOMAIN t : t[i] \in S

(* The loops of ltrim and rtrim over the bytes of the cutset S. *)
LeftEnd(t, S) == Min({i \in 0 .. Len(t) : i = Len(t) \/ ByteAt(t, i) \notin S})
RightEnd(t, S, from) == Max({i \in from .. Len(t) : i = from \/ t[i] \notin S})

LTrim(t, S) == Cutout(t, LeftEnd(t, S), Len(t))
RTrim(t, S) == Cutout(t, 0, RightEnd(t, S, 0))

Trim(t, S) == LET i == LeftEnd(t, S) IN Cutout(t, i, RightEnd(t, S, i))

(* come_string_repeat *)
Repeat(t, n) == FlattenSeq([i \in 1 .. n |-> t])

(* come_string_join *)
Join(list, sep) ==
  FlattenSeq([i \in DOMAIN list |-> IF i < Len(list) THEN list[i] \o sep ELSE list[i]])
=============================================================================
