------------------------------ MODULE Strings -------------------------------
(***************************************************************************)
(* The two-pass operations of Passes with the searches of the program: the *)
(* literal operations search with strstr, the POSIX build with regexec,    *)
(* the Windows build with the matcher in Regex.                            *)
(***************************************************************************)
EXTENDS Regex, Passes

CONSTANTS Texts,     \* the strings operated on
          Needles,   \* the literal separators and what replace replaces
          Patterns,  \* the regular expressions
          Repls,     \* what is put in place of a match
          Limits,    \* the counts n given to a call
          Utf8Texts  \* the strings that are indexed and compared

(* The calls, and those that only look at two texts. *)
StringCalls ==
  [op : {"split", "replace"}, branch : {"literal"}, text : Texts,
   arg : Needles, repl : Repls, n : Limits]
    \cup [op : {"split", "replace"}, branch : {"posix", "windows"}, text : Texts,
          arg : Patterns, repl : Repls, n : Limits]
    \cup [op : {"look"}, branch : {"literal"}, text : Utf8Texts,
          arg : Utf8Texts, repl : {<< >>}, n : Limits]

(* strstr, regexec or come_regex_find, on the string from a position on. *)
StringSearch(c, from) ==
  CASE c.branch = "posix" -> Reference(c.arg, c.text, from)
    [] c.branch = "windows" -> RegexFind(c.arg, c.text, from)
    [] OTHER -> LET i == FindFrom(c.text, c.arg, from)
                IN IF i = None THEN NoMatch ELSE [so |-> i, eo |-> i + Len(c.arg)]

-----------------------------------------------------------------------------
(* What the Windows matcher finds is a match: its greedy repetitions and   *)
(* its way back out of them never take what the pattern does not allow.    *)
(* It finds the leftmost one, as regexec does, in every pattern without    *)
(* groups whose atoms must all be there at least once.                     *)
EngineSound ==
  call.branch = "windows" =>
    LET m == find[p]
        body == call.arg.body
    IN /\ m # NoMatch => m.eo \in Ends(body, t, m.so)
       /\ (\A i \in DOMAIN body : body[i].k = "set" /\ body[i].min > 0)
            => m.so = Reference(call.arg, t, p).so

-----------------------------------------------------------------------------
(* Texts of whole characters, here of one or two bytes. *)
WellFormed(u) ==
  \A i \in 1 .. Len(u) + 1 :
    (i > 1 /\ u[i - 1] \in 192 .. 223) <=> (i <= Len(u) /\ Continues(u[i]))

Sign(d) == IF d > 0 THEN 1 ELSE IF d < 0 THEN -1 ELSE 0

(* Indexing, cutting, counting and trimming a text agree with each other:  *)
(* len says which characters there are, the characters make the text, two  *)
(* cuts at one place make it again, and trim leaves nothing just when all  *)
(* of the text is in the cutset.                                           *)
CutsAgree ==
  call.op = "look" /\ call.n = 0 =>
    /\ WellFormed(t) => \A k \in 0 .. 3 : At(t, k) # << >> <=> k < CharCount(t)
    /\ FlattenSeq([k \in 1 .. 3 |-> At(t, k - 1)]) = t
    /\ \A k \in 0 .. 3 :
         /\ At(t, k) = Substr(t, k, k + 1)
         /\ Substr(t, 0, k) \o Substr(t, k, 3) = t
    /\ LET S == {call.arg[i] : i \in DOMAIN call.arg}
       IN /\ AllIn(t, S) <=> Trim(t, S) = << >>
          /\ Trim(t, S) = RTrim(LTrim(t, S), S)
    /\ Count(Repeat(t, 3), t) = (IF t = << >> THEN 0 ELSE 3)
    /\ Find(t, call.arg) <= RFind(t, call.arg)
    /\ Find(t, call.arg) = None <=> RFind(t, call.arg) = None

(* The comparisons order the texts, over all characters or the first n:    *)
(* they change sign with their operands, answer 0 just for equal ones, and *)
(* casecmp is cmp after lower.                                             *)
ComparesAgree ==
  LET a == t
      b == call.arg
      low(u) == Mapped(Lower, u)
  IN call.op = "look" /\ WellFormed(a) /\ WellFormed(b) =>
       /\ Sign(Cmp(a, b, call.n)) = -Sign(Cmp(b, a, call.n))
       /\ Cmp(a, b, call.n) = 0 <=>
            IF call.n = 0 THEN a = b ELSE Substr(a, 0, call.n) = Substr(b, 0, call.n)
       /\ Sign(CaseCmp(a, b, call.n)) = Sign(Cmp(low(a), low(b), call.n))
       /\ CaseCmp(a, Mapped(Upper, a), call.n) = 0

(* Parts split at a separator and joined by it are the text. *)
JoinsAgain ==
  pc = "done" /\ call.op = "split" /\ call.branch = "literal" /\ call.arg # << >> =>
    Join(out, call.arg) = t

(* The operations agree with each other; each of them walks over the bytes *)
(* in its own way.                                                         *)
TextLaws == CutsAgree /\ ComparesAgree /\ JoinsAgain
=============================================================================
