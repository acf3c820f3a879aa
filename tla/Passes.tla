------------------------------- MODULE Passes -------------------------------
(***************************************************************************)
(* The operations of src/src/string/string.c that walk a string twice:     *)
(* split, replace and their regular-expression forms measure the result in *)
(* a first pass, allocate it, and fill it in a second pass that must find  *)
(* the same matches.  One iteration of a loop is one step.                 *)
(*                                                                         *)
(* A behaviour is one call.  Its branch says which code runs: the literal  *)
(* operations, or the regular expressions of the POSIX or of the Windows   *)
(* build.  How they search is a constant here, given by module Strings.    *)
(***************************************************************************)
EXTENDS Cuts

CONSTANTS Calls,        \* the calls: operation, branch and arguments
          Search(_, _)  \* the match that a call finds from a position on

(* What a call has: the text, what it looks for, what it puts in its place *)
(* and a count.  An operation "look" makes no pass.                        *)
ASSUME CallsAssumption ==
  \A c \in Calls :
    /\ c.op \in {"split", "replace", "look"} /\ c.branch \in {"literal", "posix", "windows"}
    /\ {c.text, c.repl} \subseteq Seq(Nat) /\ c.n \in Nat
    /\ c.branch = "literal" => c.arg \in Seq(Nat)

(* A match begins where the search does or behind it, and ends in the      *)
(* text; that of a literal is as long as the literal.                      *)
ASSUME SearchAssumption ==
  \A c \in Calls : \A from \in 0 .. Len(c.text) :
    LET m == Search(c, from)
    IN m # NoMatch =>
         /\ m.so \in from .. Len(c.text) /\ m.eo \in m.so .. Len(c.text)
         /\ c.branch = "literal" => m.eo = m.so + Len(c.arg)

VARIABLES call,    \* the call
          find,    \* the match it finds from each position of the string
          pc,      \* "measure", "fill", "done", or "astray" behind the string
          p,       \* how far the running pass has come
          matches, \* the matches it has seen
          size,    \* the parts or bytes of the result, as measured
          out      \* the parts or bytes filled in

strings == <<call, find, pc, p, matches, size, out>>

t == call.text
Rest(q) == Cutout(t, q, Len(t))

(* After k matches: n > 0 parts are n - 1 separators; n > 0 replacements   *)
(* are n matches.                                                          *)
Limited(k) == call.n > 0 /\ k >= (IF call.op = "split" THEN call.n - 1 ELSE call.n)

Init ==
  /\ call \in Calls
  /\ find = [from \in 0 .. Len(call.text) |-> Search(call, from)]
  /\ pc = IF call.op = "look" THEN "done" ELSE "measure"
  /\ p = 0 /\ matches = 0
  /\ size = IF call.op = "split" THEN 1 ELSE 0
  /\ out = << >>

(* An empty separator, or nothing to replace: the string, as it is. *)
NothingToFind ==
  /\ pc = "measure" /\ call.branch = "literal" /\ call.arg = << >>
  /\ pc' = "done"
  /\ out' = IF call.op = "split" THEN <<t>> ELSE t
  /\ size' = Len(out')
  /\ UNCHANGED <<call, find, p, matches>>

(* The first pass is over, the result is allocated, the second begins. *)
StartFill(n) ==
  /\ pc' = "fill" /\ p' = 0 /\ matches' = 0 /\ size' = n
  /\ UNCHANGED <<call, find, out>>

Counted(m) ==
  /\ size' = size + 1 /\ matches' = matches + 1 /\ p' = m.eo
  /\ UNCHANGED <<call, find, pc, out>>

(* Mutant of MeasureSplit: an empty match is not stepped over. *)
MeasureSplitStuck ==
  /\ pc = "measure" /\ call.op = "split" /\ call.arg # << >>
  /\ LET m == find[p]
     IN \/ (m = NoMatch \/ Limited(matches)) /\ StartFill(size)
        \/ m # NoMatch /\ ~Limited(matches) /\ ~Empty(m) /\ Counted(m)
        \/ m # NoMatch /\ ~Limited(matches) /\ Empty(m) /\ UNCHANGED strings

(* The first pass of split counts parts.  At an empty match the POSIX form *)
(* goes on one byte later, unless the string ends there; from the end it   *)
(* steps behind the terminator and acts on the byte it finds.  The Windows *)
(* form stops.  strstr is never given an empty separator here.             *)
MeasureSplit ==
  /\ pc = "measure" /\ call.op = "split" /\ call.arg # << >>
  /\ LET m == find[p]
     IN \/ (m = NoMatch \/ Limited(matches)) /\ StartFill(size)
        \/ m # NoMatch /\ ~Limited(matches) /\ ~Empty(m) /\ Counted(m)
        \/ /\ m # NoMatch /\ ~Limited(matches) /\ Empty(m)
           /\ \/ (call.branch = "windows" \/ p + 1 >= Len(t)) /\ StartFill(size)
              \/ /\ call.branch = "posix" /\ p + 1 < Len(t)
                 /\ p' = p + 1
                 /\ UNCHANGED <<call, find, pc, matches, size, out>>
              \/ /\ call.branch = "posix" /\ p = Len(t)
                 /\ pc' = "astray"
                 /\ UNCHANGED <<call, find, p, matches, size, out>>

(* Mutant of FillSplit: the limit is one match off. *)
FillSplitOffByOne ==
  /\ pc = "fill" /\ call.op = "split" /\ Len(out) < size
  /\ LET m == find[p]
     IN IF m # NoMatch /\ (call.n = 0 \/ matches < call.n)
          THEN /\ out' = Append(out, Cutout(t, p, m.so))
               /\ p' = m.eo /\ matches' = matches + 1
          ELSE /\ out' = Append(out, Rest(p))
               /\ UNCHANGED <<p, matches>>
  /\ UNCHANGED <<call, find, pc, size>>

(* The second pass fills in as many parts as were counted. *)
FillSplit ==
  /\ pc = "fill" /\ call.op = "split" /\ Len(out) < size
  /\ LET m == find[p]
     IN IF m # NoMatch /\ ~Limited(matches)
          THEN /\ out' = Append(out, Cutout(t, p, m.so))
               /\ p' = m.eo /\ matches' = matches + 1
          ELSE /\ out' = Append(out, Rest(p))
               /\ UNCHANGED <<p, matches>>
  /\ UNCHANGED <<call, find, pc, size>>

SplitDone ==
  /\ pc = "fill" /\ call.op = "split" /\ Len(out) = size
  /\ pc' = "done"
  /\ UNCHANGED <<call, find, p, matches, size, out>>

(* The first pass of the literal replace counts the matches. *)
MeasureReplace ==
  /\ pc = "measure" /\ call.op = "replace" /\ call.branch = "literal" /\ call.arg # << >>
  /\ LET m == find[p]
     IN IF m # NoMatch /\ ~Limited(matches)
          THEN /\ matches' = matches + 1 /\ p' = m.eo
               /\ UNCHANGED <<call, find, pc, size, out>>
          ELSE StartFill(Len(t) + matches * (Len(call.repl) - Len(call.arg)))

(* The body of a replacing loop at q, after k matches: whether it goes on, *)
(* the bytes it measures or copies, and where it goes on.  After an empty  *)
(* match the POSIX form takes one byte of the text along; what it does at  *)
(* the end, once when nothing more matches and once when k = n, which are  *)
(* both the case when n is 0 and nothing has matched, adds the rest of the *)
(* text.                                                                   *)
Round(q, k) ==
  LET m == find[q]
      along == IF Empty(m) /\ m.eo < Len(t) THEN m.eo + 1 ELSE m.eo
      go == /\ m # NoMatch /\ ~Limited(k)
            /\ call.branch = "windows" => ~Empty(m)
            /\ call.branch # "windows" => q < Len(t)
  IN [go |-> go,
      piece |-> IF go THEN Cutout(t, q, m.so) \o call.repl \o Cutout(t, m.eo, along)
                ELSE IF call.branch = "posix"
                  THEN (IF Limited(k) THEN << >> ELSE Rest(q))
                         \o (IF k = call.n THEN Rest(q) ELSE << >>)
                ELSE Rest(q),
      p |-> along]

(* Mutant of MeasureRegexReplace: the text behind the last match is left out. *)
MeasureRegexReplaceShort ==
  /\ pc = "measure" /\ call.op = "replace" /\ call.branch # "literal"
  /\ LET r == Round(p, matches)
     IN IF r.go
          THEN /\ size' = size + Len(r.piece)
               /\ p' = r.p /\ matches' = matches + 1
               /\ UNCHANGED <<call, find, pc, out>>
          ELSE StartFill(size)

MeasureRegexReplace ==
  /\ pc = "measure" /\ call.op = "replace" /\ call.branch # "literal"
  /\ LET r == Round(p, matches)
     IN IF r.go
          THEN /\ size' = size + Len(r.piece)
               /\ p' = r.p /\ matches' = matches + 1
               /\ UNCHANGED <<call, find, pc, out>>
          ELSE StartFill(size + Len(r.piece))

(* The second pass of all three. *)
FillReplace ==
  /\ pc = "fill" /\ call.op = "replace"
  /\ LET r == Round(p, matches)
     IN /\ out' = out \o r.piece
        /\ IF r.go
             THEN p' = r.p /\ matches' = matches + 1 /\ UNCHANGED pc
             ELSE pc' = "done" /\ UNCHANGED <<p, matches>>
  /\ UNCHANGED <<call, find, size>>

Next ==
  \/ NothingToFind \/ MeasureSplit \/ FillSplit \/ SplitDone
  \/ MeasureReplace \/ MeasureRegexReplace \/ FillReplace

(* One thread runs the call, and nothing in it waits. *)
Spec == Init /\ [][Next]_strings /\ WF_strings(Next)
-----------------------------------------------------------------------------
(* Both passes of every operation agree: what the second fills in never    *)
(* goes over what the first has measured and ends exactly there, and       *)
(* neither leaves the string, but for one case: the first pass of the      *)
(* POSIX regex_split, at an empty match at the end.                        *)
PassesAgree ==
  /\ p \in 0 .. Len(t)
  /\ pc = "fill" => Len(out) <= size
  /\ pc = "done" /\ call.op # "look" => Len(out) = size
  /\ pc = "astray" => /\ call.op = "split" /\ call.branch = "posix"
                      /\ find[Len(t)] # NoMatch /\ Empty(find[Len(t)])

(* Something is looked for, and nothing empty is ever found. *)
Solid ==
  /\ call.branch = "literal" => call.arg # << >>
  /\ \A q \in 0 .. Len(t) : find[q] = NoMatch \/ ~Empty(find[q])

(* The parts of the text between matches that are looked for one behind    *)
(* the other, until there is none or there are n parts.                    *)
SplitsRight ==
  pc = "done" /\ call.op = "split" /\ Solid =>
    \E from \in [1 .. Len(out) -> 0 .. Len(t)] :
      /\ Len(out) > 0 /\ from[1] = 0
      /\ \A i \in 1 .. Len(out) - 1 :
           LET m == find[from[i]]
           IN m # NoMatch /\ out[i] = Cutout(t, from[i], m.so) /\ from[i + 1] = m.eo
      /\ out[Len(out)] = Rest(from[Len(out)])
      /\ call.n > 0 => Len(out) <= call.n
      /\ find[from[Len(out)]] = NoMatch \/ Len(out) = call.n

(* The same parts of the text, each but the last followed by the           *)
(* replacement, for at most n matches.  Not so when the POSIX replace of   *)
(* all matches finds none.                                                 *)
ReplacesRight ==
  pc = "done" /\ call.op = "replace" /\ Solid =>
    \/ call.branch = "posix" /\ call.n = 0 /\ find[0] = NoMatch
    \/ \E from \in [0 .. matches -> 0 .. Len(t)] :
         /\ from[0] = 0
         /\ \A k \in 0 .. matches - 1 :
              find[from[k]] # NoMatch /\ from[k + 1] = find[from[k]].eo
         /\ find[from[matches]] = NoMatch \/ matches = call.n
         /\ call.n > 0 => matches <= call.n
         /\ \E upto \in [0 .. matches -> 0 .. Len(out)] :
              /\ upto[0] = 0 /\ Cutout(out, upto[matches], Len(out)) = Rest(from[matches])
              /\ \A k \in 0 .. matches - 1 :
                   /\ upto[k] <= upto[k + 1]
                   /\ Cutout(out, upto[k], upto[k + 1]) =
                        Cutout(t, from[k], find[from[k]].so) \o call.repl

ResultsRight == SplitsRight /\ ReplacesRight

(* Every call returns, if it does not go astray: no match, empty or not,   *)
(* is found twice for ever.                                                *)
CallReturns == <>(pc \in {"done", "astray"})
=============================================================================
