-------------------------------- MODULE Regex -------------------------------
(***************************************************************************)
(* The backtracking matcher of the Windows branch of string.c (lines 626   *)
(* to 940), next to what its patterns mean.                                *)
(*                                                                         *)
(* A pattern is [anchored, body], a body a sequence of atoms: a set of     *)
(* bytes (a character, ".", an escape or a class), a group, or the final   *)
(* "$".  Every atom carries the bounds min and max of its quantifier, max  *)
(* None for no bound.  Reading a pattern from its text and recording what  *)
(* groups captured is left out.                                            *)
(***************************************************************************)
EXTENDS Text

One(S) == [k |-> "set", S |-> S, min |-> 1, max |-> 1]
Group(body) == [k |-> "group", body |-> body, min |-> 1, max |-> 1]
End == [k |-> "end", min |-> 1, max |-> 1]
Times(atom, min, max) == [atom EXCEPT !.min = min, !.max = max]

-----------------------------------------------------------------------------
(* Meaning: the positions of t at which a match that began at i can end.   *)

RECURSIVE Ends(_, _, _)
RECURSIVE Repeats(_, _, _, _, _)

OnceEnds(atom, t, i) ==
  CASE atom.k = "set" -> IF i < Len(t) /\ ByteAt(t, i) \in atom.S THEN {i + 1} ELSE {}
    [] atom.k = "group" -> Ends(atom.body, t, i)
    [] OTHER -> IF i = Len(t) THEN {i} ELSE {}

(* After min to max repetitions from the positions I. *)
Repeats(atom, t, I, min, max) ==
  LET onward == UNION {OnceEnds(atom, t, i) : i \in I}
  IN (IF min = 0 THEN I ELSE {})
       \cup (IF max = 0 \/ I = {} \/ (min = 0 /\ onward \subseteq I) THEN {}
             ELSE Repeats(atom, t, IF min = 0 THEN I \cup onward ELSE onward,
                          IF min = 0 THEN 0 ELSE min - 1,
                          IF max = None THEN None ELSE max - 1))

Ends(body, t, i) ==
  IF body = << >> THEN {i}
  ELSE UNION {Ends(Tail(body), t, j) :
                j \in Repeats(Head(body), t, {i}, Head(body).min, Head(body).max)}

(* The leftmost and then longest match from position p on, what regexec    *)
(* answers; "^" matches where the search begins.                           *)
Reference(pat, t, p) ==
  LET At0 == {i \in p .. Len(t) : Ends(pat.body, t, i) # {} /\ (pat.anchored => i = p)}
  IN IF At0 = {} THEN NoMatch
     ELSE [so |-> Min(At0), eo |-> Max(Ends(pat.body, t, Min(At0)))]

-----------------------------------------------------------------------------
(* come_regex_match_seq and what it calls. *)

RECURSIVE MatchSeq(_, _, _)
RECURSIVE Greedy(_, _, _)
RECURSIVE TryFrom(_, _, _, _)

(* come_regex_match_atom_once: where the atom ends in t, and whether it    *)
(* told its caller where it ends in the pattern.                           *)
AtomOnce(atom, t, i) ==
  LET end == CASE i = Len(t) -> None
               [] atom.k = "set" -> IF ByteAt(t, i) \in atom.S THEN i + 1 ELSE None
               [] atom.k = "group" -> MatchSeq(atom.body, t, i)
               [] OTHER -> None
  IN [end |-> end, parsed |-> i < Len(t) /\ (atom.k = "group" => end # None)]

(* The positions after 0, 1, ... repetitions, each the first that matches. *)
Greedy(atom, t, positions) ==
  LET i == positions[Len(positions)]
      next == AtomOnce(atom, t, i).end
  IN IF (atom.max # None /\ Len(positions) > atom.max) \/ next \in {None, i}
       THEN positions
       ELSE Greedy(atom, t, Append(positions, next))

(* The rest of the pattern is tried after k repetitions, k - 1, ... min. *)
TryFrom(body, t, positions, k) ==
  IF k < Head(body).min THEN None
  ELSE LET end == MatchSeq(Tail(body), t, positions[k + 1])
       IN IF end # None THEN end ELSE TryFrom(body, t, positions, k - 1)

(* Mutant of MatchSeq: the least number of repetitions is not asked for. *)
MatchSeqLax(body, t, i) ==
  IF body = << >> THEN i
  ELSE IF Head(body).k = "end" THEN (IF i = Len(t) THEN i ELSE None)
  ELSE IF ~AtomOnce(Head(body), t, i).parsed THEN None
  ELSE LET positions == Greedy(Head(body), t, <<i>>)
       IN TryFrom(<<[Head(body) EXCEPT !.min = 0]>> \o Tail(body), t, positions, Len(positions) - 1)

MatchSeq(body, t, i) ==
  IF body = << >> THEN i
  ELSE IF Head(body).k = "end" THEN (IF i = Len(t) THEN i ELSE None)
  ELSE IF ~AtomOnce(Head(body), t, i).parsed THEN None
  ELSE LET positions == Greedy(Head(body), t, <<i>>)
       IN TryFrom(body, t, positions, Len(positions) - 1)

(* come_regex_find, on the text from position p on. *)
RegexFind(pat, t, p) ==
  LET Starts == {i \in p .. Len(t) : MatchSeq(pat.body, t, i) # None
                                     /\ (pat.anchored => i = p)}
  IN IF Starts = {} THEN NoMatch
     ELSE [so |-> Min(Starts), eo |-> MatchSeq(pat.body, t, Min(Starts))]
=============================================================================
