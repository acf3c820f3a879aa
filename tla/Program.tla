------------------------------- MODULE Program -------------------------------
(***************************************************************************)
(* Come programs as trees, the tokens they are written with, and what they *)
(* mean once their aliases are expanded: the reference that the parser     *)
(* (Parser.tla) is checked against.                                        *)
(***************************************************************************)
EXTENDS Integers, Sequences, FiniteSets, FiniteSetsExt

CONSTANTS Macros  \* macro aliases: name -> [params, body], body a tree

Idents == {"a", "b", "p", "A"} \cup DOMAIN Macros
Types == {"int", "var", "string"}
Literals == {"1", "s"}  \* a number and a string

Node(k, t, ch) == [k |-> k, t |-> t, ch |-> ch]
Nil == Node("null", "", << >>)
Leaf(t) == Node(IF t \in Idents THEN "ident" ELSE IF t = "s" THEN "string" ELSE "number", t, << >>)

(* How tightly the operator of a tree binds, by the precedence of C. *)
Level(e) ==
  CASE e.k = "ternary" -> 1
    [] e.k = "binary" ->
         CHOOSE n \in 2 .. 7 :
           e.t \in <<{}, {"||"}, {"&&"}, {"==", "!="}, {"<", ">", "<=", ">="}, {"+", "-"}, {"*", "/", "%"}>>[n]
    [] e.k \in {"unary", "cast"} -> 8
    [] OTHER -> 9

RECURSIVE Show(_, _)
RECURSIVE Commas(_)
RECURSIVE Write(_, _)
RECURSIVE WriteAll(_, _)
RECURSIVE Substitute(_, _)
RECURSIVE Expand(_, _)
RECURSIVE Meaning(_, _)

(* Expressions with commas between them. *)
Commas(list) ==
  IF list = << >> THEN << >>
  ELSE Show(Head(list), 0) \o (IF Len(list) = 1 THEN << >> ELSE <<",">> \o Commas(Tail(list)))

(* The tokens of an expression, with parentheses where its level is below  *)
(* min: binary operators group to the left, the conditional to the right.  *)
Show(e, min) ==
  LET text ==
        CASE e.k \in {"ident", "number", "string"} -> <<e.t>>
          [] e.k = "ternary" -> Show(e.ch[1], 2) \o <<"?">> \o Show(e.ch[2], 0) \o <<":">> \o Show(e.ch[3], 1)
          [] e.k = "binary" -> Show(e.ch[1], Level(e)) \o <<e.t>> \o Show(e.ch[2], Level(e) + 1)
          [] e.k = "unary" -> <<e.t>> \o Show(e.ch[1], 8)
          [] e.k = "cast" -> <<"(", e.t, ")">> \o Show(e.ch[1], 8)
          [] e.k = "call" -> <<e.t, "(">> \o Commas(e.ch) \o <<")">>
          [] e.k = "method" -> Show(e.ch[1], 9) \o <<".", e.t, "(">> \o Commas(Tail(e.ch)) \o <<")">>
          [] e.k = "member" -> Show(e.ch[1], 9) \o <<".", e.t>>
          [] e.k = "index" -> Show(e.ch[1], 9) \o <<"[">> \o Show(e.ch[2], 0) \o <<"]">>
          [] e.k = "array" -> <<"[">> \o Commas(e.ch) \o <<"]">>
          [] e.k = "map" -> <<"{">> \o Commas(e.ch) \o <<"}">>
          [] e.k = "post" -> Show(e.ch[1], 9) \o <<e.t>>
  IN IF Level(e) < min THEN <<"(">> \o text \o <<")">> ELSE text

WriteAll(list, sep) == IF list = << >> THEN << >> ELSE Write(Head(list), sep) \o WriteAll(Tail(list), sep)

(* The tokens of a statement, with sep, <<";">> or nothing, where it may   *)
(* end with a semicolon.                                                   *)
Write(n, sep) ==
  CASE n.k = "block" -> <<"{">> \o WriteAll(n.ch, sep) \o <<"}">>
    [] n.k = "assign" -> Show(n.ch[1], 8) \o <<n.t>> \o Show(n.ch[2], 0) \o sep
    [] n.k = "alias" -> <<"alias", n.t, "=">> \o Show(n.ch[1], 0) \o sep
    [] n.k = "decl" -> <<n.ch[2].t, n.t>> \o (IF n.ch[1] = Nil THEN << >> ELSE <<"=">> \o Show(n.ch[1], 0)) \o sep
    [] n.k = "return" -> <<"return">> \o Commas(n.ch) \o sep
    [] n.k = "if" -> <<"if", "(">> \o Show(n.ch[1], 0) \o <<")">> \o Write(n.ch[2], sep)
                       \o (IF Len(n.ch) = 3 THEN <<"else">> \o Write(n.ch[3].ch[1], sep) ELSE << >>)
    [] n.k = "while" -> <<"while", "(">> \o Show(n.ch[1], 0) \o <<")">> \o Write(n.ch[2], sep)
    [] n.k = "do" -> <<"do">> \o Write(n.ch[1], sep) \o <<"while", "(">> \o Show(n.ch[2], 0) \o <<")">>
    [] n.k = "for" -> <<"for", "(">> \o Write(n.ch[1], <<";">>) \o Show(n.ch[2], 0) \o <<";">>
                        \o Show(n.ch[3], 0) \o <<")">> \o Write(n.ch[4], sep)
    [] n.k = "switch" -> <<"switch", "(">> \o Show(n.ch[1], 0) \o <<")", "{">> \o WriteAll(Tail(n.ch), sep) \o <<"}">>
    [] n.k = "case" -> <<"case">> \o Show(n.ch[1], 0) \o <<":">> \o WriteAll(Tail(n.ch), sep)
    [] n.k = "default" -> <<"default", ":">> \o WriteAll(n.ch, sep)
    [] n.k \in {"break", "continue", "fallthrough"} -> <<n.k>> \o sep
    [] OTHER -> Show(n, 0) \o sep

(* A source made of a list of statements, and one that no program was      *)
(* printed to; both end with the brace of the function.                    *)
Printed(list, sep) == [tree |-> list, sep |-> sep, toks |-> WriteAll(list, sep) \o <<"}", "EOF">>]
Raw(tokens) == [tree |-> << >>, sep |-> << >>, toks |-> tokens \o <<"}", "EOF">>]

(* The tree n with names replaced by the trees that f gives them. *)
Substitute(n, f) ==
  IF n.k = "ident" THEN IF n.t \in DOMAIN f THEN f[n.t] ELSE n
  ELSE [n EXCEPT !.ch = [k \in DOMAIN @ |-> Substitute(@[k], f)]]

(* The tree n under the aliases f: a tree stands for an alias, not a text, *)
(* so that no parentheses are needed around it.  The target of a plain     *)
(* assignment is a name, and stays.                                        *)
Expand(n, f) ==
  LET ch == [k \in DOMAIN n.ch |-> IF n.k = "assign" /\ k = 1 /\ n.ch[1].k = "ident" THEN n.ch[1]
                                   ELSE Expand(n.ch[k], f)]
      fun == IF n.t \in DOMAIN f THEN f[n.t] ELSE Leaf(n.t)
  IN CASE n.k = "ident" -> fun
       [] n.k = "call" /\ fun.k = "member" -> Node("method", fun.t, fun.ch \o ch)
       [] n.k = "call" /\ fun.k = "ident" /\ fun.t \in DOMAIN Macros ->
            LET m == Macros[fun.t]
            IN Substitute(m.body, [x \in {m.params[k] : k \in 1 .. Len(m.params)} |->
                                     ch[CHOOSE k \in 1 .. Len(m.params) : m.params[k] = x]])
       [] n.k = "call" /\ fun.k = "ident" /\ fun.t \notin DOMAIN Macros -> Node("call", fun.t, ch)
       [] OTHER -> [n EXCEPT !.ch = ch]

(* A list of statements without its aliases: each holds from where it is   *)
(* declared, and the first declaration of a name counts.                   *)
Meaning(list, f) ==
  IF list = << >> THEN << >>
  ELSE LET n == Head(list)
           g == [x \in DOMAIN f \cup {n.t} |-> IF x \in DOMAIN f THEN f[x] ELSE Expand(n.ch[1], f)]
       IN IF n.k = "alias" THEN Meaning(Tail(list), g)
          ELSE <<Expand(n, f)>> \o Meaning(Tail(list), f)
=============================================================================
