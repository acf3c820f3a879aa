------------------------------- MODULE Parser -------------------------------
(***************************************************************************)
(* The statement and expression parser of the compiler                     *)
(* (src/src/core/parser.c): recursive descent, and precedence climbing     *)
(* over binary operators, on the tokens of a function body.  It goes on    *)
(* after every error, newlines mean nothing to it, and a ";" is optional.  *)
(*                                                                         *)
(* A token stands for its type and its text.  A parse state s is the       *)
(* position i, the number of messages printed so far, the table of aliases *)
(* and the node that was parsed last.  One iteration of the loop over the  *)
(* statements of the body is one step.  Structs and methods in functions,  *)
(* and declarations outside of functions, are left out; the macro aliases, *)
(* which are declared there, are a constant.                               *)
(***************************************************************************)
EXTENDS Program

CONSTANTS Sources  \* a sequence of sets of [tree, sep, toks]: bodies, and what they were printed from

VARIABLES source, \* the source that is parsed
          s,      \* the parse state; its node is the block
          done    \* whether the block has ended

parser == <<source, s, done>>

UnaryOps == {"!", "~", "*", "-"}
AssignOps == {"=", "+=", "-=", "*=", "/=", "&=", "|=", "^=", "<<=", ">>="}

toks == source.toks

Add(n, c) == [n EXCEPT !.ch = Append(@, c)]

(* current and advance: behind the last token, EOF, is EOF again. *)
Tok(u) == toks[Min({u.i + 1, Len(toks)})]
Adv(u) == [u EXCEPT !.i = Min({@ + 1, Len(toks)})]

With(u, n) == [u EXCEPT !.node = n]
Report(u) == [u EXCEPT !.err = @ + 1]

(* Mutant of Expect: a missing token is not reported. *)
ExpectQuiet(u, x) == IF Tok(u) = x THEN Adv(u) ELSE u

(* expect, match of an optional token, and the loops that skip tokens. *)
Expect(u, x) == IF Tok(u) = x THEN Adv(u) ELSE Report(u)
Optional(u, x) == IF Tok(u) = x THEN Adv(u) ELSE u
SkipTo(u, x) ==
  [u EXCEPT !.i = Min({Len(toks)} \cup {j \in @ .. Len(toks) - 1 : toks[j + 1] \in {x, "EOF"}})]

RECURSIVE Parse(_, _, _)
RECURSIVE Atom(_)
RECURSIVE Primary(_)
RECURSIVE Postfix(_)
RECURSIVE Climb(_, _)
RECURSIVE List(_, _)
RECURSIVE Brackets(_)
RECURSIVE Values(_)
RECURSIVE Names(_)
RECURSIVE Statements(_, _)

(* The calls that the grammar is recursive through: parse_expression_prec, *)
(* parse_expression and parse_statement.                                   *)
Prec(u, min) == Parse("expression", u, min)
Expression(u) == Prec(u, 0)
Statement(u) == Parse("statement", u, 0)

(* An iteration of the loops over statements: a child for the node of u. *)
NextStatement(u) ==
  LET r == Statement(u) IN With(r, IF r.node = Nil THEN u.node ELSE Add(u.node, r.node))

(* The loop: a token that no statement takes is reported and skipped. *)
Iterate(u) ==
  LET v == NextStatement(u) IN IF v.i = u.i THEN Adv(Report(v)) ELSE v

Statements(u, stops) ==
  IF Tok(u) \in stops \cup {"EOF"} THEN u ELSE Statements(Iterate(u), stops)

(* parse_block *)
Block(u) ==
  Expect(Statements(With(Expect(u, "{"), Node("block", "", << >>)), {"}"}), "}")

-----------------------------------------------------------------------------
(* Expressions. *)

(* Children of the node of u: expressions with commas between them. *)
List(u, stops) ==
  IF Tok(u) \in stops THEN u
  ELSE LET e == Expression(u)
           v == With(e, Add(u.node, e.node))
       IN IF Tok(v) = "," THEN List(Adv(v), stops) ELSE v

(* A list up to its closing token. *)
Closed(u, n, close) == Expect(List(With(u, n), {close, "EOF"}), close)

(* The [...] of a type or a variable: what is inside is not looked at. *)
Brackets(u) ==
  IF Tok(u) = "[" THEN Brackets(Expect(SkipTo(Adv(u), "]"), "]")) ELSE u

(* The pairs of a list of initial values in braces: a field is named by    *)
(* ".", and what is not a pair is dropped.                                 *)
Values(u) ==
  LET value == Expression(Adv(Adv(Adv(u))))
      field == Leaf(Tok(Adv(u)))
      e == CASE Tok(u) # "." -> LET x == Expression(u) IN With(x, Add(u.node, x.node))
             [] Tok(u) = "." /\ Tok(Adv(u)) \notin Idents -> Adv(u)
             [] Tok(u) = "." /\ Tok(Adv(u)) \in Idents /\ Tok(Adv(Adv(u))) # "=" -> Adv(Adv(u))
             [] OTHER -> With(value, Add(u.node, Node("assign", "", <<field, value.node>>)))
  IN IF Tok(u) \in {"}", "EOF"} THEN u ELSE IF Tok(e) = "," THEN Values(Adv(e)) ELSE e

(* The atoms of parse_primary: a name, or what it is an alias of, a        *)
(* number, strings, which are joined, a list of initial values, a cast, or *)
(* an expression in parentheses.                                           *)
Atom(u) ==
  CASE Tok(u) \in DOMAIN u.alias -> With(Adv(u), u.alias[Tok(u)])
    [] Tok(u) = "s" /\ Tok(Adv(u)) = "s" -> Atom(Adv(u))
    [] Tok(u) \in (Idents \cup Literals) \ DOMAIN u.alias /\ ~(Tok(u) = "s" /\ Tok(Adv(u)) = "s") ->
         With(Adv(u), Leaf(Tok(u)))
    [] Tok(u) = "[" -> Closed(Adv(u), Node("array", "", << >>), "]")
    [] Tok(u) = "{" -> Expect(Values(With(Adv(u), Node("map", "", << >>))), "}")
    [] Tok(u) = "(" /\ Tok(Adv(u)) \in Types ->
         LET v == Primary(Expect(Brackets(Adv(Adv(u))), ")"))
         IN With(v, Node("cast", Tok(Adv(u)), <<v.node>>))
    [] Tok(u) = "(" /\ Tok(Adv(u)) \notin Types -> Expect(Expression(Adv(u)), ")")
    [] OTHER -> With(u, Nil)

(* What follows ".": a method call, with a block as its last argument if   *)
(* one follows, or a member.                                               *)
Member(u) ==
  LET call == Closed(Adv(Adv(u)), Node("method", Tok(u), <<u.node>>), ")")
  IN IF Tok(u) \notin Idents THEN Report(u)
     ELSE IF Tok(Adv(u)) # "(" THEN With(Adv(u), Node("member", Tok(u), <<u.node>>))
     ELSE IF Tok(call) # "{" THEN call
     ELSE LET b == Block(call) IN With(b, Add(call.node, b.node))

(* A macro m called with the arguments that are the children of the node   *)
(* of u: parameters without an argument stay, and a message says so.       *)
Expansion(u, m) ==
  LET args == u.node.ch
      given == {k \in 1 .. Len(m.params) : k <= Len(args)}
      value(x) == args[Min({k \in given : m.params[k] = x})]
  IN With(IF Len(args) = Len(m.params) THEN u ELSE Report(u),
          Substitute(m.body, [x \in {m.params[k] : k \in given} |-> value(x)]))

(* What follows "(": the arguments of a macro, of a function, or of a      *)
(* method whose name was parsed as a member (an alias); anything else      *)
(* cannot be called, and is skipped.                                       *)
Call(u) ==
  LET n == u.node
  IN CASE n.k = "ident" /\ n.t \in DOMAIN Macros ->
            Expansion(Closed(u, Node("call", "", << >>), ")"), Macros[n.t])
       [] n.k = "ident" /\ n.t \notin DOMAIN Macros -> Closed(u, Node("call", n.t, << >>), ")")
       [] n.k = "member" -> Closed(u, Node("method", n.t, n.ch), ")")
       [] OTHER -> Expect(SkipTo(Report(u), ")"), ")")

(* The postfix loop of parse_primary. *)
Postfix(u) ==
  CASE Tok(u) = "." -> Postfix(Member(Adv(u)))
    [] Tok(u) = "[" ->
         LET e == Expect(Expression(Adv(u)), "]")
         IN Postfix(With(e, Node("index", "", <<u.node, e.node>>)))
    [] Tok(u) = "(" -> Postfix(Call(Adv(u)))
    [] Tok(u) \in {"++", "--"} -> Postfix(With(Adv(u), Node("post", Tok(u), <<u.node>>)))
    [] OTHER -> u

(* parse_primary: a unary operator applies to all of the postfix form. *)
Primary(u) ==
  IF Tok(u) \in UnaryOps
    THEN LET v == Primary(Adv(u)) IN With(v, Node("unary", Tok(u), <<v.node>>))
    ELSE LET v == Atom(u) IN IF v.node = Nil THEN v ELSE Postfix(v)

(* get_precedence *)
Precedence(t) ==
  CASE t = "?" -> 1
    [] t = "||" -> 2
    [] t = "&&" -> 3
    [] t \in {"==", "!="} -> 4
    [] t \in {"<", ">", "<=", ">="} -> 5
    [] t \in {"+", "-"} -> 6
    [] t \in {"*", "/", "%"} -> 7
    [] OTHER -> 0

(* Mutant of Climb: operators of one precedence group to the right. *)
ClimbRight(u, min) ==
  LET p == Precedence(Tok(u))
      r == Prec(Adv(u), p)
  IN IF p = 0 \/ p < min \/ Tok(u) = "?" THEN u
     ELSE With(r, Node("binary", Tok(u), <<u.node, r.node>>))

(* The loop of parse_expression_prec. *)
Climb(u, min) ==
  LET p == Precedence(Tok(u))
      then == Expect(Expression(Adv(u)), ":")
      else == Prec(then, p)
      r == Prec(Adv(u), p + 1)
  IN IF p = 0 \/ p < min THEN u
     ELSE IF Tok(u) = "?"
       THEN Climb(With(else, Node("ternary", "?", <<u.node, then.node, else.node>>)), min)
     ELSE Climb(With(r, Node("binary", Tok(u), <<u.node, r.node>>)), min)

(* The body of parse_expression_prec. *)
PrecBody(u, min) == LET v == Primary(u) IN IF v.node = Nil THEN v ELSE Climb(v, min)

-----------------------------------------------------------------------------
(* Statements. *)

Semi(u) == Optional(u, ";")

(* The right side of an assignment to the node n. *)
Assignment(u, n) ==
  LET r == Expression(Adv(u)) IN Semi(With(r, Node("assign", Tok(u), <<n, r.node>>)))

(* parse_expression_statement *)
ExpressionStatement(u) ==
  LET e == Expression(u) IN IF Tok(e) \in AssignOps THEN Assignment(e, e.node) ELSE Semi(e)

(* The rest of a declaration of type ty, from the name on. *)
Declarator(u, ty) ==
  LET v == IF Tok(Adv(u)) = "[" THEN Expect(SkipTo(Adv(Adv(u)), "]"), "]") ELSE Adv(u)
      type == IF Tok(Adv(u)) = "[" THEN "array" ELSE ty
      e == IF Tok(v) = "=" THEN Expression(Adv(v))
           ELSE With(v, IF ty = "var" THEN Nil ELSE Leaf("0"))
  IN Semi(With(e, Node("decl", Tok(u), <<e.node, Node("type", type, << >>)>>)))

(* parse_identifier_statement: an assignment, a declaration, whose type is *)
(* the first of two names, or an expression.                               *)
IdentifierStatement(u) ==
  CASE Tok(Adv(u)) \in AssignOps -> Assignment(Adv(u), Leaf(Tok(u)))
    [] Tok(Adv(u)) \in Idents -> Declarator(Adv(u), Tok(u))
    [] OTHER -> ExpressionStatement(u)

(* parse_if_statement *)
If(u) ==
  LET e == Expression(Expect(Adv(u), "("))
      r == Expression(Adv(e))
      cond == IF Tok(e) \in {"==", "!=", ">", "<", ">=", "<="}
                THEN With(r, Node("call", Tok(e), <<e.node, r.node>>)) ELSE e
      then == Statement(Expect(cond, ")"))
      else == Statement(Adv(then))
  IN IF Tok(then) = "else"
       THEN With(else, Node("if", "", <<cond.node, then.node, Node("else", "", <<else.node>>)>>))
       ELSE With(then, Node("if", "", <<cond.node, then.node>>))

(* parse_while_statement: the body is a block, or is taken for one. *)
While(u) ==
  LET cond == Expect(Expression(Expect(Adv(u), "(")), ")")
      body == Block(cond)
  IN With(body, Node("while", "", <<cond.node, body.node>>))

(* parse_do_while_statement *)
DoWhile(u) ==
  LET body == Block(Adv(u))
      cond == Expect(Expression(Expect(Expect(body, "while"), "(")), ")")
  IN With(cond, Node("do", "", <<body.node, cond.node>>))

(* parse_for_statement *)
For(u) ==
  LET v == Expect(Adv(u), "(")
      init == IF Tok(v) = ";" THEN With(v, Nil) ELSE Statement(v)
      w == Semi(init)
      cond == IF Tok(w) = ";" THEN With(w, Nil) ELSE Expression(w)
      x == Semi(cond)
      iter == IF Tok(x) = ")" THEN With(x, Nil) ELSE Expression(x)
      body == Statement(Expect(iter, ")"))
      first == IF Tok(v) # ";" /\ init.node = Nil THEN << >> ELSE <<init.node>>
  IN With(body, Node("for", "", first \o <<cond.node, iter.node, body.node>>))

(* parse_return_statement: the list goes on while there are commas. *)
Return(u) ==
  LET v == With(Adv(u), Node("return", "", << >>))
      list == List(v, {})
  IN Semi(IF Tok(v) \in {"}", ";"} THEN v
          ELSE IF list.node.ch[1] = Nil THEN With(Expression(v), v.node) ELSE list)

(* parse_switch_statement, parse_case_statement, parse_default_statement *)
Switch(u) ==
  LET e == Expect(Expression(Expect(Adv(u), "(")), ")")
  IN Expect(Statements(With(Expect(e, "{"), Node("switch", "", <<e.node>>)), {"}"}), "}")

Case(u) ==
  LET e == IF Tok(u) = "case" THEN Expression(Adv(u)) ELSE With(Adv(u), Nil)
  IN Statements(With(Expect(e, ":"), Node(Tok(u), "", IF Tok(u) = "case" THEN <<e.node>> ELSE << >>)),
                {"case", "default", "}"})

(* break, continue and fallthrough *)
Jump(u) == Semi(With(Adv(u), Node(Tok(u), "", << >>)))

(* The names of var (a, b) = e. *)
Names(u) ==
  CASE Tok(u) \in Idents -> Names(With(Adv(u), Add(u.node, Leaf(Tok(u)))))
    [] Tok(u) = "," -> Names(Adv(u))
    [] Tok(u) \in {")", "EOF"} -> u
    [] OTHER -> Report(u)

(* parse_var_decl; without a name nothing is declared, and parse_statement *)
(* goes on behind the type with an expression.                             *)
VarDecl(u) ==
  LET names == Expect(Expect(Names(With(Adv(Adv(u)), Node("tuple", "", << >>))), ")"), "=")
      e == Expression(names)
      v == Brackets(Adv(u))
      type == IF v.i = u.i + 1 THEN Tok(u) ELSE "array"
  IN IF Tok(u) = "var" /\ Tok(Adv(u)) = "(" THEN Semi(With(e, Add(names.node, e.node)))
     ELSE IF Tok(v) \in Idents THEN Declarator(v, type) ELSE ExpressionStatement(v)

(* parse_alias_statement: the table grows, but the first entry of a name   *)
(* is the one that is found; there is no node.                             *)
Alias(u) ==
  LET name == Tok(Adv(u))
      e == Expression(Adv(Adv(Adv(u))))
      table == [x \in DOMAIN e.alias \cup {name} |-> IF x \in DOMAIN e.alias THEN e.alias[x] ELSE e.node]
  IN CASE name \notin Idents -> With(Report(Adv(u)), Nil)
       [] name \in Idents /\ Tok(Adv(Adv(u))) # "=" -> With(Adv(Adv(u)), Nil)
       [] OTHER -> With(IF e.node = Nil THEN e ELSE Semi([e EXCEPT !.alias = table]), Nil)

(* The body of parse_statement. *)
StatementBody(u) ==
  CASE Tok(u) \in Types -> VarDecl(u)
    [] Tok(u) \in Idents -> IdentifierStatement(u)
    [] Tok(u) = "if" -> If(u)
    [] Tok(u) = "switch" -> Switch(u)
    [] Tok(u) \in {"case", "default"} -> Case(u)
    [] Tok(u) = "while" -> While(u)
    [] Tok(u) = "do" -> DoWhile(u)
    [] Tok(u) = "for" -> For(u)
    [] Tok(u) = "return" -> Return(u)
    [] Tok(u) = "{" -> Block(u)
    [] Tok(u) = "alias" -> Alias(u)
    [] Tok(u) \in {"break", "continue", "fallthrough"} -> Jump(u)
    [] OTHER -> ExpressionStatement(u)

Parse(what, u, min) == IF what = "statement" THEN StatementBody(u) ELSE PrecBody(u, min)

-----------------------------------------------------------------------------
Init ==
  /\ \E k \in DOMAIN Sources : source \in Sources[k]
  /\ s = [i |-> 0, err |-> 0, alias |-> << >>, node |-> Node("block", "", << >>)]
  /\ done = FALSE

(* Mutant of Step: the token is reported but not skipped. *)
StepStuck ==
  /\ ~done /\ Tok(s) \notin {"}", "EOF"}
  /\ LET v == NextStatement(s) IN s' = IF v.i = s.i THEN Report(v) ELSE v
  /\ UNCHANGED <<source, done>>

(* The loop of parse_block over the body of a function, and its end. *)
Step ==
  /\ ~done /\ Tok(s) \notin {"}", "EOF"}
  /\ s' = Iterate(s)
  /\ UNCHANGED <<source, done>>

Finish ==
  /\ ~done /\ Tok(s) \in {"}", "EOF"}
  /\ s' = Expect(s, "}") /\ done' = TRUE
  /\ UNCHANGED source

Next == Step \/ Finish

Spec == Init /\ [][Next]_parser

-----------------------------------------------------------------------------
Faithful == s.err = 0 /\ s.i = Len(toks) - 1 /\ s.node.ch = Meaning(source.tree, << >>)

(* What m begins with can continue the expression that n ends with, or m   *)
(* is taken for the name of a type n, or for what is returned.             *)
Continues(n, m) ==
  LET text == Write(n, << >>)
  IN \/ text[Len(text)] # "}" /\ Head(Write(m, << >>)) \in {"(", "[", "{", "*", "-"}
     \/ n.k = "ident" \/ n = Node("return", "", << >>)

(* A printed program is parsed to the tree it was printed from, its        *)
(* aliases expanded, without a message: precedence, grouping, postfix      *)
(* forms, the else of the nearest if, nested blocks.  Its semicolons,      *)
(* which the parser does not need, may be missing, unless a statement can  *)
(* continue the one before it.                                             *)
RoundTrip ==
  done /\ source.tree # << >> =>
    \/ Faithful
    \/ /\ source.sep = << >>
       /\ \E k \in 2 .. Len(source.tree) : Continues(source.tree[k - 1], source.tree[k])

(* The depth in parentheses and braces after n tokens. *)
Depth(open, close, n) ==
  Cardinality({k \in 1 .. n : toks[k] = open}) - Cardinality({k \in 1 .. n : toks[k] = close})

(* A body that is parsed without a message has balanced parentheses and    *)
(* braces up to its own closing brace, the last token taken: no construct  *)
(* takes the brace of another.  (In a declaration the parser skips what is *)
(* in brackets.)                                                           *)
BalancedOrReported ==
  done /\ s.err = 0 /\ (\A k \in DOMAIN toks : toks[k] # "[") =>
    /\ toks[s.i] = "}" /\ Depth("{", "}", s.i) = -1 /\ Depth("(", ")", s.i) = 0
    /\ \A n \in 0 .. s.i - 1 : Depth("{", "}", n) >= 0 /\ Depth("(", ")", n) >= 0

(* Every iteration takes a token, whatever the tokens are, so that parsing *)
(* ends; and no token is parsed twice.                                     *)
TakesAToken == [][s'.i > s.i \/ done']_parser
=============================================================================
