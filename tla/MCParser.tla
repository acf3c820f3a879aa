------------------------------ MODULE MCParser ------------------------------
(***************************************************************************)
(* Parser for TLC: every expression of two levels over one name, pairs of  *)
(* statements of every kind with and without their semicolons, loops and   *)
(* switches in each other, variables that are declared and given values,   *)
(* uses of aliases and of a macro, and all short sequences of tokens.      *)
(***************************************************************************)
EXTENDS Codegen

CONSTANTS Length \* of the sequences of tokens

a == Leaf("a")
b == Leaf("b")
one == Leaf("1")
Plus(x, y) == Node("binary", "+", <<x, y>>)
Times(x, y) == Node("binary", "*", <<x, y>>)

(* M(p) stands for p * p. *)
p == Node("ident", "p", << >>)
MCMacros == [x \in {"M"} |-> [params |-> <<"p">>, body |-> Times(p, p)]]

Binary(S, T) == {Node("binary", t, <<x, y>>) : t \in {"+", "*", "==", "&&"}, x \in S, y \in T}
Ternary(S) == {Node("ternary", "?", <<x, y, z>>) : x \in S, y \in S, z \in S}
Other(S) ==
  UNION {{Node("unary", "-", <<x>>), Node("unary", "!", <<x>>), Node("cast", "int", <<x>>),
          Node("member", "b", <<x>>), Node("post", "++", <<x>>), Node("index", "", <<x, a>>),
          Node("index", "", <<a, x>>), Node("call", "b", <<x, a>>), Node("array", "", <<x>>),
          Node("map", "", <<x, a>>), Node("method", "b", <<x, a>>), Node("method", "b", <<a, x>>)} : x \in S}
One == {a} \cup Other({a}) \cup Binary({a}, {a}) \cup Ternary({a})
Expressions == Binary(One, One) \cup Other(One) \cup Ternary({a} \cup Binary({a}, {a}) \cup Ternary({a}))

Assign(x, t, y) == Node("assign", t, <<x, y>>)
Blk(list) == Node("block", "", list)
Decl(ty, name, e) == Node("decl", name, <<e, Node("type", ty, << >>)>>)
Set == Assign(a, "=", b)
If1(n) == Node("if", "", <<a, n>>)
If2(n, m) == Node("if", "", <<a, n, Node("else", "", <<m>>)>>)

Simple ==
  {Set, Assign(Node("member", "b", <<a>>), "+=", one), Assign(Node("unary", "*", <<a>>), "=", one),
   Decl("int", "a", one), Decl("b", "a", one), Node("return", "", << >>), Node("return", "", <<a>>),
   Node("return", "", <<a, b>>), Node("break", "", << >>), a, Node("call", "b", <<a>>),
   Node("method", "b", <<a>>), Node("post", "++", <<a>>), Times(Plus(a, b), a), Node("array", "", <<a>>)}
Nested ==
  {Blk(<< >>), Blk(<<Set, Set>>), If1(Set), If2(Set, Set), If1(If2(Set, Set)), If2(Set, If1(Set)),
   If2(Blk(<<If1(Set)>>), Set), Node("while", "", <<a, Blk(<<Set>>)>>), Node("do", "", <<Blk(<<Set>>), a>>),
   Node("for", "", <<Decl("int", "a", one), a, Node("post", "++", <<a>>), Blk(<<Set>>)>>),
   Node("switch", "", <<a, Node("case", "", <<one, Set, Node("break", "", << >>)>>), Node("default", "", <<Set>>)>>)}

(* Uses of the alias A for a member, which is called, or an expression,    *)
(* and of the macro.                                                       *)
Aliased ==
  {<<Node("alias", "A", <<x>>)>> \o rest :
     x \in {a, Node("member", "b", <<a>>), Leaf("M")},
     rest \in {<<Node("call", "A", <<b>>)>>, <<Node("alias", "A", <<one>>), Set, Node("call", "A", <<b>>)>>}}
    \cup
  {<<Node("alias", "A", <<Plus(a, b)>>), Assign(a, "=", e)>> :
     e \in {Times(Leaf("A"), b), Node("call", "M", <<Leaf("A")>>), Node("call", "M", <<p>>),
            Node("call", "M", <<Node("call", "M", <<Leaf("A")>>)>>)}}

(* Bodies of loops and arms of switches that leave them, in each other.    *)
Jumps == {<<Set>>, <<If1(Node("continue", "", << >>)), Set>>, <<If1(Node("break", "", << >>))>>, <<Node("return", "", <<a>>)>>}
Loops(body) ==
  {Node("while", "", <<a, Blk(body)>>), Node("do", "", <<Blk(body), a>>),
   Node("for", "", <<Set, a, Node("post", "++", <<a>>), Blk(body)>>)}
Falls == {<< >>, <<Node("fallthrough", "", << >>)>>}
Arm1(body) == Node("case", "", <<one>> \o body)
Rest2(body) == Node("default", "", body)
Switches ==
  {Node("switch", "", <<a, Arm1(x \o y), Arm1(z)>> \o d) :
     x \in Jumps, y \in Falls, z \in {<<Set>>, << >>}, d \in {<< >>, <<Rest2(<<Set>>)>>}}
Controls ==
  UNION {Loops(x) : x \in Jumps} \cup Switches
    \cup UNION {Loops(<<x>>) : x \in Switches} \cup UNION {Loops(<<x, Set>>) : x \in UNION {Loops(y) : y \in Jumps}}
    \cup {Node("for", "", <<Set, a, Node("post", "++", <<a>>), x>>) :
            x \in {Set, If1(Set), If2(Set, Set), Node("post", "++", <<b>>)} \cup Loops(<<Set>>)}

(* What is declared, given values and used in up to three statements.      *)
Given == {one, Leaf("s"), a, b, Plus(a, one), Node("ternary", "?", <<a, b, one>>)}
Typed ==
  {Decl("var", x, Nil) : x \in {"a", "b"}}
    \cup {Decl(ty, x, e) : ty \in {"var", "int", "string"}, x \in {"a", "b"}, e \in {one, Leaf("s"), a}}
    \cup {Assign(x, "=", e) : x \in {a, b}, e \in Given}
Scoped ==
  {If1(Assign(a, "=", one)), If2(Assign(a, "=", one), Assign(a, "=", Leaf("s"))), Blk(<<Assign(a, "=", one), Assign(b, "=", a)>>),
   Blk(<<Decl("var", "b", Nil), Assign(b, "=", a)>>), Node("while", "", <<b, Blk(<<Decl("var", "a", one), Assign(a, "=", Leaf("s"))>>)>>)}
Typings ==
  {<<Decl("var", "a", Nil), x, y>> : x, y \in Typed \cup Scoped}
    \cup {<<x, y, z>> : x, y, z \in Typed}
    \cup {<<Decl("var", "a", e), Decl("var", "b", Nil), x, y>> : e \in {Nil, one}, x, y \in Scoped \cup {Assign(b, "=", a), Set}}

Programs == {<<x>> : x \in Controls} \cup {<<Assign(b, "=", e)>> : e \in Expressions} \cup {<<x, y>> : x, y \in Simple \cup Nested} \cup Aliased

Texts(S) == UNION {[1 .. n -> S] : n \in 0 .. Length}

MCSources ==
  <<{Printed(list, sep) : list \in Programs, sep \in {<< >>, <<";">>}},
    {Printed(list, <<";">>) : list \in Typings},
    {Raw(t) : t \in Texts({"a", "(", ")", "-", ",", "=", "."})},
    {Raw(t) : t \in Texts({"a", "(", ")", "{", "}", "while"})},
    {Raw(t) : t \in Texts({"a", "{", "}", ";", "if", "else", "case"})}>>
=============================================================================
