------------------------------ MODULE Codegen -------------------------------
(***************************************************************************)
(* What the code generator (src/src/core/codegen.c) makes of the body of a *)
(* function that returns int: the C statements, and the table of types     *)
(* that locks the type of a var.  It composes with Parser: the tree it     *)
(* gets is the one that was parsed.                                        *)
(*                                                                         *)
(* C statements are trees as well.  In C a "block" has braces, a "cswitch" *)
(* is one list with its labels in it, and a "cfor" is a header whose body  *)
(* is the C statement that follows it.  Expressions are copied.  Left out: *)
(* arrays, tuples that functions return, constants, the types of methods.  *)
(***************************************************************************)
EXTENDS Parser, Functions

CONSTANTS Rounds  \* bound on the rounds of a loop that are compared

LastOf(list) == list[Len(list)]

-----------------------------------------------------------------------------
(* Types. *)

Numeric == {"int", "bool"}

(* infer_expression_type; "none" is its NULL. *)
RECURSIVE Infer(_, _)
Infer(e, table) ==
  CASE e.k = "number" -> "int"
    [] e.k = "string" -> "string"
    [] e.k = "ident" -> IF e.t \in DOMAIN table THEN table[e.t] ELSE "none"
    [] e.k = "cast" -> e.t
    [] e.k = "ternary" -> Infer(e.ch[2], table)
    [] e.k = "binary" -> IF Level(e) < 6 THEN "bool" ELSE Infer(e.ch[1], table)
    [] OTHER -> "none"

(* type_compatible *)
Compatible(locked, incoming) == locked = incoming \/ {locked, incoming} \subseteq Numeric

(* add_local_variable: one entry for a name, wherever it is declared. *)
AddLocal(g, x, ty) ==
  [g EXCEPT !.table = [y \in DOMAIN @ \cup {x} |-> IF y = x THEN ty ELSE @[y]]]

Emit(g, c) == [g EXCEPT !.out = Append(@, c)]
Fail(g) == [g EXCEPT !.err = @ + 1]
Declare(g, x, ty, e) == Emit(AddLocal(g, x, ty), Node("decl", x, <<e, Node("type", ty, << >>)>>))

(* A declaration: that of a var without a value gives no C. *)
GenDecl(n, g) ==
  LET type == n.ch[2].t
      e == n.ch[1]
      inferred == Infer(e, g.table)
  IN CASE type # "var" -> Declare(g, n.t, type, e)
       [] type = "var" /\ e = Nil -> AddLocal(g, n.t, "var")
       [] type = "var" /\ e # Nil /\ inferred = "none" -> Fail(g)
       [] OTHER -> Declare(g, n.t, inferred, e)

IsSet(n) == n.k = "assign" /\ n.t = "=" /\ n.ch[1].k = "ident"

(* Mutant of GenAssign: the first value does not lock the type. *)
GenAssignUnlocked(n, g) ==
  LET locked == IF IsSet(n) THEN Infer(n.ch[1], g.table) ELSE "none"
      inferred == Infer(n.ch[2], g.table)
  IN CASE locked = "var" /\ inferred = "none" -> Fail(g)
       [] locked = "var" /\ inferred # "none" ->
            Emit(g, Node("decl", n.ch[1].t, <<n.ch[2], Node("type", inferred, << >>)>>))
       [] locked \notin {"var", "none"} /\ inferred # "none" /\ ~Compatible(locked, inferred) -> Fail(g)
       [] OTHER -> Emit(g, n)

(* An assignment: the first to a var declares it in C. *)
GenAssign(n, g) ==
  LET locked == IF IsSet(n) THEN Infer(n.ch[1], g.table) ELSE "none"
      inferred == Infer(n.ch[2], g.table)
  IN CASE locked = "var" /\ inferred = "none" -> Fail(g)
       [] locked = "var" /\ inferred # "none" -> Declare(g, n.ch[1].t, inferred, n.ch[2])
       [] locked \notin {"var", "none"} /\ inferred # "none" /\ ~Compatible(locked, inferred) -> Fail(g)
       [] OTHER -> Emit(g, n)

-----------------------------------------------------------------------------
(* Statements. *)

RECURSIVE Gen(_, _)
RECURSIVE GenAll(_, _)

GenAll(list, g) == IF list = << >> THEN g ELSE GenAll(Tail(list), Gen(Head(list), g))

(* The C of statements that go between braces of their own. *)
Within(list, g) == GenAll(list, [g EXCEPT !.out = << >>])
Braces(sub) == Node("block", "", sub.out)
Body(n) == IF n.k = "block" THEN n.ch ELSE <<n>>

GenIf(n, g) ==
  LET then == Within(<<n.ch[2]>>, g)
      else == Within(n.ch[3].ch, then)
  IN IF Len(n.ch) = 2
       THEN [then EXCEPT !.out = Append(g.out, Node("if", "", <<n.ch[1], Braces(then)>>))]
       ELSE [else EXCEPT !.out = Append(g.out, Node("if", "", <<n.ch[1], Braces(then), Braces(else)>>))]

GenWhile(n, g) ==
  LET sub == Within(Body(n.ch[2]), g)
  IN [sub EXCEPT !.out = Append(g.out, Node("while", "", <<n.ch[1], Braces(sub)>>))]

GenDo(n, g) ==
  LET sub == Within(Body(n.ch[1]), g)
  IN [sub EXCEPT !.out = Append(g.out, Node("do", "", <<Braces(sub), n.ch[2]>>))]

(* The header is copied, a declaration in it too; a body that is no block  *)
(* gets no braces.                                                         *)
GenFor(n, g) ==
  LET header == Emit(g, Node("cfor", "", SubSeq(n.ch, 1, 3)))
      sub == Within(n.ch[4].ch, header)
  IN IF n.ch[4].k = "block" THEN [sub EXCEPT !.out = Append(header.out, Braces(sub))]
     ELSE Gen(n.ch[4], header)

(* Mutant of GenCase: fallthrough is a comment like elsewhere. *)
GenCaseBreaks(n, g) ==
  LET sub == Within(Tail(n.ch), g)
  IN [sub EXCEPT !.out = g.out \o <<Node("case", "", <<n.ch[1]>>), Braces(Emit(sub, Node("break", "", << >>)))>>]

(* A case ends with a break unless it ends with fallthrough. *)
GenCase(n, g) ==
  LET falls == Len(n.ch) > 1 /\ LastOf(n.ch).k = "fallthrough"
      sub == Within(Tail(n.ch), g)
  IN [sub EXCEPT !.out = g.out \o <<Node("case", "", <<n.ch[1]>>),
                                    Braces(IF falls THEN sub ELSE Emit(sub, Node("break", "", << >>)))>>]

GenDefault(n, g) ==
  LET sub == Within(n.ch, g) IN [sub EXCEPT !.out = g.out \o <<Node("default", "", << >>), Braces(sub)>>]

GenSwitch(n, g) ==
  LET sub == Within(Tail(n.ch), g)
  IN [sub EXCEPT !.out = Append(g.out, Node("cswitch", "", <<n.ch[1]>> \o sub.out))]

GenReturn(n, g) == Emit(g, Node("return", "", IF n.ch = << >> THEN <<Leaf("0")>> ELSE <<n.ch[1]>>))

(* generate_node: a block gives no braces of its own, and an expression    *)
(* that is not one of five kinds gives nothing.                            *)
Gen(n, g) ==
  CASE n.k = "decl" -> GenDecl(n, g)
    [] n.k = "assign" -> GenAssign(n, g)
    [] n.k = "block" -> GenAll(n.ch, g)
    [] n.k = "if" -> GenIf(n, g)
    [] n.k = "while" -> GenWhile(n, g)
    [] n.k = "do" -> GenDo(n, g)
    [] n.k = "for" -> GenFor(n, g)
    [] n.k = "switch" -> GenSwitch(n, g)
    [] n.k = "case" -> GenCase(n, g)
    [] n.k = "default" -> GenDefault(n, g)
    [] n.k = "return" -> GenReturn(n, g)
    [] n.k = "tuple" -> Fail(g)
    [] n.k \in {"call", "method", "post", "binary", "ident", "break", "continue"} -> Emit(g, n)
    [] OTHER -> g

Generated == GenAll(s.node.ch, [err |-> 0, table |-> << >>, out |-> << >>])

-----------------------------------------------------------------------------
(* What both languages mean: the set of runs of a list of statements.  A   *)
(* run is the events it goes through and how it ends.  A condition may     *)
(* turn out either way each time, a switch may choose any of its labels.   *)

Run(ev, end) == [ev |-> ev, end |-> end]
Done == {Run(<< >>, "next")}
Event(e) == {Run(<<e>>, "next")}
Ended(how) == {Run(<< >>, how)}

Then(S, T) ==
  {x \in S : x.end # "next"}
    \cup {Run(x.ev \o y.ev, y.end) : x \in {z \in S : z.end = "next"}, y \in T}
Caught(S, how) == {IF x.end = how THEN Run(x.ev, "next") ELSE x : x \in S}

RECURSIVE Loop(_, _, _, _)
RECURSIVE Runs(_)
RECURSIVE Chosen(_, _)

Test(value, c) == Event(Node("test", value, <<c>>))

(* At most k rounds of a loop over condition c: the body, then iter. *)
Loop(c, body, iter, k) ==
  Test("false", c)
    \cup Then(Test("true", c),
              IF k = 0 THEN Ended("cut") ELSE Then(Caught(body, "continue"), Then(iter, Loop(c, body, iter, k - 1))))

(* An assignment, or a declaration with a value. *)
Single(n) ==
  CASE n = Nil \/ (n.k = "decl" /\ n.ch[1] = Nil) -> Done
    [] n.k = "decl" /\ n.ch[1] # Nil -> Event(Node("set", n.t, <<n.ch[1]>>))
    [] IsSet(n) -> Event(Node("set", n.ch[1].t, <<n.ch[2]>>))
    [] OTHER -> Event(n)

Iterated(header, body) ==
  Then(Single(header[1]), Loop(header[2], body, Single(header[3]), Rounds))

(* Arm k of a switch of Come: only fallthrough goes on to the next. *)
Chosen(arms, k) ==
  LET stmts == IF arms[k].k = "case" THEN Tail(arms[k].ch) ELSE arms[k].ch
      falls == stmts # << >> /\ LastOf(stmts).k = "fallthrough" /\ k < Len(arms)
  IN IF falls THEN Then(Runs(stmts), Chosen(arms, k + 1)) ELSE Runs(stmts)

(* The labels among the statements or arms, one of which is chosen, unless *)
(* there is no default and none is.                                        *)
Selected(e, arms, Arm(_)) ==
  LET Choose(label) == Event(Node("choose", label.k, <<e>> \o (IF label.k = "case" THEN <<label.ch[1]>> ELSE << >>)))
      labels == {k \in DOMAIN arms : arms[k].k \in {"case", "default"}}
  IN UNION {Then(Choose(arms[k]), Arm(k)) : k \in labels}
       \cup (IF \E k \in labels : arms[k].k = "default" THEN {} ELSE Choose(Nil))

(* How many of the list the first statement is: a for of C has its body    *)
(* behind it.                                                              *)
RECURSIVE Extent(_)
Extent(list) == IF Head(list).k = "cfor" /\ Len(list) > 1 THEN 1 + Extent(Tail(list)) ELSE 1
After(list) == SubSeq(list, 2, Extent(list))
Rest(list) == SubSeq(list, Extent(list) + 1, Len(list))

(* A case or default outside of a switch is a label of C. *)
Runs(list) ==
  IF list = << >> THEN Done
  ELSE LET n == Head(list)
           first ==
             CASE n.k \in {"block", "else"} -> Runs(n.ch)
               [] n.k = "if" -> Then(Test("true", n.ch[1]), Runs(<<n.ch[2]>>))
                                  \cup Then(Test("false", n.ch[1]), IF Len(n.ch) = 3 THEN Runs(<<n.ch[3]>>) ELSE Done)
               [] n.k = "while" -> Caught(Loop(n.ch[1], Runs(<<n.ch[2]>>), Done, Rounds), "break")
               [] n.k = "do" -> LET body == Runs(<<n.ch[1]>>)
                                IN Caught(Then(Caught(body, "continue"), Loop(n.ch[2], body, Done, Rounds)), "break")
               [] n.k = "for" -> Caught(Iterated(n.ch, Runs(<<n.ch[4]>>)), "break")
               [] n.k = "cfor" -> Caught(Iterated(n.ch, Runs(After(list))), "break")
               [] n.k = "switch" -> LET Arm(k) == Chosen(Tail(n.ch), k)
                                    IN Caught(Selected(n.ch[1], Tail(n.ch), Arm), "break")
               [] n.k = "cswitch" -> LET Arm(k) == Runs(SubSeq(n.ch, k + 1, Len(n.ch)))
                                     IN Caught(Selected(n.ch[1], Tail(n.ch), Arm), "break")
               [] n.k \in {"case", "default", "fallthrough"} -> Done
               [] n.k \in {"break", "continue"} -> Ended(n.k)
               [] n.k = "return" -> {Run(<<IF n.ch = << >> THEN Node("return", "", <<Leaf("0")>>) ELSE n>>, "return")}
               [] OTHER -> Single(n)
       IN Then(first, Runs(Rest(list)))

-----------------------------------------------------------------------------
(* The statements of a list, at any depth, in the order of the text. *)
RECURSIVE All(_)
All(list) ==
  IF list = << >> THEN << >>
  ELSE LET n == Head(list)
           inner == CASE n.k \in {"block", "else", "default"} -> n.ch
                      [] n.k \in {"if", "while", "switch", "case"} -> Tail(n.ch)
                      [] n.k = "do" -> <<n.ch[1]>>
                      [] n.k = "for" -> <<n.ch[1], n.ch[4]>>
                      [] OTHER -> << >>
       IN <<n>> \o All(inner) \o All(Tail(list))

Stmts == Range(All(s.node.ch))

(* Statements that the generator drops, or whose C is not what they mean:  *)
(* an expression without an effect of its own, a default that is not the   *)
(* last arm, a for over a var without a value, more values than returned.  *)
Odd(n) ==
  \/ n.k \in {"unary", "ternary", "index", "member", "cast", "array", "map", "number", "string"}
  \/ n.k = "switch" /\ \E k \in 2 .. Len(n.ch) - 1 : n.ch[k].k = "default"
  \/ n.k = "for" /\ n.ch[4].k = "decl" /\ n.ch[4].ch[1] = Nil
  \/ n.k = "return" /\ Len(n.ch) > 1

(* What the C does is what the program says: every run of the statements   *)
(* that were parsed is a run of the C made of them, and the reverse,       *)
(* through loops, switches, fallthrough, break and continue.               *)
MeaningKept ==
  done /\ source.tree # << >> /\ Faithful /\ Generated.err = 0 /\ (\A n \in Stmts : ~Odd(n)) =>
    Runs(Generated.out) = Runs(Meaning(source.tree, << >>))

-----------------------------------------------------------------------------
(* Types in C. *)

RECURSIVE VarsIn(_)
VarsIn(e) == (IF e.k = "ident" THEN {e.t} ELSE {}) \cup UNION {VarsIn(e.ch[k]) : k \in DOMAIN e.ch}

Use(x, ty) == [name |-> x, type |-> ty]
Used(e, scope) == {Use(x, IF x \in DOMAIN scope THEN scope[x] ELSE "undeclared") : x \in VarsIn(e)}
Adding(scope, x, ty) == [y \in DOMAIN scope \cup {x} |-> IF y = x THEN ty ELSE scope[y]]

(* The uses of names in a list of C statements and the types they have     *)
(* there; block are the names declared between the same braces.            *)
RECURSIVE Uses(_, _, _)
Uses(list, scope, block) ==
  IF list = << >> THEN {}
  ELSE LET n == Head(list)
           Inner(h, S) == UNION {IF n.ch[k].k = "block" THEN Uses(n.ch[k].ch, h, {}) ELSE Used(n.ch[k], h) : k \in S}
           Declared(d) == IF d.k = "decl" THEN Adding(scope, d.t, d.ch[2].t) ELSE scope
           Declaring(d) == IF d.k = "decl" THEN {Use(d.t, d.ch[2].t)} ELSE {}
           body == After(list)
       IN Uses(Rest(list), Declared(n), block \cup {u.name : u \in Declaring(n)})
            \cup CASE n.k = "decl" -> Declaring(n) \cup Used(n.ch[1], Declared(n))
                                       \cup (IF n.t \in block THEN {Use(n.t, "again")} ELSE {})
                   [] n.k = "block" -> Uses(n.ch, scope, {})
                   [] n.k = "cswitch" -> Used(n.ch[1], scope) \cup Uses(Tail(n.ch), scope, {})
                   [] n.k = "cfor" ->
                        LET h == Declared(n.ch[1])
                        IN Declaring(n.ch[1]) \cup Inner(h, {1, 2, 3}) \cup Uses(body, h, {})
                             \cup (IF body = << >> \/ body[1].k = "decl" THEN {Use("", "again")} ELSE {})
                   [] OTHER -> Inner(scope, DOMAIN n.ch)

CUses == Uses(Generated.out, << >>, {})

(* Accepted by the generator and by the C compiler, which may only warn of *)
(* a number where it wants a pointer.                                      *)
Accepted == Generated.err = 0 /\ \A u \in CUses : u.type \notin {"undeclared", "again", "var"}

-----------------------------------------------------------------------------
(* The lock, from the text alone. *)

RECURSIVE TypeOf(_, _)
TypeOf(e, f) ==
  LET both == Compatible(TypeOf(e.ch[1], f), TypeOf(e.ch[2], f))
  IN CASE e.k = "ident" -> IF e.t \in DOMAIN f THEN f[e.t] ELSE "none"
       [] e.k = "ternary" -> IF Compatible(TypeOf(e.ch[2], f), TypeOf(e.ch[3], f)) THEN TypeOf(e.ch[2], f) ELSE "mixed"
       [] e.k = "binary" /\ Level(e) >= 6 ->
            IF {TypeOf(e.ch[1], f), TypeOf(e.ch[2], f)} \subseteq Numeric THEN TypeOf(e.ch[1], f) ELSE "mixed"
       [] OTHER -> Infer(e, << >>)

(* A statement that gives the name Target(n) the value Value(n). *)
Gives(n) == IsSet(n) \/ (n.k = "decl" /\ n.ch[2].t = "var" /\ n.ch[1] # Nil)
Target(n) == IF n.k = "decl" THEN n.t ELSE n.ch[1].t
Value(n) == IF n.k = "decl" THEN n.ch[1] ELSE n.ch[2]

(* The type a name is declared with, or that of the first value given. *)
RECURSIVE Locks(_, _)
Locks(list, f) ==
  IF list = << >> THEN f
  ELSE LET n == Head(list)
       IN Locks(Tail(list),
                CASE n.k = "decl" /\ n.ch[2].t # "var" -> Adding(f, n.t, n.ch[2].t)
                  [] Gives(n) /\ Target(n) \notin DOMAIN f -> Adding(f, Target(n), TypeOf(Value(n), f))
                  [] OTHER -> f)
Lock == Locks(All(s.node.ch), << >>)

GivenTypes == {<<Target(n), TypeOf(Value(n), Lock)>> : n \in {m \in Stmts : Gives(m)}}

RECURSIVE Mentions(_, _)
Mentions(e, x) ==
  (IF e.t = x /\ e.k \in {"ident", "decl"} THEN 1 ELSE 0)
    + MapThenSumSet(LAMBDA k : Mentions(e.ch[k], x), DOMAIN e.ch)

(* The lists of statements between braces. *)
Lists == {s.node.ch} \cup {n.ch : n \in {m \in Stmts : m.k \in {"block", "default"}}}
           \cup {Tail(n.ch) : n \in {m \in Stmts : m.k = "case"}}

(* The declaration of x and its first value are in one list, and all else  *)
(* that mentions x comes after them there.                                 *)
InPlace(x) ==
  \E l \in Lists : \E i, j \in DOMAIN l :
    /\ l[i].k = "decl" /\ l[i].t = x
    /\ IF i = j THEN l[i].ch[1] # Nil /\ Mentions(l[i].ch[1], x) = 0
                ELSE i < j /\ IsSet(l[j]) /\ Target(l[j]) = x /\ l[i].ch[1] = Nil /\ Mentions(Value(l[j]), x) = 0
    /\ Mentions(s.node, x) = (IF i = j THEN 0 ELSE 1) + MapThenSumSet(LAMBDA k : Mentions(l[k], x), j .. Len(l))

(* A name declared once, and not in the header of a for, whose variables   *)
(* the table of types does not know.                                       *)
Plain ==
  /\ \A x \in Idents : Len(SelectSeq(All(s.node.ch), LAMBDA n : n.k = "decl" /\ n.t = x)) <= 1
  /\ \A n \in Stmts : ~Odd(n) /\ (n.k = "for" => n.ch[1].k # "decl")
  /\ \A g \in GivenTypes : g[2] # "mixed"

(* The type of a variable is locked by its first value: in what is         *)
(* accepted, every use of it in C has that type and every later value fits *)
(* it.  And what obeys the lock is accepted, if the first value is given   *)
(* in the block of the declaration, before any other use.                  *)
TypeLock ==
  done /\ source.tree # << >> /\ Faithful /\ Plain =>
    /\ Accepted => /\ \A u \in CUses : u.type = Lock[u.name]
                   /\ \A g \in GivenTypes : g[2] = "none" \/ Compatible(Lock[g[1]], g[2])
    /\ /\ \A g \in GivenTypes : g[2] # "none" /\ Compatible(Lock[g[1]], g[2])
       /\ \A x \in UNION {VarsIn(n) \cup (IF n.k = "decl" THEN {n.t} ELSE {}) : n \in Stmts} : InPlace(x)
       => Accepted
=============================================================================
