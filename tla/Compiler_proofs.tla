--------------------------- MODULE Compiler_proofs --------------------------
(***************************************************************************)
(* Theorems about the compiler's lexer and its build driver, which share   *)
(* no state.                                                               *)
(*                                                                         *)
(* The driver: what a build links, for every project, every history of     *)
(* saves and installs, and every way a build ends: each file that the      *)
(* entry file needs, once; made from the texts this build parsed, unless   *)
(* the times of the files cannot tell; and nothing is transpiled without   *)
(* need.                                                                   *)
(*                                                                         *)
(* The lexer: the tokens are right for every text and every size of the    *)
(* buffer.  It stands at one place of the text.  The invariant (Stands)    *)
(* says of it that a piece of the reference begins there, or that it is in *)
(* a block comment that does not close before; and that the tokens so far  *)
(* are the tokens before there (Matched).  That needs that the line it     *)
(* holds is a stretch of the text with a NUL behind it (Held), for the     *)
(* lexer looks ahead, and what it would see behind the NUL is another      *)
(* line's.  A step is then one piece of the reference: each scans alike in *)
(* the text and on the line (TokenEndRight), as no harmless cut parts it   *)
(* (PieceOnLine, CommentOnLine, NoCloserLeft).                             *)
(***************************************************************************)
EXTENDS Lexer, IncrementalBuild, FiniteSetTheorems, SequenceTheorems, WellFoundedInduction, TLAPS

(* The build driver. *)

(* A new head. *)
LEMMA PushProperties ==
  ASSUME NEW S, NEW s \in Seq(S), NEW e \in S
  PROVE  /\ <<e>> \o s \in Seq(S)
         /\ Len(<<e>> \o s) = Len(s) + 1
         /\ (<<e>> \o s)[1] = e
         /\ \A i \in 1 .. Len(s) : (<<e>> \o s)[i + 1] = s[i]
<1>1. <<e>> \in Seq(S) /\ Len(<<e>>) = 1 /\ <<e>>[1] = e
  OBVIOUS
<1>2. Len(s) \in Nat
  BY LenProperties
<1> QED BY <1>1, <1>2, ConcatProperties

(* A new head that is not in a list without repetitions.                   *)
LEMMA PushNew ==
  ASSUME NEW S, NEW s \in Seq(S), NEW e \in S
  PROVE  /\ ToSet(<<e>> \o s) = ToSet(s) \cup {e}
         /\ IsInjective(s) /\ e \notin ToSet(s) => IsInjective(<<e>> \o s)
<1>1. PICK n \in Nat : n = Len(s) /\ DOMAIN s = 1 .. n
  BY LenProperties
<1>2. PICK t : t = <<e>> \o s
  OBVIOUS
<1>3. /\ t \in Seq(S) /\ Len(t) = n + 1 /\ t[1] = e
      /\ \A i \in 1 .. n : t[i + 1] = s[i]
  BY <1>1, <1>2, PushProperties
<1>4. DOMAIN t = 1 .. n + 1
  BY <1>3, LenProperties
<1>5. \A i \in 1 .. n + 1 : i = 1 \/ (i - 1 \in 1 .. n /\ t[i] = s[i - 1])
  <2> SUFFICES ASSUME NEW i \in 1 .. n + 1, i # 1
               PROVE  i - 1 \in 1 .. n /\ t[i] = s[i - 1]
    OBVIOUS
  <2>1. i - 1 \in 1 .. n /\ (i - 1) + 1 = i
    BY <1>1
  <2> QED BY <1>3, <2>1
<1>6. \A i \in 1 .. n : i + 1 \in 1 .. n + 1
  BY <1>1
<1>7. ToSet(t) = ToSet(s) \cup {e}
  <2>1. 1 \in 1 .. n + 1
    BY <1>1
  <2>2. ToSet(s) = {s[i] : i \in 1 .. n} /\ ToSet(t) = {t[i] : i \in 1 .. n + 1}
    BY <1>1, <1>4 DEF ToSet
  <2>3. ASSUME NEW x \in ToSet(t)
        PROVE  x \in ToSet(s) \cup {e}
    <3>1. PICK i \in 1 .. n + 1 : x = t[i]
      BY <2>2
    <3>2. CASE i = 1
      BY <1>3, <3>1, <3>2
    <3>3. CASE i # 1
      <4>1. i - 1 \in 1 .. n /\ x = s[i - 1]
        BY <1>5, <3>1, <3>3
      <4> QED BY <2>2, <4>1
    <3> QED BY <3>2, <3>3
  <2>4. \A x \in ToSet(s) : x \in ToSet(t)
    BY <1>3, <1>6, <2>2
  <2>5. e \in ToSet(t)
    BY <1>3, <2>1, <2>2
  <2> QED BY <2>3, <2>4, <2>5
<1>8. ASSUME IsInjective(s), e \notin ToSet(s)
      PROVE  IsInjective(t)
  <2> SUFFICES ASSUME NEW i \in 1 .. n + 1, NEW j \in 1 .. n + 1, t[i] = t[j]
               PROVE  i = j
    BY <1>4 DEF IsInjective
  <2>1. \A k \in 1 .. n : s[k] # e
    BY <1>1, <1>8 DEF ToSet
  <2>2. \A k, l \in 1 .. n : s[k] = s[l] => k = l
    BY <1>1, <1>8 DEF IsInjective
  <2>3. CASE i = 1 \/ j = 1
    BY <1>3, <1>5, <2>1, <2>3
  <2>4. CASE i # 1 /\ j # 1
    <3>1. i - 1 = j - 1
      BY <1>5, <2>2, <2>4
    <3> QED BY <3>1
  <2> QED BY <2>3, <2>4
<1> QED BY <1>2, <1>7, <1>8

-----------------------------------------------------------------------------
Call == [file : Files, next : Nat, stage : Stages]

Imports(f) == ToSet(imports[f])

Depth == DOMAIN stack

(* The files whose call has begun and not returned; the one that is called *)
(* but has not begun; those whose objects are to be linked.                *)
Working == {stack[i].file : i \in {j \in Depth : stack[j].stage # "enter"}}

Called == {stack[i].file : i \in {j \in Depth : stack[j].stage = "enter"}}

Finished == {f \in Files : Object[f] \in ToSet(objects)}

(* The files whose calls wait for the innermost one. *)
Waiting == {stack[i].file : i \in {j \in Depth : j # 1}}

-----------------------------------------------------------------------------
(* Only the innermost call is not in its imports.                          *)
Chained ==
  /\ \A i \in Depth : i # 1 => stack[i].stage = "imports"
  /\ \A i \in Depth : stack[i].stage = "imports" => stack[i].next >= 1

Rest == mode = "idle" => stack = << >> /\ DOMAIN visited = {} /\ objects = << >>

Base == TypeOK /\ Chained /\ Rest /\ Working \subseteq DOMAIN visited

(* No file is worked on by two calls.                                      *)
Apart ==
  \A i, j \in Depth :
    i # j /\ stack[i].stage # "enter" /\ stack[j].stage # "enter"
      => stack[i].file # stack[j].file

(* What is visited is being worked on or finished, each file once.         *)
Once ==
  /\ DOMAIN visited = Working \cup Finished
  /\ Working \cap Finished = {}
  /\ IsInjective(objects)

(* The imports that a call has passed are visited, or called just now.     *)
Passed ==
  /\ \A i \in Depth : stack[i].stage # "enter" =>
       \A k \in DOMAIN imports[stack[i].file] :
         k < stack[i].next \/ stack[i].stage # "imports"
           => imports[stack[i].file][k] \in DOMAIN visited \cup Called
  /\ \A f \in Finished : Imports(f) \subseteq DOMAIN visited
  /\ Main \in DOMAIN visited \cup Called

OnlyNeeded == DOMAIN visited \cup Called \subseteq Needed

Walk == mode = "build" => Apart /\ Once /\ Passed /\ OnlyNeeded

-----------------------------------------------------------------------------
(* The stack after a return, after a step inside of a call, and after a    *)
(* call.                                                                   *)
Returns ==
  /\ stack' \in Seq(Call) /\ Len(stack') = Len(stack) - 1
  /\ \A i \in 1 .. Len(stack) - 1 : stack'[i] = stack[i + 1]

Turns(c) ==
  /\ stack' \in Seq(Call) /\ Len(stack') = Len(stack) /\ stack'[1] = c
  /\ \A i \in 2 .. Len(stack) : stack'[i] = stack[i]

Nests(d, c) ==
  /\ stack' \in Seq(Call) /\ Len(stack') = Len(stack) + 1
  /\ stack'[1] = d /\ stack'[2] = c
  /\ \A i \in 3 .. Len(stack) + 1 : stack'[i] = stack[i - 1]

LEMMA TopIs ==
  ASSUME TypeOK, stack # << >>
  PROVE  /\ stack \in Seq(Call) /\ Len(stack) \in Nat /\ Len(stack) >= 1
         /\ Top = stack[1] /\ Depth = 1 .. Len(stack) /\ 1 \in Depth
         /\ \A i \in Depth : stack[i] \in Call
         /\ Tail(stack) \in Seq(Call) /\ Len(Tail(stack)) = Len(stack) - 1
         /\ \A i \in 1 .. Len(stack) - 1 : Tail(stack)[i] = stack[i + 1]
<1>1. stack \in Seq(Call)
  BY DEF TypeOK, Call
<1>2. Len(stack) \in Nat /\ Len(stack) >= 1 /\ Depth = 1 .. Len(stack)
  BY <1>1, EmptySeq, LenProperties DEF Depth
<1>3. Top = stack[1]
  BY <1>1, <1>2 DEF Top
<1>4. \A i \in Depth : stack[i] \in Call
  BY <1>1, <1>2, ElementOfSeq
<1>5. /\ Tail(stack) \in Seq(Call) /\ Len(Tail(stack)) = Len(stack) - 1
      /\ \A i \in 1 .. Len(stack) - 1 : Tail(stack)[i] = stack[i + 1]
  BY <1>1, HeadTailProperties
<1> QED BY <1>1, <1>2, <1>3, <1>4, <1>5

LEMMA ReturnIs ==
  ASSUME TypeOK, stack # << >>, stack' = Tail(stack)
  PROVE  Returns
BY TopIs DEF Returns

LEMMA TurnIs ==
  ASSUME TypeOK, stack # << >>, NEW c \in Call, stack' = <<c>> \o Tail(stack)
  PROVE  Turns(c)
<1>1. /\ Len(stack) \in Nat /\ Len(stack) >= 1
      /\ Tail(stack) \in Seq(Call) /\ Len(Tail(stack)) = Len(stack) - 1
      /\ \A i \in 1 .. Len(stack) - 1 : Tail(stack)[i] = stack[i + 1]
  BY TopIs
<1>2. /\ stack' \in Seq(Call) /\ Len(stack') = Len(stack) /\ stack'[1] = c
      /\ \A i \in 1 .. Len(stack) - 1 : stack'[i + 1] = stack[i + 1]
  BY <1>1, PushProperties
<1>3. \A i \in 2 .. Len(stack) : i - 1 \in 1 .. Len(stack) - 1 /\ (i - 1) + 1 = i
  BY <1>1
<1>4. \A i \in 2 .. Len(stack) : stack'[i] = stack[i]
  BY <1>2, <1>3
<1> QED BY <1>2, <1>4 DEF Turns

LEMMA NestIs ==
  ASSUME TypeOK, stack # << >>, NEW d \in Call, NEW c \in Call,
         stack' = <<d, c>> \o Tail(stack)
  PROVE  Nests(d, c)
<1>1. /\ Len(stack) \in Nat /\ Len(stack) >= 1
      /\ Tail(stack) \in Seq(Call) /\ Len(Tail(stack)) = Len(stack) - 1
      /\ \A i \in 1 .. Len(stack) - 1 : Tail(stack)[i] = stack[i + 1]
  BY TopIs
<1>2. PICK s : s = <<d, c>>
  OBVIOUS
<1>3. s \in Seq(Call) /\ Len(s) = 2 /\ s[1] = d /\ s[2] = c
  BY <1>2
<1>4. /\ stack' \in Seq(Call) /\ Len(stack') = Len(stack) + 1
      /\ \A i \in 1 .. Len(stack) + 1 :
           stack'[i] = IF i <= 2 THEN s[i] ELSE Tail(stack)[i - 2]
  <2>1. stack' = s \o Tail(stack)
    BY <1>2
  <2> QED BY <1>1, <1>3, <2>1, ConcatProperties
<1>5. stack'[1] = d /\ stack'[2] = c
  BY <1>1, <1>3, <1>4
<1>6. ASSUME NEW i \in 3 .. Len(stack) + 1
      PROVE  stack'[i] = stack[i - 1]
  <2>1. i \in 1 .. Len(stack) + 1 /\ ~(i <= 2) /\ i - 2 \in 1 .. Len(stack) - 1 /\ (i - 2) + 1 = i - 1
    BY <1>1
  <2> QED BY <1>1, <1>4, <2>1
<1> QED BY <1>4, <1>5, <1>6 DEF Nests

(* What is working, called and waiting, by the stage of the innermost call.*)
LEMMA Split ==
  ASSUME TypeOK, Chained, stack # << >>
  PROVE  /\ stack[1].stage = "enter" => Working = Waiting /\ Called = {stack[1].file}
         /\ stack[1].stage # "enter" => Working = Waiting \cup {stack[1].file} /\ Called = {}
<1>1. 1 \in Depth
  BY TopIs
<1>2. \A i \in Depth : i # 1 => stack[i].stage # "enter"
  BY DEF Chained
<1>3. CASE stack[1].stage = "enter"
  <2>1. Called = {stack[1].file}
    BY <1>1, <1>2, <1>3 DEF Called
  <2>2. Working = Waiting
    BY <1>1, <1>2, <1>3 DEF Working, Waiting
  <2> QED BY <1>3, <2>1, <2>2
<1>4. CASE stack[1].stage # "enter"
  <2>1. Called = {}
    BY <1>1, <1>2, <1>4 DEF Called
  <2>2. Working = Waiting \cup {stack[1].file}
    BY <1>1, <1>2, <1>4 DEF Working, Waiting
  <2> QED BY <1>4, <2>1, <2>2
<1> QED BY <1>3, <1>4

LEMMA NoStack ==
  ASSUME stack = << >>
  PROVE  Depth = {} /\ Working = {} /\ Called = {} /\ Chained
<1>1. Depth = {}
  BY DEF Depth
<1> QED BY <1>1 DEF Working, Called, Chained

(* The calls after a return.                                               *)
LEMMA Returned ==
  ASSUME TypeOK, Chained, stack # << >>, Returns
  PROVE  /\ Chained' /\ Working' = Waiting /\ Called' = {}
         /\ \A i \in Depth' : /\ i \in Nat /\ i + 1 \in Depth /\ i + 1 # 1
                              /\ stack'[i] = stack[i + 1] /\ stack'[i].stage = "imports"
<1>1. PICK l \in Nat : l = Len(stack) /\ l >= 1
  BY TopIs
<1>2. Depth = 1 .. l /\ Depth' = 1 .. l - 1
  <2>1. Depth' = 1 .. Len(stack')
    BY LenProperties DEF Depth, Returns
  <2> QED BY <1>1, <2>1, TopIs DEF Returns
<1>3. \A i \in 1 .. l - 1 : i \in Nat /\ i + 1 \in 1 .. l /\ i + 1 # 1
  BY <1>1
<1>4. \A i \in Depth' : /\ i \in Nat /\ i + 1 \in Depth /\ i + 1 # 1
                        /\ stack'[i] = stack[i + 1] /\ stack'[i].stage = "imports"
  BY <1>1, <1>2, <1>3 DEF Returns, Chained
<1>5. \A i \in Depth : i # 1 => i - 1 \in Depth' /\ stack'[i - 1] = stack[i]
  <2> SUFFICES ASSUME NEW i \in 1 .. l, i # 1
               PROVE  i - 1 \in 1 .. l - 1 /\ stack'[i - 1] = stack[i]
    BY <1>2
  <2>1. i - 1 \in 1 .. l - 1 /\ (i - 1) + 1 = i
    BY <1>1
  <2> QED BY <1>1, <2>1 DEF Returns
<1>6. Called' = {}
  BY <1>4 DEF Called
<1>7. Working' = Waiting
  <2>1. Working' = {stack'[i].file : i \in Depth'}
    BY <1>4 DEF Working
  <2>2. \A i \in Depth' : stack'[i].file \in Waiting
    BY <1>4 DEF Waiting
  <2>3. \A i \in Depth : i # 1 => stack[i].file \in Working'
    BY <1>5, <2>1
  <2> QED BY <2>1, <2>2, <2>3 DEF Waiting
<1>8. Chained'
  BY <1>4 DEF Chained
<1> QED BY <1>4, <1>6, <1>7, <1>8

(* The calls after a step inside of the innermost call.                    *)
LEMMA Turned ==
  ASSUME TypeOK, Chained, stack # << >>, NEW c, Turns(c),
         c.stage = "imports" => c.next >= 1, c.stage # "enter"
  PROVE  /\ Chained' /\ Working' = Waiting \cup {c.file} /\ Called' = {}
         /\ Depth' = Depth /\ 1 \in Depth /\ stack'[1] = c
         /\ \A i \in Depth : i # 1 => stack'[i] = stack[i]
<1>1. PICK l \in Nat : l = Len(stack) /\ l >= 1
  BY TopIs
<1>2. Depth = 1 .. l /\ Depth' = 1 .. l /\ 1 \in 1 .. l
  <2>1. Depth' = 1 .. Len(stack')
    BY LenProperties DEF Depth, Turns
  <2> QED BY <1>1, <2>1, TopIs DEF Turns
<1>3. \A i \in 1 .. l : i # 1 => i \in 2 .. l
  BY <1>1
<1>4. /\ stack'[1] = c
      /\ \A i \in Depth : i # 1 => stack'[i] = stack[i]
  BY <1>1, <1>2, <1>3 DEF Turns
<1>5. Chained'
  BY <1>2, <1>4 DEF Chained
<1>6. Called' = {}
  BY <1>2, <1>4 DEF Called, Chained
<1>7. Working' = Waiting \cup {c.file}
  <2>1. Working' = {stack'[i].file : i \in Depth}
    BY <1>2, <1>4 DEF Working, Chained
  <2> QED BY <1>2, <1>4, <2>1 DEF Waiting
<1> QED BY <1>2, <1>4, <1>5, <1>6, <1>7

(* The calls after a call.                                                 *)
LEMMA Nested ==
  ASSUME TypeOK, Chained, stack # << >>, NEW d, NEW c, Nests(d, c),
         c.stage = "imports", c.next >= 1, d.stage = "enter"
  PROVE  /\ Chained' /\ Working' = Waiting \cup {c.file} /\ Called' = {d.file}
         /\ stack'[1] = d /\ stack'[2] = c
         /\ \A i \in Depth' : /\ i \in Nat
                              /\ i = 1 \/ i = 2 \/
                                 (i - 1 \in Depth /\ i - 1 # 1 /\ stack'[i] = stack[i - 1])
<1>1. PICK l \in Nat : l = Len(stack) /\ l >= 1
  BY TopIs
<1>2. Depth = 1 .. l /\ Depth' = 1 .. l + 1 /\ 1 \in Depth' /\ 2 \in Depth'
  <2>1. Depth' = 1 .. Len(stack')
    BY LenProperties DEF Depth, Nests
  <2> QED BY <1>1, <2>1, TopIs DEF Nests
<1>3. ASSUME NEW i \in 1 .. l + 1, i # 1, i # 2
      PROVE  i - 1 \in 1 .. l /\ i - 1 # 1 /\ i \in 3 .. l + 1
  BY <1>1, <1>3
<1>4. /\ stack'[1] = d /\ stack'[2] = c
      /\ \A i \in Depth' : /\ i \in Nat
                           /\ i = 1 \/ i = 2 \/
                              (i - 1 \in Depth /\ i - 1 # 1 /\ stack'[i] = stack[i - 1])
  BY <1>1, <1>2, <1>3 DEF Nests
<1>5. ASSUME NEW i \in Depth, i # 1
      PROVE  i + 1 \in Depth' /\ i + 1 # 1 /\ stack'[i + 1] = stack[i]
  <2>1. i + 1 \in 3 .. l + 1 /\ (i + 1) - 1 = i /\ i + 1 # 1
    BY <1>1, <1>2, <1>5
  <2> QED BY <1>1, <1>2, <2>1 DEF Nests
<1>6. \A i \in Depth' : i # 1 => stack'[i].stage = "imports" /\ stack'[i].next >= 1
  BY <1>4 DEF Chained
<1>7. Chained'
  BY <1>4, <1>6 DEF Chained
<1>8. Called' = {d.file}
  BY <1>2, <1>4, <1>6 DEF Called
<1>9. Working' = Waiting \cup {c.file}
  <2>1. Working' = {stack'[i].file : i \in {j \in Depth' : j # 1}}
    BY <1>4, <1>6 DEF Working
  <2>2. \A i \in Depth' : i # 1 => stack'[i].file \in Waiting \cup {c.file}
    BY <1>4 DEF Waiting
  <2>3. \A i \in Depth : i # 1 => stack[i].file \in Working'
    BY <1>5, <2>1
  <2>4. c.file \in Working'
    BY <1>2, <1>4, <2>1
  <2> QED BY <2>1, <2>2, <2>3, <2>4 DEF Waiting
<1> QED BY <1>4, <1>7, <1>8, <1>9

-----------------------------------------------------------------------------
(* What a step does to the build.                                          *)
InnerFile == stack[1].file

Quiet == UNCHANGED <<imports, build>>

Exits == Exit /\ imports' = imports

Again ==
  /\ stack # << >> /\ stack[1].stage = "enter" /\ InnerFile \in DOMAIN visited
  /\ Returns /\ UNCHANGED <<imports, visited, objects, mode>>

Opens ==
  /\ stack # << >> /\ stack[1].stage = "enter" /\ InnerFile \notin DOMAIN visited
  /\ Turns(Frame(InnerFile, "imports", 1)) /\ UNCHANGED <<imports, objects, mode>>
  /\ visited' = [g \in DOMAIN visited \cup {InnerFile} |->
                   IF g = InnerFile THEN source[InnerFile] ELSE visited[g]]

Descends ==
  /\ stack # << >> /\ stack[1].stage = "imports"
  /\ stack[1].next \in DOMAIN imports[InnerFile]
  /\ Nests(Frame(imports[InnerFile][stack[1].next], "enter", 0),
           Frame(InnerFile, "imports", stack[1].next + 1))
  /\ UNCHANGED <<imports, visited, objects, mode>>

Proceeds(s) ==
  /\ stack # << >> /\ stack[1].stage \in {"imports", "check", "transpile"}
  /\ stack[1].stage = "imports" => stack[1].next \notin DOMAIN imports[InnerFile]
  /\ s \in {"check", "transpile", "compile"} /\ (stack[1].stage = "imports" <=> s = "check")
  /\ Turns(Frame(InnerFile, s, 0)) /\ UNCHANGED <<imports, visited, objects, mode>>

Links ==
  /\ stack # << >> /\ stack[1].stage \in {"check", "compile"}
  /\ Returns /\ objects' = <<Object[InnerFile]>> \o objects
  /\ UNCHANGED <<imports, visited, mode>>

Skips ==
  /\ stack # << >> /\ stack[1].stage = "transpile" /\ mode = "genc"
  /\ Returns /\ UNCHANGED <<imports, visited, objects, mode>>

Begins ==
  /\ mode = "idle" /\ mode' \in {"build", "genc"}
  /\ stack' = <<Frame(Main, "enter", 0)>> /\ UNCHANGED <<imports, visited, objects>>

LEMMA FrameIs ==
  ASSUME NEW f \in Files, NEW s \in Stages, NEW n \in Nat
  PROVE  /\ Frame(f, s, n) \in Call /\ Frame(f, s, n).file = f
         /\ Frame(f, s, n).stage = s /\ Frame(f, s, n).next = n
BY DEF Frame, Call

LEMMA ImportList ==
  ASSUME TypeOK, NEW f \in Files
  PROVE  /\ imports[f] \in Seq(Files) /\ Len(imports[f]) \in Nat
         /\ DOMAIN imports[f] = 1 .. Len(imports[f])
         /\ \A k \in DOMAIN imports[f] : imports[f][k] \in Files
<1>1. imports[f] \in Seq(Files)
  BY FilesAssumption DEF TypeOK
<1>2. DOMAIN imports[f] = 1 .. Len(imports[f]) /\ Len(imports[f]) \in Nat
  BY <1>1, LenProperties
<1> QED BY <1>1, <1>2, ElementOfSeq

LEMMA InnerCall ==
  ASSUME TypeOK, stack # << >>
  PROVE  Top = stack[1] /\ InnerFile \in Files /\ stack[1].next \in Nat /\ stack[1].stage \in Stages
BY TopIs DEF Call, InnerFile

LEMMA EnterDoes == Base /\ Enter => Again \/ Exits \/ Opens
<1> SUFFICES ASSUME Base, Enter
             PROVE  Again \/ Exits \/ Opens
  OBVIOUS
<1>0. /\ TypeOK /\ stack # << >> /\ imports' = imports
      /\ Top = stack[1] /\ InnerFile \in Files /\ stack[1].stage = "enter" /\ InnerFile = Top.file
  BY InnerCall DEF Base, Enter, At, InnerFile
<1>1. CASE InnerFile \in DOMAIN visited /\ stack' = Tail(stack) /\ UNCHANGED <<visited, objects, counter, mode>>
  BY <1>0, <1>1, ReturnIs DEF Again
<1>2. CASE Exit
  BY <1>0, <1>2 DEF Exits
<1>3. CASE /\ InnerFile \notin DOMAIN visited
           /\ visited' = [g \in DOMAIN visited \cup {InnerFile} |->
                            IF g = InnerFile THEN source[InnerFile] ELSE visited[g]]
           /\ Goto("imports", 1) /\ UNCHANGED <<objects, counter, mode>>
  <2>1. Frame(InnerFile, "imports", 1) \in Call
    BY <1>0, FrameIs DEF Stages
  <2>2. stack' = <<Frame(InnerFile, "imports", 1)>> \o Tail(stack)
    BY <1>0, <1>3 DEF Goto
  <2> QED BY <1>0, <1>3, <2>1, <2>2, TurnIs DEF Opens
<1> QED BY <1>0, <1>1, <1>2, <1>3 DEF Enter

LEMMA GotoIs ==
  ASSUME TypeOK, stack # << >>, NEW s \in Stages, NEW n \in Nat, Goto(s, n)
  PROVE  Turns(Frame(InnerFile, s, n))
<1>1. Frame(InnerFile, s, n) \in Call /\ Top.file = InnerFile
  BY InnerCall, FrameIs DEF InnerFile
<1>2. stack' = <<Frame(InnerFile, s, n)>> \o Tail(stack)
  BY <1>1 DEF Goto
<1> QED BY <1>1, <1>2, TurnIs

LEMMA ImportDoes == Base /\ Import => Descends \/ Exits \/ \E s : Proceeds(s)
<1> SUFFICES ASSUME Base, Import
             PROVE  Descends \/ Exits \/ \E s : Proceeds(s)
  OBVIOUS
<1>0. /\ TypeOK /\ stack # << >> /\ imports' = imports
      /\ Top = stack[1] /\ InnerFile \in Files /\ stack[1].stage = "imports"
      /\ InnerFile = Top.file /\ stack[1].next \in Nat
  BY InnerCall DEF Base, Import, At, InnerFile
<1> PICK n \in Nat : n = stack[1].next
  BY <1>0
<1>1. CASE Exit
  BY <1>0, <1>1 DEF Exits
<1>2. CASE /\ n \in DOMAIN imports[InnerFile]
           /\ stack' = <<Frame(imports[InnerFile][n], "enter", 0),
                         Frame(InnerFile, "imports", n + 1)>> \o Tail(stack)
           /\ UNCHANGED <<visited, objects, counter, mode>>
  <2>1. imports[InnerFile][n] \in Files
    BY <1>0, <1>2, ImportList
  <2>2. /\ Frame(imports[InnerFile][n], "enter", 0) \in Call
        /\ Frame(InnerFile, "imports", n + 1) \in Call
    BY <1>0, <2>1, FrameIs DEF Stages
  <2> QED BY <1>0, <1>2, <2>2, NestIs DEF Descends
<1>3. CASE /\ n \notin DOMAIN imports[InnerFile] /\ Goto("check", 0)
           /\ UNCHANGED <<visited, objects, counter, mode>>
  <2>1. Turns(Frame(InnerFile, "check", 0))
    BY <1>0, <1>3, GotoIs DEF Stages
  <2> QED BY <1>0, <1>3, <2>1 DEF Proceeds
<1> QED BY <1>0, <1>1, <1>2, <1>3 DEF Import

LEMMA CheckDoes == Base /\ Check => Links \/ \E s : Proceeds(s)
<1> SUFFICES ASSUME Base, Check
             PROVE  Links \/ \E s : Proceeds(s)
  OBVIOUS
<1>0. /\ TypeOK /\ stack # << >> /\ imports' = imports /\ visited' = visited /\ mode' = mode
      /\ Top = stack[1] /\ InnerFile \in Files /\ stack[1].stage = "check" /\ InnerFile = Top.file
  BY InnerCall DEF Base, Check, At, InnerFile
<1>1. ASSUME NEW s \in {"transpile", "compile"}, Goto(s, 0), objects' = objects
      PROVE  Proceeds(s)
  <2>1. Turns(Frame(InnerFile, s, 0))
    BY <1>0, <1>1, GotoIs DEF Stages
  <2> QED BY <1>0, <1>1, <2>1 DEF Proceeds
<1>2. CASE Return(InnerFile)
  BY <1>0, <1>2, ReturnIs DEF Return, Links
<1> QED BY <1>0, <1>1, <1>2 DEF Check

LEMMA TranspileDoes == Base /\ Transpile => Exits \/ Skips \/ Proceeds("compile")
<1> SUFFICES ASSUME Base, Transpile
             PROVE  Exits \/ Skips \/ Proceeds("compile")
  OBVIOUS
<1>0. /\ TypeOK /\ stack # << >> /\ imports' = imports
      /\ Top = stack[1] /\ InnerFile \in Files /\ stack[1].stage = "transpile" /\ InnerFile = Top.file
  BY InnerCall DEF Base, Transpile, At, InnerFile
<1>1. CASE Exit
  BY <1>0, <1>1 DEF Exits
<1>2. CASE Forced /\ stack' = Tail(stack) /\ UNCHANGED <<visited, objects, mode>>
  BY <1>0, <1>2, ReturnIs DEF Skips, Forced
<1>3. CASE Goto("compile", 0) /\ UNCHANGED <<visited, objects, mode>>
  <2>1. Turns(Frame(InnerFile, "compile", 0))
    BY <1>0, <1>3, GotoIs DEF Stages
  <2> QED BY <1>0, <1>3, <2>1 DEF Proceeds
<1> QED BY <1>0, <1>1, <1>2, <1>3 DEF Transpile

LEMMA CompileDoes == Base /\ Compile => Exits \/ Links
<1> SUFFICES ASSUME Base, Compile
             PROVE  Exits \/ Links
  OBVIOUS
<1>0. /\ TypeOK /\ stack # << >> /\ imports' = imports
      /\ Top = stack[1] /\ InnerFile \in Files /\ stack[1].stage = "compile" /\ InnerFile = Top.file
  BY InnerCall DEF Base, Compile, At, InnerFile
<1>1. CASE Exit
  BY <1>0, <1>1 DEF Exits
<1>2. CASE Return(InnerFile) /\ UNCHANGED <<visited, counter, mode>>
  BY <1>0, <1>2, ReturnIs DEF Return, Links
<1> QED BY <1>0, <1>1, <1>2 DEF Compile

LEMMA WhichStep ==
  ASSUME Base, [Next]_vars
  PROVE  \/ Quiet \/ Exits \/ Begins \/ Again \/ Opens \/ Descends
         \/ Links \/ Skips \/ \E s : Proceeds(s)
<1>1. CASE UNCHANGED vars
  BY <1>1 DEF vars, Quiet
<1>2. CASE Tick \/ Install \/ \E f \in Files : Delete(f) \/ \E fault \in {"none", "types"} : Save(f, fault)
  BY <1>2 DEF Tick, Install, Delete, Save, Quiet
<1>3. CASE \E m \in {"build", "genc"} : Start(m)
  BY <1>3 DEF Start, Begins
<1>4. CASE Interrupt \/ Finish
  BY <1>4 DEF Interrupt, Finish, Exits
<1> QED BY <1>1, <1>2, <1>3, <1>4, EnterDoes, ImportDoes, CheckDoes, TranspileDoes, CompileDoes
        DEF Next, Running

-----------------------------------------------------------------------------
(* Types. *)

LEMMA NoCall ==
  ASSUME stack' = << >>
  PROVE  Depth' = {} /\ Working' = {} /\ Called' = {} /\ Chained' /\ stack' \in Seq(Call)
<1>1. Depth' = {}
  BY DEF Depth
<1> QED BY <1>1 DEF Working, Called, Chained

LEMMA FirstCall ==
  ASSUME Begins
  PROVE  /\ stack' \in Seq(Call) /\ Depth' = {1} /\ stack'[1] = Frame(Main, "enter", 0)
         /\ Working' = {} /\ Called' = {Main} /\ Chained'
<1>1. PICK c : c = Frame(Main, "enter", 0)
  OBVIOUS
<1>2. c \in Call /\ c.stage = "enter" /\ c.file = Main
  BY <1>1, FrameIs, FilesAssumption DEF Stages
<1>3. stack' = <<c>>
  BY <1>1 DEF Begins
<1>4. stack' \in Seq(Call) /\ stack'[1] = c /\ Len(stack') = 1
  BY <1>2, <1>3
<1>5. Depth' = {1}
  BY <1>3 DEF Depth
<1> QED BY <1>1, <1>2, <1>4, <1>5 DEF Working, Called, Chained

(* The calls and the files visited, in every step of a build.              *)
LEMMA CallsStep ==
  ASSUME Base, [Next]_vars
  PROVE  /\ stack' \in Seq(Call) /\ Chained' /\ Rest'
         /\ Working' \subseteq DOMAIN visited'
<1>0. TypeOK /\ Chained /\ Rest /\ Working \subseteq DOMAIN visited
  BY DEF Base
<1>1. CASE Quiet
  BY <1>0, <1>1 DEF Quiet, build, Chained, Rest, Working, Depth, TypeOK, Call
<1>2. CASE Exits
  <2>1. stack' = << >> /\ DOMAIN visited' = {} /\ objects' = << >>
    BY <1>2 DEF Exits, Exit
  <2> QED BY <2>1, NoCall DEF Rest
<1>3. CASE Begins
  BY <1>3, FirstCall DEF Begins, Rest
<1>4. CASE Again \/ Links \/ Skips
  <2>1. stack # << >> /\ Returns /\ mode' = mode /\ visited' = visited
    BY <1>4 DEF Again, Links, Skips
  <2>2. mode # "idle"
    BY <1>0, <2>1 DEF Rest
  <2>3. Chained' /\ Working' = Waiting
    BY <1>0, <2>1, Returned
  <2>4. Waiting \subseteq Working
    BY <1>0, <2>1, Split
  <2> QED BY <1>0, <2>1, <2>2, <2>3, <2>4 DEF Returns, Rest
<1>5. CASE Opens
  <2>1. /\ stack # << >> /\ InnerFile \in Files /\ mode # "idle" /\ mode' = mode
        /\ Turns(Frame(InnerFile, "imports", 1)) /\ DOMAIN visited' = DOMAIN visited \cup {InnerFile}
    BY <1>0, <1>5, InnerCall DEF Opens, Rest
  <2>2. PICK c : c = Frame(InnerFile, "imports", 1)
    OBVIOUS
  <2>3. c.stage = "imports" /\ c.next = 1 /\ c.file = InnerFile
    BY <2>2 DEF Frame
  <2>4. Chained' /\ Working' = Waiting \cup {InnerFile}
    BY <1>0, <2>1, <2>2, <2>3, Turned
  <2>5. Waiting \subseteq Working
    BY <1>0, <2>1, Split
  <2> QED BY <1>0, <2>1, <2>4, <2>5 DEF Turns, Rest
<1>6. CASE Descends
  <2>1. /\ stack # << >> /\ mode # "idle" /\ mode' = mode /\ visited' = visited
        /\ stack[1].stage = "imports" /\ stack[1].next \in Nat
    BY <1>0, <1>6, InnerCall DEF Descends, Rest
  <2>2. PICK d, c : /\ d = Frame(imports[InnerFile][stack[1].next], "enter", 0)
                    /\ c = Frame(InnerFile, "imports", stack[1].next + 1)
    OBVIOUS
  <2>3. c.stage = "imports" /\ c.next >= 1 /\ c.file = InnerFile /\ d.stage = "enter" /\ Nests(d, c)
    BY <1>6, <2>1, <2>2 DEF Frame, Descends
  <2>4. Chained' /\ Working' = Waiting \cup {InnerFile}
    BY <1>0, <2>1, <2>3, Nested
  <2>5. Working = Waiting \cup {InnerFile}
    BY <1>0, <2>1, Split DEF InnerFile
  <2> QED BY <1>0, <2>1, <2>3, <2>4, <2>5 DEF Nests, Rest
<1>7. ASSUME NEW s, Proceeds(s)
      PROVE  /\ stack' \in Seq(Call) /\ Chained' /\ Rest'
             /\ Working' \subseteq DOMAIN visited'
  <2>1. /\ stack # << >> /\ mode # "idle" /\ mode' = mode /\ visited' = visited
        /\ stack[1].stage # "enter" /\ Turns(Frame(InnerFile, s, 0))
        /\ s \in {"check", "transpile", "compile"}
    BY <1>0, <1>7 DEF Proceeds, Rest
  <2>2. PICK c : c = Frame(InnerFile, s, 0)
    OBVIOUS
  <2>3. c.stage \notin {"enter", "imports"} /\ c.file = InnerFile /\ Turns(c)
    BY <2>1, <2>2 DEF Frame
  <2>4. Chained' /\ Working' = Waiting \cup {InnerFile}
    BY <1>0, <2>1, <2>3, Turned
  <2>5. Working = Waiting \cup {InnerFile}
    BY <1>0, <2>1, Split DEF InnerFile
  <2> QED BY <1>0, <2>1, <2>4, <2>5 DEF Turns, Rest
<1> QED BY <1>1, <1>2, <1>3, <1>4, <1>5, <1>6, <1>7, WhichStep

(* Times and names only grow, and with them what they are taken from.      *)
LEMMA SourceGrows ==
  ASSUME TypeOK, clock' \in Nat, saves' \in Nat, clock <= clock', saves <= saves'
  PROVE  Source \subseteq Source'
<1>1. clock \in Nat /\ saves \in Nat
  BY BoundsAssumption DEF TypeOK
<1>2. 0 .. clock \subseteq 0 .. clock' /\ 0 .. saves \subseteq 0 .. saves'
  BY <1>1
<1> QED BY <1>2 DEF Source

LEMMA Numbers ==
  ASSUME TypeOK
  PROVE  /\ clock \in Nat /\ saves \in Nat /\ clock >= 1
         /\ MaxTime[imports] \in Nat /\ MaxSaves[imports] \in Nat
         /\ compiler.version \in Nat /\ compiler.version <= saves
         /\ compiler.mtime \in Nat /\ compiler.mtime <= clock
         /\ \A f \in Files : /\ source[f].text \in Nat /\ source[f].text <= saves
                             /\ source[f].mtime \in Nat /\ source[f].mtime <= clock
         /\ \A f \in DOMAIN visited :
              /\ f \in Files /\ visited[f] \in Source
              /\ visited[f].text \in Nat /\ visited[f].text <= saves
              /\ visited[f].mtime \in Nat /\ visited[f].mtime <= clock
         /\ \A f \in Files : /\ ccache[f] \in Generated /\ object[Object[f]] \in Generated
                             /\ ccache[f].mtime \in Nat /\ object[Object[f]].mtime \in Nat
                             /\ ccache[f].text \in Nat /\ ccache[f].version \in Nat
<1>1. MaxTime[imports] \in Nat /\ MaxSaves[imports] \in Nat
  BY BoundsAssumption DEF TypeOK
<1>2. clock \in Nat /\ saves \in Nat /\ clock >= 1
  BY <1>1 DEF TypeOK
<1>3. \A x \in Source : /\ x.text \in Nat /\ x.text <= saves
                        /\ x.mtime \in Nat /\ x.mtime <= clock
  BY <1>2 DEF Source
<1>4. \A f \in Files : source[f] \in Source
  BY DEF TypeOK
<1>5. \A f \in DOMAIN visited : f \in Files /\ visited[f] \in Source
  BY DEF TypeOK
<1>6. /\ compiler.version \in Nat /\ compiler.version <= saves
      /\ compiler.mtime \in Nat /\ compiler.mtime <= clock
  BY <1>2 DEF TypeOK
<1>7. \A f \in Files : ccache[f] \in Generated /\ object[Object[f]] \in Generated
  BY DEF TypeOK
<1>8. \A x \in Generated : x.mtime \in Nat /\ x.text \in Nat /\ x.version \in Nat
  BY DEF Generated
<1> QED BY <1>1, <1>2, <1>3, <1>4, <1>5, <1>6, <1>7, <1>8

(* The sources, the compiler and the clock.                                *)
SourcesTyped ==
  /\ imports \in Projects
  /\ clock \in 1 .. MaxTime[imports] /\ saves \in 0 .. MaxSaves[imports]
  /\ source \in [Files -> Source]
  /\ compiler \in [version : 0 .. saves, mtime : 1 .. clock]

VisitedTyped == DOMAIN visited \subseteq Files /\ visited \in [DOMAIN visited -> Source]

CacheTyped ==
  /\ ccache \in [Files -> Generated]
  /\ object \in [{Object[f] : f \in Files} -> Generated]

LEMMA RunningKeeps ==
  ASSUME Running \/ Interrupt
  PROVE  UNCHANGED <<imports, clock, saves, source, compiler>>
BY DEF Running, Interrupt, Enter, Import, Check, Transpile, Compile, Finish, files

LEMMA SourceStep ==
  ASSUME TypeOK, [Next]_vars
  PROVE  /\ SourcesTyped' /\ Source \subseteq Source'
         /\ clock <= clock' /\ imports' = imports
<1>0. /\ imports \in Projects /\ clock \in 1 .. MaxTime[imports] /\ saves \in 0 .. MaxSaves[imports]
      /\ source \in [Files -> Source] /\ compiler \in [version : 0 .. saves, mtime : 1 .. clock]
      /\ clock \in Nat /\ saves \in Nat /\ MaxTime[imports] \in Nat /\ MaxSaves[imports] \in Nat
  BY Numbers DEF TypeOK
<1>1. CASE UNCHANGED <<imports, clock, saves, source, compiler>>
  BY <1>0, <1>1 DEF SourcesTyped, Source
<1>2. CASE Tick
  <2>1. /\ clock' = clock + 1 /\ clock < MaxTime[imports]
        /\ imports' = imports /\ saves' = saves /\ source' = source /\ compiler' = compiler
    BY <1>2 DEF Tick, files
  <2>2. Source \subseteq Source'
    BY <1>0, <2>1, SourceGrows
  <2>3. source' \in [Files -> Source']
    BY <1>0, <2>1, <2>2
  <2>4. compiler' \in [version : 0 .. saves', mtime : 1 .. clock']
    BY <1>0, <2>1
  <2>5. clock' \in 1 .. MaxTime[imports]' /\ clock <= clock'
    BY <1>0, <2>1
  <2> QED BY <1>0, <2>1, <2>2, <2>3, <2>4, <2>5 DEF SourcesTyped
<1>3. ASSUME NEW f \in Files, NEW fault \in {"none", "types", "absent"}, NEW time \in 0 .. clock,
             source' = [source EXCEPT ![f] = [text |-> saves + 1, fault |-> fault, mtime |-> time]],
             saves < MaxSaves[imports], saves' = saves + 1, UNCHANGED <<imports, clock, compiler>>
      PROVE  SourcesTyped' /\ Source \subseteq Source' /\ clock <= clock' /\ imports' = imports
  <2>1. Source \subseteq Source'
    BY <1>0, <1>3, SourceGrows
  <2>2. saves' \in 0 .. MaxSaves[imports]' /\ saves + 1 \in 0 .. saves'
    BY <1>0, <1>3
  <2>3. [text |-> saves + 1, fault |-> fault, mtime |-> time] \in Source'
    BY <1>0, <1>3, <2>2 DEF Source
  <2>4. source' \in [Files -> Source']
    BY <1>0, <1>3, <2>1, <2>3
  <2>5. compiler' \in [version : 0 .. saves', mtime : 1 .. clock']
    BY <1>0, <1>3
  <2> QED BY <1>0, <1>3, <2>1, <2>2, <2>4, <2>5 DEF SourcesTyped
<1>4. CASE \E f \in Files : Delete(f) \/ \E fault \in {"none", "types"} : Save(f, fault)
  <2>1. 0 \in 0 .. clock /\ clock \in 0 .. clock
    BY <1>0
  <2>2. ASSUME NEW f \in Files, Delete(f)
        PROVE  SourcesTyped' /\ Source \subseteq Source' /\ clock <= clock' /\ imports' = imports
    BY <1>3, <2>1, <2>2 DEF Delete
  <2>3. ASSUME NEW f \in Files, NEW fault \in {"none", "types"}, Save(f, fault)
        PROVE  SourcesTyped' /\ Source \subseteq Source' /\ clock <= clock' /\ imports' = imports
    BY <1>3, <2>1, <2>3 DEF Save
  <2> QED BY <1>4, <2>2, <2>3
<1>5. CASE Install
  <2>1. /\ compiler' = [version |-> saves + 1, mtime |-> clock]
        /\ saves < MaxSaves[imports] /\ saves' = saves + 1 /\ UNCHANGED <<imports, clock, source>>
    BY <1>5 DEF Install
  <2>2. Source \subseteq Source'
    BY <1>0, <2>1, SourceGrows
  <2>3. saves' \in 0 .. MaxSaves[imports]' /\ saves + 1 \in 0 .. saves' /\ clock \in 1 .. clock
    BY <1>0, <2>1
  <2>4. source' \in [Files -> Source']
    BY <1>0, <2>1, <2>2
  <2> QED BY <1>0, <2>1, <2>2, <2>3, <2>4 DEF SourcesTyped
<1>6. CASE \E m \in {"build", "genc"} : Start(m)
  BY <1>1, <1>6 DEF Start, files
<1>7. CASE UNCHANGED vars
  BY <1>1, <1>7 DEF vars, files
<1>8. CASE Running \/ Interrupt
  BY <1>1, <1>8, RunningKeeps
<1> QED BY <1>2, <1>4, <1>5, <1>6, <1>7, <1>8 DEF Next

LEMMA CFileTyped ==
  ASSUME TypeOK, NEW f \in DOMAIN visited, NEW state \in {"whole", "rejected", "partial"}
  PROVE  CFile(f, state) \in Generated
<1>1. /\ visited[f].text \in Nat /\ compiler.version \in Nat /\ clock \in Nat
  BY Numbers
<1>2. counter \in Nat
  BY DEF TypeOK
<1> QED BY <1>1, <1>2 DEF CFile, Generated

LEMMA InnerVisited ==
  ASSUME Base, stack # << >>, stack[1].stage # "enter"
  PROVE  InnerFile \in DOMAIN visited
<1>1. TypeOK /\ Chained /\ Working \subseteq DOMAIN visited
  BY DEF Base
<1> QED BY <1>1, Split DEF InnerFile

LEMMA CacheStep ==
  ASSUME Base, [Next]_vars
  PROVE  CacheTyped' /\ counter' \in Nat
<1>0. /\ TypeOK /\ ccache \in [Files -> Generated] /\ counter \in Nat
      /\ object \in [{Object[f] : f \in Files} -> Generated]
  BY DEF Base, TypeOK
<1>1. Generated' = Generated
  BY DEF Generated
<1>2. Missing \in Generated
  BY DEF Missing, Generated
<1>3. ASSUME UNCHANGED <<ccache, object>>
      PROVE  CacheTyped'
  BY <1>0, <1>1, <1>3 DEF CacheTyped
<1>4. ASSUME NEW f \in DOMAIN visited, NEW state \in {"whole", "rejected", "partial"},
             ccache' = [ccache EXCEPT ![f] = CFile(f, state)], object' = object
      PROVE  CacheTyped'
  <2>1. CFile(f, state) \in Generated
    BY <1>0, CFileTyped
  <2> QED BY <1>0, <1>1, <1>4, <2>1 DEF CacheTyped
<1>5. ASSUME NEW o \in Generated, NEW f, object' = [object EXCEPT ![f] = o], ccache' = ccache
      PROVE  CacheTyped'
  BY <1>0, <1>1, <1>5 DEF CacheTyped
<1>6. CASE Tick \/ Install \/ Enter \/ Import \/ Check \/ Finish \/ UNCHANGED vars
           \/ (\E m \in {"build", "genc"} : Start(m))
           \/ (\E f \in Files : Delete(f) \/ \E fault \in {"none", "types"} : Save(f, fault))
  <2>1. UNCHANGED <<ccache, object>>
    BY <1>6 DEF Tick, Install, Enter, Import, Check, Finish, Start, Delete, Save, files, vars
  <2>2. counter' \in Nat
    BY <1>0, <1>6 DEF Tick, Install, Enter, Import, Check, Finish, Start, Delete, Save, build, vars, Exit
  <2> QED BY <1>3, <2>1, <2>2
<1>7. CASE Transpile
  <2>1. /\ stack # << >> /\ stack[1].stage = "transpile" /\ Top.file = InnerFile
    BY <1>0, <1>7, InnerCall DEF Transpile, At, InnerFile
  <2>2. InnerFile \in DOMAIN visited /\ InnerFile \in Files
    BY <1>0, <2>1, InnerVisited, InnerCall
  <2>3. CacheTyped'
    <3>1. /\ object' = object
          /\ \/ ccache' = ccache
             \/ \E state \in {"whole", "rejected"} : ccache' = [ccache EXCEPT ![InnerFile] = CFile(InnerFile, state)]
      BY <1>7, <2>1 DEF Transpile
    <3> QED BY <1>3, <1>4, <2>2, <3>1
  <2>4. counter' \in Nat
    <3>1. Enums[InnerFile] \in Nat
      BY <2>2, EnumsAssumption
    <3>2. counter' = 0 \/ counter' = counter + Enums[InnerFile]
      BY <1>7, <2>1 DEF Transpile, Exit
    <3> QED BY <1>0, <3>1, <3>2
  <2> QED BY <2>3, <2>4
<1>8. CASE Compile
  <2>1. stack # << >> /\ Top.file = InnerFile /\ InnerFile \in Files
    BY <1>0, <1>8, InnerCall DEF Compile, At, InnerFile
  <2>2. [ccache[InnerFile] EXCEPT !.mtime = clock] \in Generated
    <3>1. ccache[InnerFile] \in Generated /\ clock \in Nat
      BY <1>0, <2>1, Numbers
    <3> QED BY <3>1 DEF Generated
  <2>3. /\ ccache' = ccache
        /\ \/ object' = object
           \/ object' = [object EXCEPT ![Object[InnerFile]] = Missing]
           \/ object' = [object EXCEPT ![Object[InnerFile]] = [ccache[InnerFile] EXCEPT !.mtime = clock]]
    BY <1>8, <2>1 DEF Compile
  <2>4. counter' \in Nat
    BY <1>0, <1>8 DEF Compile, Exit
  <2> QED BY <1>2, <1>3, <1>5, <2>2, <2>3, <2>4
<1>9. CASE Interrupt
  <2>1. counter' \in Nat
    BY <1>9 DEF Interrupt, Exit
  <2>2. CASE At("transpile") /\ ccache' = [ccache EXCEPT ![Top.file] = CFile(Top.file, "partial")] /\ object' = object
    <3>1. /\ stack # << >> /\ stack[1].stage = "transpile" /\ Top.file = InnerFile
      BY <1>0, <2>2, InnerCall DEF At, InnerFile
    <3>2. InnerFile \in DOMAIN visited
      BY <1>0, <3>1, InnerVisited
    <3> QED BY <1>4, <2>1, <2>2, <3>1, <3>2
  <2>3. CASE object' = [object EXCEPT ![Object[Top.file]] = Missing] /\ ccache' = ccache
    BY <1>2, <1>5, <2>1, <2>3
  <2>4. CASE UNCHANGED <<ccache, object>>
    BY <1>3, <2>1, <2>4
  <2> QED BY <1>9, <2>2, <2>3, <2>4 DEF Interrupt
<1> QED BY <1>6, <1>7, <1>8, <1>9 DEF Next, Running

(* The files visited and the objects to link.                              *)
LEMMA ListsStep ==
  ASSUME Base, [Next]_vars
  PROVE  /\ VisitedTyped' /\ mode' \in {"idle", "build", "genc"}
         /\ objects' \in Seq({Object[f] : f \in Files})
<1>0. /\ TypeOK /\ DOMAIN visited \subseteq Files /\ visited \in [DOMAIN visited -> Source]
      /\ objects \in Seq({Object[f] : f \in Files}) /\ mode \in {"idle", "build", "genc"}
      /\ Source \subseteq Source'
  BY SourceStep DEF Base, TypeOK
<1>1. ASSUME visited' = visited
      PROVE  VisitedTyped'
  BY <1>0, <1>1 DEF VisitedTyped
<1>2. CASE Quiet
  BY <1>0, <1>1, <1>2 DEF Quiet, build
<1>3. CASE Exits
  BY <1>3 DEF Exits, Exit, VisitedTyped
<1>4. CASE Begins
  BY <1>0, <1>1, <1>4 DEF Begins
<1>5. CASE Again \/ Descends \/ Skips \/ \E s : Proceeds(s)
  BY <1>0, <1>1, <1>5 DEF Again, Descends, Skips, Proceeds
<1>6. CASE Opens
  <2>1. InnerFile \in Files /\ source[InnerFile] \in Source
    BY <1>0, <1>6, InnerCall DEF Opens, TypeOK
  <2>2. /\ visited' = [g \in DOMAIN visited \cup {InnerFile} |->
                         IF g = InnerFile THEN source[InnerFile] ELSE visited[g]]
        /\ objects' = objects /\ mode' = mode
    BY <1>6 DEF Opens
  <2>3. VisitedTyped'
    BY <1>0, <2>1, <2>2 DEF VisitedTyped
  <2> QED BY <1>0, <2>2, <2>3
<1>7. CASE Links
  <2>1. /\ stack # << >> /\ objects' = <<Object[InnerFile]>> \o objects
        /\ visited' = visited /\ mode' = mode
    BY <1>7 DEF Links
  <2>2. InnerFile \in Files
    BY <1>0, <2>1, InnerCall
  <2>3. objects' \in Seq({Object[f] : f \in Files})
    BY <1>0, <2>1, <2>2, PushProperties
  <2> QED BY <1>0, <1>1, <2>1, <2>3
<1> QED BY <1>2, <1>3, <1>4, <1>5, <1>6, <1>7, WhichStep

LEMMA BaseStep == Base /\ [Next]_vars => Base'
<1> SUFFICES ASSUME Base, [Next]_vars
             PROVE  Base'
  OBVIOUS
<1>1. /\ SourcesTyped' /\ CacheTyped' /\ VisitedTyped' /\ counter' \in Nat
      /\ stack' \in Seq(Call) /\ objects' \in Seq({Object[f] : f \in Files})
      /\ mode' \in {"idle", "build", "genc"}
  BY SourceStep, CacheStep, CallsStep, ListsStep DEF Base
<1>2. TypeOK'
  BY <1>1 DEF TypeOK, SourcesTyped, CacheTyped, VisitedTyped, Call
<1> QED BY <1>2, CallsStep DEF Base

LEMMA BaseInit == Init => Base
<1> SUFFICES ASSUME Init
             PROVE  Base
  OBVIOUS
<1>1. /\ imports \in Projects /\ MaxTime[imports] \in Nat \ {0} /\ MaxSaves[imports] \in Nat
      /\ clock = 1 /\ saves = 0
  BY BoundsAssumption DEF Init
<1>2. clock \in 1 .. MaxTime[imports] /\ saves \in 0 .. MaxSaves[imports]
  BY <1>1
<1>3. [text |-> 0, fault |-> "none", mtime |-> 1] \in Source
  BY <1>1 DEF Source
<1>4. Missing \in Generated
  BY DEF Missing, Generated
<1>5. /\ source \in [Files -> Source] /\ ccache \in [Files -> Generated]
      /\ object \in [{Object[f] : f \in Files} -> Generated]
      /\ compiler \in [version : 0 .. saves, mtime : 1 .. clock]
  BY <1>1, <1>3, <1>4 DEF Init
<1>6. stack = << >> /\ visited = << >> /\ objects = << >> /\ counter = 0 /\ mode = "idle"
  BY DEF Init
<1>7. TypeOK
  BY <1>1, <1>2, <1>5, <1>6 DEF TypeOK
<1> QED BY <1>6, <1>7, NoStack DEF Base, Rest

(* Every variable of the build stays in its range: no file is transpiled   *)
(* that was not parsed, and only the innermost call is past its imports.   *)
THEOREM BuildTypeCorrect == Spec => []TypeOK
<1>1. Base /\ [Next]_vars => Base'
  BY BaseStep
<1>2. Base => TypeOK
  BY DEF Base
<1> QED BY <1>1, <1>2, BaseInit, PTL DEF Spec

-----------------------------------------------------------------------------
(* The walk over the imports. *)

LEMMA NeededLeast ==
  ASSUME TypeOK
  PROVE  /\ Needed \subseteq Files /\ Main \in Needed
         /\ \A f \in Needed : Imports(f) \subseteq Needed
         /\ \A S \in SUBSET Files :
              Main \in S /\ (\A g \in S : Imports(g) \subseteq S) => Needed \subseteq S
<1>1. Needed \subseteq Files /\ Main \in Needed
  BY FilesAssumption DEF Needed
<1>2. \A S \in SUBSET Files :
        Main \in S /\ (\A g \in S : Imports(g) \subseteq S) => Needed \subseteq S
  BY DEF Needed, Imports
<1>3. ASSUME NEW f \in Needed, NEW d \in Imports(f)
      PROVE  d \in Needed
  <2>1. f \in Files /\ d \in Files
    <3>1. \A k \in DOMAIN imports[f] : imports[f][k] \in Files
      BY <1>1, ImportList
    <3> QED BY <1>1, <3>1 DEF Imports, ToSet
  <2> SUFFICES ASSUME NEW S \in SUBSET Files, Main \in S,
                      \A g \in S : ToSet(imports[g]) \subseteq S
               PROVE  d \in S
    BY <2>1 DEF Needed
  <2>2. f \in S
    BY <1>2 DEF Imports
  <2> QED BY <2>2 DEF Imports
<1> QED BY <1>1, <1>2, <1>3

LEMMA FinishedGrows ==
  ASSUME TypeOK, NEW f \in Files, objects' = <<Object[f]>> \o objects
  PROVE  /\ Finished' = Finished \cup {f}
         /\ IsInjective(objects) /\ f \notin Finished => IsInjective(objects')
<1>1. /\ objects \in Seq({Object[g] : g \in Files}) /\ Object[f] \in {Object[g] : g \in Files}
  BY DEF TypeOK
<1>2. ToSet(objects') = ToSet(objects) \cup {Object[f]}
  BY <1>1, PushNew
<1>3. \A g \in Files : Object[g] = Object[f] => g = f
  BY ObjectAssumption DEF IsInjective
<1>4. Finished' = Finished \cup {f}
  BY <1>2, <1>3 DEF Finished
<1> QED BY <1>1, <1>4, PushNew DEF Finished

LEMMA WalkKept ==
  ASSUME UNCHANGED <<imports, stack, visited, objects, mode>>, Walk
  PROVE  Walk'
<1>1. /\ Depth' = Depth /\ Working' = Working /\ Called' = Called /\ Finished' = Finished
      /\ Needed' = Needed /\ imports' = imports /\ stack' = stack /\ visited' = visited
      /\ objects' = objects /\ mode' = mode
  BY DEF Depth, Working, Called, Finished, Needed
<1>2. Apart' <=> Apart
  BY <1>1 DEF Apart
<1>3. Once' <=> Once
  BY <1>1 DEF Once
<1>4. Passed' <=> Passed
  BY <1>1 DEF Passed, Imports
<1>5. OnlyNeeded' <=> OnlyNeeded
  BY <1>1 DEF OnlyNeeded
<1> QED BY <1>1, <1>2, <1>3, <1>4, <1>5 DEF Walk

LEMMA WalkBegins ==
  ASSUME Base, Begins
  PROVE  Walk'
<1>1. /\ stack' \in Seq(Call) /\ Depth' = {1} /\ stack'[1] = Frame(Main, "enter", 0)
      /\ Working' = {} /\ Called' = {Main}
  BY FirstCall
<1>2. stack'[1].stage = "enter"
  BY <1>1 DEF Frame
<1>3. DOMAIN visited' = {} /\ objects' = << >> /\ imports' = imports
  BY DEF Base, Rest, Begins
<1>4. ToSet(objects') = {} /\ IsInjective(objects')
  BY <1>3 DEF ToSet, IsInjective
<1>5. Finished' = {}
  BY <1>4 DEF Finished
<1>6. Main \in Needed /\ Needed' = Needed
  BY <1>3, NeededLeast DEF Base, Needed
<1>7. Apart'
  BY <1>1, <1>2 DEF Apart
<1>8. Once'
  BY <1>1, <1>3, <1>4, <1>5 DEF Once
<1>9. Passed'
  BY <1>1, <1>2, <1>5 DEF Passed
<1>10. OnlyNeeded'
  BY <1>1, <1>3, <1>6 DEF OnlyNeeded
<1> QED BY <1>7, <1>8, <1>9, <1>10 DEF Walk

LEMMA WalkAgain ==
  ASSUME Base, Walk, mode = "build", Again
  PROVE  Walk'
<1>0. /\ TypeOK /\ Chained /\ stack # << >> /\ stack[1].stage = "enter" /\ Returns
      /\ InnerFile \in DOMAIN visited /\ Apart /\ Once /\ Passed /\ OnlyNeeded
      /\ imports' = imports /\ visited' = visited /\ objects' = objects
  BY DEF Base, Walk, Again
<1>1. /\ Working' = Waiting /\ Called' = {}
      /\ \A i \in Depth' : /\ i \in Nat /\ i + 1 \in Depth /\ i + 1 # 1
                           /\ stack'[i] = stack[i + 1] /\ stack'[i].stage = "imports"
  BY <1>0, Returned
<1>2. /\ Working = Waiting /\ Called = {InnerFile}
      /\ Finished' = Finished /\ Needed' = Needed
  BY <1>0, Split DEF InnerFile, Finished, Needed
<1>3. Apart'
  <2> SUFFICES ASSUME NEW i \in Depth', NEW j \in Depth', i # j
               PROVE  stack'[i].file # stack'[j].file
    BY DEF Apart
  <2>1. i + 1 # j + 1 /\ stack[i + 1].stage = "imports" /\ stack[j + 1].stage = "imports"
    BY <1>1
  <2> QED BY <1>0, <1>1, <2>1 DEF Apart
<1>4. Once'
  BY <1>0, <1>1, <1>2 DEF Once
<1>5. Passed'
  <2>1. DOMAIN visited \cup Called = DOMAIN visited
    BY <1>0, <1>2
  <2>2. ASSUME NEW i \in Depth', NEW c, c = stack'[i], NEW k \in DOMAIN imports[c.file],
               k < c.next \/ c.stage # "imports"
        PROVE  imports[c.file][k] \in DOMAIN visited
    BY <1>0, <1>1, <2>1, <2>2 DEF Passed
  <2> QED BY <1>0, <1>1, <1>2, <2>1, <2>2 DEF Passed, Imports
<1>6. OnlyNeeded'
  BY <1>0, <1>1, <1>2 DEF OnlyNeeded
<1> QED BY <1>3, <1>4, <1>5, <1>6 DEF Walk

LEMMA WalkLinks ==
  ASSUME Base, Walk, mode = "build", Links
  PROVE  Walk'
<1>0. /\ TypeOK /\ Chained /\ stack # << >> /\ stack[1].stage # "enter" /\ stack[1].stage # "imports"
      /\ Returns /\ objects' = <<Object[InnerFile]>> \o objects
      /\ Apart /\ Once /\ Passed /\ OnlyNeeded
      /\ imports' = imports /\ visited' = visited
  BY DEF Base, Walk, Links
<1>1. /\ Working' = Waiting /\ Called' = {}
      /\ \A i \in Depth' : /\ i \in Nat /\ i + 1 \in Depth /\ i + 1 # 1
                           /\ stack'[i] = stack[i + 1] /\ stack'[i].stage = "imports"
  BY <1>0, Returned
<1>2. /\ Working = Waiting \cup {InnerFile} /\ Called = {} /\ Needed' = Needed
      /\ InnerFile \in Files
  BY <1>0, Split, InnerCall DEF InnerFile, Needed
<1>3. InnerFile \notin Waiting
  <2> SUFFICES ASSUME NEW i \in Depth, i # 1
               PROVE  stack[i].file # InnerFile
    BY DEF Waiting
  <2>1. 1 \in Depth /\ stack[i].stage = "imports"
    BY <1>0, TopIs DEF Chained
  <2> QED BY <1>0, <2>1 DEF Apart, InnerFile
<1>4. /\ InnerFile \notin Finished /\ Finished' = Finished \cup {InnerFile}
      /\ IsInjective(objects')
  BY <1>0, <1>2, FinishedGrows DEF Once
<1>5. Apart'
  <2> SUFFICES ASSUME NEW i \in Depth', NEW j \in Depth', i # j
               PROVE  stack'[i].file # stack'[j].file
    BY DEF Apart
  <2>1. i + 1 # j + 1 /\ stack[i + 1].stage = "imports" /\ stack[j + 1].stage = "imports"
    BY <1>1
  <2> QED BY <1>0, <1>1, <2>1 DEF Apart
<1>6. Once'
  BY <1>0, <1>1, <1>2, <1>3, <1>4 DEF Once
<1>7. Passed'
  <2>1. ASSUME NEW i \in Depth', NEW c, c = stack'[i], NEW k \in DOMAIN imports[c.file],
               k < c.next \/ c.stage # "imports"
        PROVE  imports[c.file][k] \in DOMAIN visited
    BY <1>0, <1>1, <1>2, <2>1 DEF Passed
  <2>2. \A k \in DOMAIN imports[InnerFile] : imports[InnerFile][k] \in DOMAIN visited
    <3>1. 1 \in Depth
      BY <1>0, TopIs
    <3> QED BY <1>0, <1>2, <3>1 DEF Passed, InnerFile
  <2>3. Imports(InnerFile) \subseteq DOMAIN visited
    BY <2>2 DEF Imports, ToSet
  <2>4. \A f \in Finished' : Imports(f) \subseteq DOMAIN visited
    BY <1>0, <1>4, <2>3 DEF Passed
  <2> QED BY <1>0, <1>1, <1>2, <2>1, <2>4 DEF Passed, Imports
<1>8. OnlyNeeded'
  BY <1>0, <1>1, <1>2 DEF OnlyNeeded
<1> QED BY <1>5, <1>6, <1>7, <1>8 DEF Walk

(* A step inside of the innermost call, which is of c now.                 *)
LEMMA WalkTurns ==
  ASSUME Base, Walk, mode = "build", stack # << >>, NEW c, Turns(c),
         c.stage # "enter", c.stage = "imports" => c.next >= 1, c.file = InnerFile,
         UNCHANGED <<imports, objects>>, DOMAIN visited' = DOMAIN visited \cup {InnerFile},
         stack[1].stage = "enter" => InnerFile \notin DOMAIN visited,
         \A k \in DOMAIN imports[InnerFile] :
           k < c.next \/ c.stage # "imports"
             => imports[InnerFile][k] \in DOMAIN visited'
  PROVE  Walk'
<1>0. /\ TypeOK /\ Chained /\ Apart /\ Once /\ Passed /\ OnlyNeeded
      /\ imports' = imports /\ objects' = objects
  BY DEF Base, Walk
<1>1. /\ Working' = Waiting \cup {InnerFile} /\ Called' = {}
      /\ Depth' = Depth /\ 1 \in Depth /\ stack'[1] = c
      /\ \A i \in Depth : i # 1 => stack'[i] = stack[i]
  BY <1>0, Turned
<1>2. /\ Finished' = Finished /\ Needed' = Needed
      /\ DOMAIN visited' = DOMAIN visited \cup Called \cup {InnerFile}
      /\ InnerFile \in Called \cup Working /\ Working \cup {InnerFile} = Waiting \cup {InnerFile}
  BY <1>0, Split DEF InnerFile, Finished, Needed
<1>3. InnerFile \notin Waiting
  <2>1. CASE stack[1].stage = "enter"
    BY <1>0, <2>1, Split DEF Once
  <2>2. CASE stack[1].stage # "enter"
    <3> SUFFICES ASSUME NEW i \in Depth, i # 1
                 PROVE  stack[i].file # InnerFile
      BY DEF Waiting
    <3>1. stack[i].stage = "imports"
      BY <1>0 DEF Chained
    <3> QED BY <1>0, <1>1, <2>2, <3>1 DEF Apart, InnerFile
  <2> QED BY <2>1, <2>2
<1>4. Apart'
  <2> SUFFICES ASSUME NEW i \in Depth, NEW j \in Depth, i # j
               PROVE  stack'[i].file # stack'[j].file
    BY <1>1 DEF Apart
  <2>1. \A h \in Depth : h # 1 => stack[h].file \in Waiting /\ stack[h].stage = "imports"
    BY <1>0 DEF Waiting, Chained
  <2>2. CASE i = 1 \/ j = 1
    BY <1>1, <1>3, <2>1, <2>2
  <2>3. CASE i # 1 /\ j # 1
    BY <1>0, <1>1, <2>1, <2>3 DEF Apart
  <2> QED BY <2>2, <2>3
<1>5. Once'
  <2>1. InnerFile \notin Finished
    <3>1. CASE stack[1].stage = "enter"
      BY <1>0, <3>1 DEF Once
    <3>2. CASE stack[1].stage # "enter"
      BY <1>0, <3>2, Split DEF Once, InnerFile
    <3> QED BY <3>1, <3>2
  <2>2. Waiting \subseteq Working
    BY <1>0, Split
  <2> QED BY <1>0, <1>1, <1>2, <2>1, <2>2 DEF Once
<1>6. Passed'
  <2>1. DOMAIN visited \cup Called \subseteq DOMAIN visited'
    BY <1>2
  <2>2. ASSUME NEW i \in Depth, NEW d, d = stack'[i], NEW k \in DOMAIN imports[d.file],
               k < d.next \/ d.stage # "imports"
        PROVE  imports[d.file][k] \in DOMAIN visited'
    <3>1. CASE i = 1
      BY <1>1, <2>2, <3>1
    <3>2. CASE i # 1
      <4>1. d = stack[i] /\ d.stage # "enter"
        BY <1>0, <1>1, <2>2, <3>2 DEF Chained
      <4> QED BY <1>0, <2>1, <2>2, <4>1 DEF Passed
    <3> QED BY <3>1, <3>2
  <2>3. \A f \in Finished : Imports(f) \subseteq DOMAIN visited'
    BY <1>0, <2>1 DEF Passed
  <2> QED BY <1>0, <1>1, <1>2, <2>1, <2>2, <2>3 DEF Passed, Imports
<1>7. OnlyNeeded'
  <2>1. InnerFile \in DOMAIN visited \cup Called
    BY <1>0, <1>2 DEF Once
  <2> QED BY <1>0, <1>1, <1>2, <2>1 DEF OnlyNeeded
<1> QED BY <1>4, <1>5, <1>6, <1>7 DEF Walk

LEMMA WalkDescends ==
  ASSUME Base, Walk, mode = "build", Descends
  PROVE  Walk'
<1>0. /\ TypeOK /\ Chained /\ stack # << >> /\ stack[1].stage = "imports"
      /\ Apart /\ Once /\ Passed /\ OnlyNeeded
      /\ imports' = imports /\ visited' = visited /\ objects' = objects
  BY DEF Base, Walk, Descends
<1> PICK n \in Nat : n = stack[1].next
  BY <1>0, InnerCall
<1> PICK d, c : /\ d = Frame(imports[InnerFile][n], "enter", 0)
                /\ c = Frame(InnerFile, "imports", n + 1)
  OBVIOUS
<1>1. /\ Nests(d, c) /\ n \in DOMAIN imports[InnerFile] /\ InnerFile \in Files
      /\ c.stage = "imports" /\ c.next = n + 1 /\ c.file = InnerFile
      /\ d.stage = "enter" /\ d.file = imports[InnerFile][n]
  BY <1>0, InnerCall DEF Descends, Frame
<1>2. c.next >= 1
  BY <1>1
<1>3. /\ Working' = Waiting \cup {InnerFile} /\ Called' = {d.file}
      /\ stack'[1] = d /\ stack'[2] = c
      /\ \A i \in Depth' : /\ i \in Nat
                           /\ i = 1 \/ i = 2 \/
                              (i - 1 \in Depth /\ i - 1 # 1 /\ stack'[i] = stack[i - 1])
  BY <1>0, <1>1, <1>2, Nested
<1>4. /\ Working = Waiting \cup {InnerFile} /\ Called = {}
      /\ Finished' = Finished /\ Needed' = Needed
  BY <1>0, Split DEF InnerFile, Finished, Needed
<1>5. 1 \in Depth
  BY <1>0, TopIs
<1>6. Apart'
  <2> DEFINE Old(i) == IF i = 2 THEN 1 ELSE i - 1
  <2>1. ASSUME NEW i \in Depth', stack'[i].stage # "enter"
        PROVE  /\ i # 1 /\ Old(i) \in Depth /\ stack'[i].file = stack[Old(i)].file
               /\ stack[Old(i)].stage # "enter"
    BY <1>0, <1>1, <1>3, <1>5, <2>1 DEF InnerFile, Chained
  <2>2. ASSUME NEW i \in Depth', NEW j \in Depth', i # j, i # 1, j # 1
        PROVE  Old(i) # Old(j)
    BY <1>3, <2>2
  <2> HIDE DEF Old
  <2> QED BY <1>0, <2>1, <2>2 DEF Apart
<1>7. Once'
  BY <1>0, <1>3, <1>4 DEF Once
<1>8. Passed'
  <2>1. ASSUME NEW i \in Depth', NEW e, e = stack'[i], NEW k \in DOMAIN imports[e.file],
               e.stage # "enter", k < e.next \/ e.stage # "imports"
        PROVE  imports[e.file][k] \in DOMAIN visited \cup {d.file}
    <3>1. CASE i = 1
      BY <1>1, <1>3, <2>1, <3>1
    <3>2. CASE i = 2
      <4>1. e = c
        BY <1>3, <2>1, <3>2
      <4>2. k \in DOMAIN imports[InnerFile] /\ k < n + 1 /\ k \in Nat
        BY <1>0, <1>1, <2>1, <4>1, ImportList
      <4>3. k = n \/ k < n
        BY <4>2
      <4>4. k < n => imports[InnerFile][k] \in DOMAIN visited
        BY <1>0, <1>4, <1>5, <4>2 DEF Passed, InnerFile
      <4> QED BY <1>1, <4>1, <4>3, <4>4
    <3>3. CASE i # 1 /\ i # 2
      <4>1. i - 1 \in Depth /\ e = stack[i - 1]
        BY <1>3, <2>1, <3>3
      <4> QED BY <1>0, <1>4, <2>1, <4>1 DEF Passed
    <3> QED BY <3>1, <3>2, <3>3
  <2> QED BY <1>0, <1>3, <1>4, <2>1 DEF Passed, Imports
<1>9. OnlyNeeded'
  <2>1. InnerFile \in Needed
    BY <1>0, <1>4 DEF Once, OnlyNeeded
  <2>2. d.file \in Imports(InnerFile)
    BY <1>1 DEF Imports, ToSet
  <2>3. d.file \in Needed
    BY <1>0, <2>1, <2>2, NeededLeast
  <2> QED BY <1>0, <1>3, <1>4, <2>3 DEF OnlyNeeded
<1> QED BY <1>6, <1>7, <1>8, <1>9 DEF Walk

LEMMA WalkOpens ==
  ASSUME Base, Walk, mode = "build", Opens
  PROVE  Walk'
<1> PICK c : c = Frame(InnerFile, "imports", 1)
  OBVIOUS
<1>1. /\ c.stage = "imports" /\ c.next = 1 /\ c.file = InnerFile /\ Turns(c)
      /\ stack # << >> /\ InnerFile \in Files /\ InnerFile \notin DOMAIN visited
      /\ UNCHANGED <<imports, objects>> /\ DOMAIN visited' = DOMAIN visited \cup {InnerFile}
  BY InnerCall DEF Opens, Frame, Base
<1>2. \A k \in DOMAIN imports[InnerFile] : ~(k < 1)
  BY <1>1, ImportList DEF Base
<1> QED BY <1>1, <1>2, WalkTurns

LEMMA WalkProceeds ==
  ASSUME Base, Walk, mode = "build", NEW s, Proceeds(s)
  PROVE  Walk'
<1> PICK c : c = Frame(InnerFile, s, 0)
  OBVIOUS
<1>1. /\ c.stage \notin {"enter", "imports"} /\ c.file = InnerFile /\ Turns(c)
      /\ stack # << >> /\ stack[1].stage # "enter" /\ InnerFile \in Files
      /\ stack[1].next \in Nat /\ UNCHANGED <<imports, objects, visited>>
      /\ TypeOK /\ Chained /\ Working \subseteq DOMAIN visited /\ Passed
  BY InnerCall DEF Proceeds, Frame, Base, Walk
<1>2. Called = {} /\ InnerFile \in DOMAIN visited /\ 1 \in Depth
  BY <1>1, Split, TopIs DEF InnerFile
<1>3. \A k \in DOMAIN imports[InnerFile] : k < stack[1].next \/ stack[1].stage # "imports"
  <2>1. CASE stack[1].stage = "imports"
    <3> PICK n \in Nat : n = stack[1].next
      BY <1>1
    <3>1. n \notin DOMAIN imports[InnerFile] /\ n >= 1
      BY <1>1, <1>2, <2>1 DEF Proceeds, Chained
    <3>2. DOMAIN imports[InnerFile] = 1 .. Len(imports[InnerFile]) /\ Len(imports[InnerFile]) \in Nat
      BY <1>1, ImportList
    <3>3. \A k \in DOMAIN imports[InnerFile] : k < n
      BY <3>1, <3>2
    <3> QED BY <3>3
  <2> QED BY <2>1
<1>4. \A k \in DOMAIN imports[InnerFile] : imports[InnerFile][k] \in DOMAIN visited
  BY <1>1, <1>2, <1>3 DEF Passed, InnerFile
<1> QED BY <1>1, <1>2, <1>4, WalkTurns

LEMMA WalkStep == Base /\ Walk /\ [Next]_vars => Walk'
<1> SUFFICES ASSUME Base, Walk, [Next]_vars
             PROVE  Walk'
  OBVIOUS
<1>1. CASE Quiet
  <2>1. UNCHANGED <<imports, stack, visited, objects, mode>>
    BY <1>1 DEF Quiet, build
  <2> QED BY <2>1, WalkKept
<1>2. CASE mode' # "build"
  BY <1>2 DEF Walk
<1>3. CASE Begins
  BY <1>3, WalkBegins
<1>4. CASE mode = "build" /\ (Again \/ Opens \/ Descends \/ Links \/ \E s : Proceeds(s))
  BY <1>4, WalkAgain, WalkOpens, WalkDescends, WalkLinks, WalkProceeds
<1>5. Exits => mode' # "build"
  BY DEF Exits, Exit
<1>6. Skips => mode' # "build"
  BY DEF Skips
<1>7. Again \/ Opens \/ Descends \/ Links \/ (\E s : Proceeds(s)) => mode' = mode
  BY DEF Again, Opens, Descends, Links, Proceeds
<1> QED BY <1>1, <1>2, <1>3, <1>4, <1>5, <1>6, <1>7, WhichStep

LEMMA WalkInit == Init => Walk
BY DEF Init, Walk

LEMMA WalkLinksNeeded ==
  ASSUME Base, Walk
  PROVE  EachLinkedOnce
<1> SUFFICES ASSUME Linking
             PROVE  /\ DOMAIN visited = Needed /\ IsInjective(objects)
                    /\ ToSet(objects) = {Object[f] : f \in Needed}
  BY DEF EachLinkedOnce
<1>1. /\ TypeOK /\ stack = << >> /\ Once /\ Passed /\ OnlyNeeded
  BY DEF Linking, Base, Walk
<1>2. Working = {} /\ Called = {}
  BY <1>1, NoStack
<1>3. DOMAIN visited = Finished /\ IsInjective(objects) /\ Finished \subseteq Files
  BY <1>1, <1>2 DEF Once, Finished
<1>4. Needed \subseteq DOMAIN visited
  <2>1. Main \in DOMAIN visited /\ \A f \in DOMAIN visited : Imports(f) \subseteq DOMAIN visited
    BY <1>1, <1>2, <1>3 DEF Passed
  <2> QED BY <1>1, <1>3, <2>1, NeededLeast
<1>5. DOMAIN visited = Needed
  BY <1>1, <1>4 DEF OnlyNeeded
<1>6. ToSet(objects) = {Object[f] : f \in Finished}
  <2>1. \A o \in ToSet(objects) : o \in {Object[f] : f \in Files}
    <3>1. objects \in Seq({Object[f] : f \in Files})
      BY <1>1 DEF TypeOK
    <3>2. DOMAIN objects = 1 .. Len(objects)
      BY <3>1, LenProperties
    <3> QED BY <3>1, <3>2, ElementOfSeq DEF ToSet
  <2> QED BY <2>1 DEF Finished
<1> QED BY <1>3, <1>5, <1>6

(* A build links every file that the entry file needs, and no other, each  *)
(* once: imported twice or in a cycle, and whatever is saved meanwhile.    *)
THEOREM EachFileLinkedOnce == Spec => []EachLinkedOnce
<1>1. Init => Base /\ Walk
  BY BaseInit, WalkInit
<1>2. Base /\ Walk /\ [Next]_vars => (Base /\ Walk)'
  BY BaseStep, WalkStep
<1>3. Base /\ Walk => EachLinkedOnce
  BY WalkLinksNeeded
<1> QED BY <1>1, <1>2, <1>3, PTL DEF Spec

-----------------------------------------------------------------------------
(* What the times tell. *)

(* No text was parsed that is newer than the source.                       *)
Names ==
  \A f \in DOMAIN visited :
    visited[f].text <= source[f].text /\ visited[f].mtime <= source[f].mtime

(* A C file that names the text or the compiler there is now is not older. *)
NotOlderAt(f) ==
  LET c == ccache[f]
  IN /\ c.text <= source[f].text /\ c.version <= compiler.version /\ c.mtime <= clock
     /\ c.state # "missing" /\ c.text = source[f].text => c.mtime >= source[f].mtime
     /\ c.state # "missing" /\ c.version = compiler.version => c.mtime >= compiler.mtime

NotOlder == \A f \in Files : NotOlderAt(f)

(* An object that is newer than the C file was made from it.               *)
MadeFromCacheAt(f) ==
  LET c == ccache[f]
      o == object[Object[f]]
  IN /\ o.mtime <= clock
     /\ o.mtime > c.mtime =>
          o.text = c.text /\ o.version = c.version /\ o.state = c.state

MadeFromCache == \A f \in Files : MadeFromCacheAt(f)

(* The C file that is compiled is the right one, or the times do not tell. *)
Trusted(f) ==
  \/ MadeFrom(ccache[f], f)
  \/ ccache[f].state # "whole"
  \/ ccache[f].mtime >= visited[f].mtime /\ ccache[f].mtime >= compiler.mtime

(* What StaleOnlyIfTimesLie says of the file f.                            *)
Good(f) ==
  LET c == ccache[f]
      o == object[Object[f]]
  IN \/ MadeFrom(o, f)
     \/ c.state # "whole"
     \/ /\ ~MadeFrom(c, f)
        /\ c.mtime >= visited[f].mtime /\ c.mtime >= compiler.mtime
     \/ MadeFrom(c, f) /\ o.mtime = c.mtime

Innermost ==
  stack # << >> =>
    /\ stack[1].stage = "transpile" => Forced \/ NeedTranspile(InnerFile)
    /\ stack[1].stage = "compile" => Trusted(InnerFile)

AllGood == mode = "build" => \A f \in Finished : Good(f)

Times == Names /\ NotOlder /\ MadeFromCache

BInv == Base /\ Walk /\ Times /\ Innermost /\ AllGood

LEMMA OtherObjects ==
  ASSUME TypeOK, NEW f \in Files, NEW o, object' = [object EXCEPT ![Object[f]] = o]
  PROVE  /\ object'[Object[f]] = o
         /\ \A g \in Files : g # f => object'[Object[g]] = object[Object[g]]
<1>1. \A g \in Files : Object[g] = Object[f] => g = f
  BY ObjectAssumption DEF IsInjective
<1>2. DOMAIN object = {Object[g] : g \in Files}
  BY DEF TypeOK
<1> QED BY <1>1, <1>2

LEMMA OtherCFiles ==
  ASSUME TypeOK, NEW f \in Files, NEW c, ccache' = [ccache EXCEPT ![f] = c]
  PROVE  ccache'[f] = c /\ \A g \in Files : g # f => ccache'[g] = ccache[g]
BY DEF TypeOK

(* What a step does to the files.                                          *)
Saves(f) ==
  /\ \A g \in Files : g # f => source'[g] = source[g]
  /\ source'[f].text = saves + 1 /\ source'[f].mtime \in {0, clock}
  /\ source'[f].mtime = 0 => mode = "idle"
  /\ UNCHANGED <<imports, clock, compiler, ccache, object, build>>

Installs ==
  /\ mode = "idle" /\ compiler' = [version |-> saves + 1, mtime |-> clock]
  /\ UNCHANGED <<imports, clock, source, ccache, object, build>>

Writes(state) ==
  /\ stack # << >> /\ stack[1].stage = "transpile" /\ ~Forced /\ stack' # stack
  /\ ccache' = [ccache EXCEPT ![InnerFile] = CFile(InnerFile, state)]
  /\ UNCHANGED <<imports, clock, source, compiler, object>>

Compiles(o) ==
  /\ stack # << >> /\ stack[1].stage = "compile" /\ stack' # stack
  /\ o \in {Missing, [ccache[InnerFile] EXCEPT !.mtime = clock]}
  /\ object' = [object EXCEPT ![Object[InnerFile]] = o]
  /\ UNCHANGED <<imports, clock, source, compiler, ccache>>

LEMMA FilesStep ==
  ASSUME Base, [Next]_vars
  PROVE  \/ UNCHANGED files
         \/ (\E f \in Files : Saves(f)) \/ Installs
         \/ (\E state \in {"whole", "rejected", "partial"} : Writes(state))
         \/ \E o : Compiles(o)
<1>0. TypeOK /\ (stack # << >> => Top = stack[1] /\ InnerFile = Top.file)
  BY InnerCall DEF Base, InnerFile
<1>1. CASE Tick \/ Enter \/ Import \/ Check \/ Finish \/ UNCHANGED vars
           \/ (\E m \in {"build", "genc"} : Start(m))
  BY <1>1 DEF Tick, Enter, Import, Check, Finish, Start, vars
<1>2. CASE Install
  BY <1>2 DEF Install, Installs
<1>3. CASE \E f \in Files : Delete(f) \/ \E fault \in {"none", "types"} : Save(f, fault)
  <2>1. PICK f \in Files : Delete(f) \/ \E fault \in {"none", "types"} : Save(f, fault)
    BY <1>3
  <2>2. DOMAIN source = Files
    BY <1>0 DEF TypeOK
  <2>3. CASE Delete(f)
    BY <2>2, <2>3 DEF Delete, Saves
  <2>4. ASSUME NEW fault, Save(f, fault)
        PROVE  Saves(f)
    <3>1. clock # 0
      BY <1>0, Numbers
    <3> QED BY <2>2, <2>4, <3>1 DEF Save, Saves
  <2> QED BY <2>1, <2>3, <2>4
<1>4. CASE Transpile
  <2>1. stack # << >> /\ stack[1].stage = "transpile" /\ Top.file = InnerFile
    BY <1>0, <1>4 DEF Transpile, At
  <2>2. Forced \/ stack' = << >> \/ Goto("compile", 0)
    BY <1>4 DEF Transpile, Exit
  <2>3. Goto("compile", 0) => stack' # stack
    <3>1. Goto("compile", 0) => Turns(Frame(InnerFile, "compile", 0))
      BY <1>0, <2>1, GotoIs DEF Stages
    <3>2. Frame(InnerFile, "compile", 0).stage = "compile"
      BY DEF Frame
    <3> QED BY <2>1, <3>1, <3>2 DEF Turns
  <2> QED BY <1>4, <2>1, <2>2, <2>3 DEF Transpile, Writes, files
<1>5. CASE Compile
  <2>1. stack # << >> /\ stack[1].stage = "compile" /\ Top.file = InnerFile
    BY <1>0, <1>5 DEF Compile, At
  <2>2. stack' = << >> \/ stack' = Tail(stack)
    BY <1>5 DEF Compile, Exit, Return
  <2>3. stack' # stack
    <3>1. Len(Tail(stack)) = Len(stack) - 1 /\ Len(stack) \in Nat
      BY <1>0, <2>1, TopIs
    <3>2. Tail(stack) # stack
      BY <3>1
    <3> QED BY <2>1, <2>2, <3>2
  <2> QED BY <1>5, <2>1, <2>3 DEF Compile, Compiles, files
<1>6. CASE Interrupt
  <2>1. stack' = << >>
    BY <1>6 DEF Interrupt, Exit
  <2> QED BY <1>0, <1>6, <2>1 DEF Interrupt, At, Writes, Compiles, files
<1> QED BY <1>1, <1>2, <1>3, <1>4, <1>5, <1>6 DEF Next, Running

LEMMA TimesStep ==
  ASSUME Base, Times, [Next]_vars
  PROVE  Times'
<1>0. /\ TypeOK /\ clock \in Nat /\ saves \in Nat /\ clock' \in Nat /\ clock <= clock'
      /\ Names /\ NotOlder /\ MadeFromCache
  <2>1. TypeOK /\ TypeOK'
    BY BaseStep DEF Base
  <2>2. MaxTime[imports]' \in Nat /\ clock' \in 1 .. MaxTime[imports]'
    BY <2>1, BoundsAssumption DEF TypeOK
  <2> QED BY <2>1, <2>2, Numbers, SourceStep DEF Times
<1>1. ASSUME NEW f \in Files
      PROVE  /\ source[f].text \in Nat /\ source[f].text <= saves
             /\ source[f].mtime \in Nat /\ source[f].mtime <= clock
             /\ ccache[f].mtime \in Nat /\ object[Object[f]].mtime \in Nat
             /\ ccache[f].text \in Nat /\ ccache[f].version \in Nat
             /\ NotOlderAt(f) /\ MadeFromCacheAt(f)
  BY <1>0, Numbers DEF NotOlder, MadeFromCache
<1>2. /\ compiler.version \in Nat /\ compiler.version <= saves
      /\ compiler.mtime \in Nat /\ compiler.mtime <= clock
  BY <1>0, Numbers
<1>3. ASSUME NEW f \in DOMAIN visited
      PROVE  /\ f \in Files
             /\ visited[f].text \in Nat /\ visited[f].text <= source[f].text
             /\ visited[f].mtime \in Nat /\ visited[f].mtime <= source[f].mtime
  BY <1>0, Numbers DEF Names
<1>4. Names'
  <2>1. ASSUME NEW f \in DOMAIN visited
        PROVE  mode # "idle"
    BY DEF Base, Rest
  <2>2. ASSUME NEW f \in DOMAIN visited, visited' = visited
        PROVE  visited[f].text <= source'[f].text /\ visited[f].mtime <= source'[f].mtime
    <3>1. CASE UNCHANGED source
      BY <1>3, <3>1
    <3>2. ASSUME NEW g \in Files, Saves(g)
          PROVE  visited[f].text <= source'[f].text /\ visited[f].mtime <= source'[f].mtime
      <4>1. CASE g = f
        BY <1>0, <1>1, <1>3, <2>1, <3>2, <4>1 DEF Saves
      <4>2. CASE g # f
        BY <1>3, <3>2, <4>2 DEF Saves
      <4> QED BY <4>1, <4>2
    <3> QED BY <3>1, <3>2, FilesStep DEF files, Installs, Writes, Compiles
  <2>3. CASE visited' = visited
    BY <2>2, <2>3 DEF Names
  <2>4. CASE Opens
    <3>1. source' = source
      <4>1. stack # << >> /\ stack[1].stage = "enter" /\ Len(stack') = Len(stack) /\ stack'[1] # stack[1]
        BY <2>4 DEF Opens, Turns, Frame
      <4> QED BY <4>1, FilesStep DEF files, Saves, Installs, Writes, Compiles, build
    <3>2. InnerFile \in Files
      BY <1>0, <2>4, InnerCall DEF Opens
    <3>3. \A f \in DOMAIN visited' : visited'[f] = source[f] \/ (f \in DOMAIN visited /\ visited'[f] = visited[f])
      BY <2>4 DEF Opens
    <3>4. DOMAIN visited' \subseteq Files
      BY <1>3, <2>4, <3>2 DEF Opens
    <3> QED BY <1>1, <1>3, <3>1, <3>3, <3>4 DEF Names
  <2>5. CASE Exits
    BY <2>5 DEF Exits, Exit, Names
  <2>6. (Quiet \/ Begins \/ Again \/ Descends \/ Links \/ Skips \/ \E s : Proceeds(s)) => visited' = visited
    BY DEF Quiet, build, Begins, Again, Descends, Links, Skips, Proceeds
  <2> QED BY <2>3, <2>4, <2>5, <2>6, WhichStep
<1>5. NotOlder'
  <2> SUFFICES ASSUME NEW f \in Files
               PROVE  NotOlderAt(f)'
    BY DEF NotOlder
  <2>1. CASE UNCHANGED <<source, compiler, ccache>>
    BY <1>0, <1>1, <2>1 DEF NotOlderAt
  <2>2. ASSUME NEW g \in Files, Saves(g)
        PROVE  NotOlderAt(f)'
    <3>1. CASE g = f
      <4>1. ~(ccache[f].text = saves + 1) /\ ccache[f].text <= saves + 1
        BY <1>0, <1>1 DEF NotOlderAt
      <4> QED BY <1>1, <2>2, <3>1, <4>1 DEF Saves, NotOlderAt
    <3>2. CASE g # f
      <4>1. source'[f] = source[f] /\ UNCHANGED <<clock, compiler, ccache>>
        BY <2>2, <3>2 DEF Saves
      <4> QED BY <1>1, <4>1 DEF NotOlderAt
    <3> QED BY <3>1, <3>2
  <2>3. CASE Installs
    <3>1. ~(ccache[f].version = saves + 1) /\ ccache[f].version <= saves + 1
      BY <1>0, <1>1, <1>2 DEF NotOlderAt
    <3> QED BY <1>1, <2>3, <3>1 DEF Installs, NotOlderAt
  <2>4. ASSUME NEW state \in {"whole", "rejected", "partial"}, Writes(state)
        PROVE  NotOlderAt(f)'
    <3>1. InnerFile \in DOMAIN visited /\ InnerFile \in Files
      BY <1>3, <2>4, InnerVisited DEF Writes
    <3>2. CASE InnerFile = f
      <4>1. ccache'[f] = CFile(f, state) /\ UNCHANGED <<clock, source, compiler>>
        BY <1>0, <2>4, <3>1, <3>2, OtherCFiles DEF Writes
      <4>2. /\ CFile(f, state).text = visited[f].text /\ CFile(f, state).version = compiler.version
            /\ CFile(f, state).mtime = clock
        BY DEF CFile
      <4> QED BY <1>0, <1>1, <1>2, <1>3, <3>1, <3>2, <4>1, <4>2 DEF NotOlderAt
    <3>3. CASE InnerFile # f
      <4>1. ccache'[f] = ccache[f] /\ UNCHANGED <<clock, source, compiler>>
        BY <1>0, <2>4, <3>1, <3>3, OtherCFiles DEF Writes
      <4> QED BY <1>1, <4>1 DEF NotOlderAt
    <3> QED BY <3>2, <3>3
  <2> QED BY <2>1, <2>2, <2>3, <2>4, FilesStep DEF files, Compiles
<1>6. MadeFromCache'
  <2> SUFFICES ASSUME NEW f \in Files
               PROVE  MadeFromCacheAt(f)'
    BY DEF MadeFromCache
  <2>1. CASE UNCHANGED <<object, ccache>>
    BY <1>0, <1>1, <2>1 DEF MadeFromCacheAt
  <2>2. ASSUME NEW state \in {"whole", "rejected", "partial"}, Writes(state)
        PROVE  MadeFromCacheAt(f)'
    <3>1. InnerFile \in DOMAIN visited /\ InnerFile \in Files
      BY <1>3, <2>2, InnerVisited DEF Writes
    <3>2. CASE InnerFile = f
      <4>1. ccache'[f] = CFile(f, state) /\ UNCHANGED <<clock, object>>
        BY <1>0, <2>2, <3>1, <3>2, OtherCFiles DEF Writes
      <4>2. CFile(f, state).mtime = clock
        BY DEF CFile
      <4> QED BY <1>0, <1>1, <4>1, <4>2 DEF MadeFromCacheAt
    <3>3. CASE InnerFile # f
      <4>1. ccache'[f] = ccache[f] /\ UNCHANGED <<clock, object>>
        BY <1>0, <2>2, <3>1, <3>3, OtherCFiles DEF Writes
      <4> QED BY <1>1, <4>1 DEF MadeFromCacheAt
    <3> QED BY <3>2, <3>3
  <2>3. ASSUME NEW o, Compiles(o)
        PROVE  MadeFromCacheAt(f)'
    <3>1. InnerFile \in Files
      BY <1>0, <2>3, InnerCall DEF Compiles
    <3>2. CASE InnerFile = f
      <4>1. object'[Object[f]] = o /\ UNCHANGED <<clock, ccache>>
        BY <1>0, <2>3, <3>1, <3>2, OtherObjects DEF Compiles
      <4>2. CASE o = Missing
        BY <1>0, <1>1, <4>1, <4>2 DEF Missing, MadeFromCacheAt
      <4>3. CASE o = [ccache[f] EXCEPT !.mtime = clock]
        <5>1. ccache[f] \in Generated
          BY <1>0, Numbers
        <5>2. /\ o.mtime = clock /\ o.text = ccache[f].text /\ o.version = ccache[f].version
              /\ o.state = ccache[f].state
          BY <4>3, <5>1 DEF Generated
        <5> QED BY <1>0, <4>1, <5>2 DEF MadeFromCacheAt
      <4> QED BY <2>3, <3>2, <4>2, <4>3 DEF Compiles
    <3>3. CASE InnerFile # f
      <4>1. object'[Object[f]] = object[Object[f]] /\ UNCHANGED <<clock, ccache>>
        BY <1>0, <2>3, <3>1, <3>3, OtherObjects DEF Compiles
      <4> QED BY <1>1, <4>1 DEF MadeFromCacheAt
    <3> QED BY <3>2, <3>3
  <2> QED BY <2>1, <2>2, <2>3, FilesStep DEF files, Saves, Installs
<1> QED BY <1>4, <1>5, <1>6 DEF Times

(* The innermost call after a step.                                        *)
LEMMA InnerAfter ==
  ASSUME stack' \in Seq(Call), stack' # << >>
  PROVE  /\ Forced' <=> mode' = "genc" /\ stack'[1].file = Main
         /\ 1 \in Depth'
<1>1. Len(stack') \in Nat /\ Len(stack') >= 1 /\ Depth' = 1 .. Len(stack')
  BY EmptySeq, LenProperties DEF Depth
<1>2. Head(stack') = stack'[1]
  BY <1>1
<1>3. 1 \in Depth'
  BY <1>1
<1> QED BY <1>2, <1>3 DEF Forced, Top

LEMMA InnerForced ==
  ASSUME TypeOK, stack # << >>
  PROVE  Forced <=> mode = "genc" /\ InnerFile = Main
BY InnerCall DEF Forced, InnerFile

LEMMA InnermostStep ==
  ASSUME Base, Times, Innermost, [Next]_vars
  PROVE  Innermost'
<1>0. /\ TypeOK /\ Chained /\ Names /\ stack' \in Seq(Call)
      /\ mode = "idle" => stack = << >>
      /\ stack # << >> => mode # "idle" /\ InnerFile \in Files /\ Top.file = InnerFile
  BY CallsStep, InnerCall DEF Base, Times, Rest, InnerFile
<1>1. ASSUME stack' = << >> \/ stack'[1].stage \notin {"transpile", "compile"}
      PROVE  Innermost'
  BY <1>1 DEF Innermost
<1>2. CASE Exits
  BY <1>1, <1>2 DEF Exits, Exit
<1>3. CASE Begins
  BY <1>1, <1>3, FirstCall DEF Frame
<1>4. CASE Again \/ Links \/ Skips
  <2>1. CASE stack' # << >>
    <3>1. stack # << >> /\ Returns /\ 1 \in Depth'
      BY <1>0, <1>4, <2>1, InnerAfter DEF Again, Links, Skips
    <3>2. stack'[1].stage = "imports"
      BY <1>0, <3>1, Returned
    <3> QED BY <1>1, <3>2
  <2> QED BY <1>1, <2>1
<1>5. CASE Opens \/ Descends \/ Proceeds("check")
  BY <1>1, <1>5 DEF Opens, Descends, Proceeds, Turns, Nests, Frame
<1>6. CASE Quiet /\ stack # << >>
  <2>1. stack' = stack /\ visited' = visited /\ mode' = mode /\ mode # "idle"
    BY <1>0, <1>6 DEF Quiet, build
  <2>2. InnerFile' = InnerFile /\ (Forced' <=> Forced)
    BY <1>0, <1>6, <2>1, InnerAfter, InnerForced DEF InnerFile
  <2>3. CASE UNCHANGED files
    BY <1>6, <2>1, <2>2, <2>3 DEF Innermost, files, NeedTranspile, Trusted, MadeFrom, InnerFile
  <2>4. ASSUME NEW g \in Files, Saves(g)
        PROVE  Innermost'
    <3>1. UNCHANGED <<ccache, compiler, stack, visited>> /\ Trusted(InnerFile)' = Trusted(InnerFile)
      BY <2>1, <2>4 DEF Saves, Trusted, MadeFrom, InnerFile
    <3>2. source'[InnerFile].mtime >= source[InnerFile].mtime
      <4>1. CASE g = InnerFile
        BY <1>0, <2>1, <2>4, <4>1, Numbers DEF Saves
      <4>2. CASE g # InnerFile
        BY <1>0, <1>6, <2>4, <4>2, Numbers DEF Saves
      <4> QED BY <4>1, <4>2
    <3>3. source'[InnerFile].mtime \in Nat
      BY <1>0, <1>6, <2>1, <2>4, Numbers DEF Saves
    <3>4. NeedTranspile(InnerFile) => NeedTranspile(InnerFile)'
      <4>1. /\ source[InnerFile].mtime \in Nat /\ ccache[InnerFile].mtime \in Nat
            /\ compiler.mtime \in Nat
        BY <1>0, <1>6, Numbers
      <4> QED BY <2>2, <3>1, <3>2, <3>3, <4>1 DEF NeedTranspile
    <3> QED BY <1>6, <2>1, <2>2, <3>1, <3>4 DEF Innermost
  <2>5. ~Installs
    BY <2>1 DEF Installs
  <2>6. (\A state : ~Writes(state)) /\ (\A o : ~Compiles(o))
    BY <2>1 DEF Writes, Compiles
  <2> QED BY <2>3, <2>4, <2>5, <2>6, FilesStep
<1>7. CASE Quiet /\ stack = << >>
  <2>1. stack' = << >>
    BY <1>7 DEF Quiet, build
  <2> QED BY <1>1, <2>1
<1>8. CASE Check /\ ~Links
  <2>1. /\ stack # << >> /\ stack[1].stage = "check"
        /\ UNCHANGED <<source, compiler, ccache, visited, mode>>
    BY <1>0, <1>8, InnerCall DEF Check, At, files
  <2>2. PICK f \in Files : f = InnerFile
    BY <1>0, <2>1
  <2>3. \/ (Forced \/ NeedTranspile(f)) /\ Goto("transpile", 0)
        \/ ~NeedTranspile(f) /\ Goto("compile", 0)
    <3>1. Return(f) => Links
      BY <1>0, <1>8, <2>1, <2>2, ReturnIs DEF Return, Links, Check
    <3> QED BY <1>0, <1>8, <2>1, <2>2, <3>1 DEF Check
  <2>4. ASSUME NEW s \in {"transpile", "compile"}, Goto(s, 0)
        PROVE  stack'[1].stage = s /\ InnerFile' = f /\ stack' # << >> /\ (Forced' <=> Forced)
    <3>1. Turns(Frame(f, s, 0))
      BY <1>0, <2>1, <2>2, <2>4, GotoIs DEF Stages
    <3>2. stack'[1].stage = s /\ stack'[1].file = f /\ Len(stack') = Len(stack)
      BY <3>1 DEF Turns, Frame
    <3>3. stack' # << >>
      BY <1>0, <2>1, <3>2, EmptySeq, TopIs
    <3> QED BY <1>0, <2>1, <2>2, <3>2, <3>3, InnerAfter, InnerForced DEF InnerFile
  <2>5. CASE (Forced \/ NeedTranspile(f)) /\ Goto("transpile", 0)
    <3>1. NeedTranspile(f) => NeedTranspile(InnerFile)'
      BY <2>1, <2>4, <2>5 DEF NeedTranspile
    <3> QED BY <2>4, <2>5, <3>1 DEF Innermost
  <2>6. CASE ~NeedTranspile(f) /\ Goto("compile", 0)
    <3>1. f \in DOMAIN visited
      BY <2>1, <2>2, InnerVisited
    <3>2. ccache[f].mtime >= visited[f].mtime /\ ccache[f].mtime >= compiler.mtime
      BY <1>0, <2>6, <3>1, Numbers DEF NeedTranspile, Names
    <3>3. Trusted(InnerFile)'
      BY <2>1, <2>4, <2>6, <3>2 DEF Trusted
    <3> QED BY <2>4, <2>6, <3>3 DEF Innermost
  <2> QED BY <2>3, <2>5, <2>6
<1>9. CASE Transpile /\ ~Exits /\ ~Skips
  <2>1. stack # << >> /\ stack[1].stage = "transpile" /\ imports' = imports /\ compiler' = compiler
    BY <1>0, <1>9, InnerCall DEF Transpile, At
  <2>2. PICK f \in Files : f = InnerFile
    BY <1>0, <2>1
  <2>3. f \in DOMAIN visited
    BY <2>1, <2>2, InnerVisited
  <2>4. /\ visited[f].fault = "none" /\ visited' = visited /\ mode' = mode
        /\ IF Forced THEN stack' = Tail(stack) ELSE Goto("compile", 0)
        /\ ~Forced => ccache' = [ccache EXCEPT ![f] = CFile(f, "whole")]
        /\ objects' = objects
    BY <1>0, <1>9, <2>1, <2>2 DEF Transpile, Exits
  <2>5. ~Forced
    BY <1>0, <1>9, <2>1, <2>4, ReturnIs, InnerForced DEF Skips
  <2>6. Turns(Frame(f, "compile", 0))
    BY <1>0, <2>1, <2>2, <2>4, <2>5, GotoIs DEF Stages
  <2>7. stack'[1].stage = "compile" /\ stack'[1].file = f
    BY <2>6 DEF Turns, Frame
  <2>8. ccache'[f] = CFile(f, "whole")
    BY <1>0, <2>4, <2>5, OtherCFiles
  <2>9. MadeFrom(CFile(f, "whole"), f)
    BY DEF MadeFrom, CFile
  <2>10. Trusted(InnerFile)'
    BY <2>1, <2>4, <2>7, <2>8, <2>9 DEF Trusted, MadeFrom, InnerFile
  <2> QED BY <2>7, <2>10 DEF Innermost
<1>10. CASE Enter \/ Import \/ Compile
  <2>1. ASSUME NEW s, Import, Proceeds(s)
        PROVE  s = "check"
    BY <1>0, <2>1, InnerCall DEF Import, At, Proceeds
  <2> QED BY <1>2, <1>4, <1>5, <1>10, <2>1, EnterDoes, ImportDoes, CompileDoes
<1>11. CASE Interrupt \/ Finish
  BY <1>2, <1>11 DEF Interrupt, Finish, Exits
<1>12. CASE Tick \/ Install \/ UNCHANGED vars
           \/ (\E f \in Files : Delete(f) \/ \E fault \in {"none", "types"} : Save(f, fault))
  <2>1. Quiet
    BY <1>12 DEF Tick, Install, Delete, Save, Quiet, vars
  <2> QED BY <1>6, <1>7, <2>1
<1>13. CASE \E m \in {"build", "genc"} : Start(m)
  BY <1>3, <1>13 DEF Start, Begins
<1> QED BY <1>2, <1>4, <1>8, <1>9, <1>10, <1>11, <1>12, <1>13 DEF Next, Running

LEMMA GoodKept ==
  ASSUME AllGood, mode = "build", Finished' = Finished, compiler' = compiler,
         \A f \in Finished : /\ ccache'[f] = ccache[f] /\ visited'[f] = visited[f]
                             /\ object'[Object[f]] = object[Object[f]]
  PROVE  AllGood'
<1> SUFFICES ASSUME NEW f \in Finished
             PROVE  Good(f)'
  BY DEF AllGood
<1>1. Good(f)
  BY DEF AllGood
<1> QED BY <1>1 DEF Good, MadeFrom

LEMMA AllGoodStep ==
  ASSUME Base, Walk, Times, Innermost, AllGood, [Next]_vars
  PROVE  AllGood'
<1>0. /\ TypeOK /\ Chained /\ Names /\ MadeFromCache
      /\ mode = "idle" => stack = << >> /\ DOMAIN visited = {} /\ objects = << >>
      /\ stack # << >> => mode # "idle" /\ InnerFile \in Files /\ Top.file = InnerFile
  BY InnerCall DEF Base, Times, Rest, InnerFile
<1>1. CASE mode' # "build"
  BY <1>1 DEF AllGood
<1>2. CASE Begins
  <2>1. Finished' = {}
    <3>1. objects' = << >>
      BY <1>0, <1>2 DEF Begins
    <3>2. ToSet(objects') = {}
      BY <3>1 DEF ToSet
    <3> QED BY <3>2 DEF Finished
  <2> QED BY <2>1 DEF AllGood
<1> SUFFICES ASSUME mode' = "build", ~Begins
             PROVE  AllGood'
  BY <1>1, <1>2
<1>3. ~Exits /\ ~Skips
  BY DEF Exits, Exit, Skips
<1>4. mode = "build" /\ Once
  <2>1. mode' = mode
    BY <1>3, WhichStep DEF Quiet, build, Again, Opens, Descends, Links, Proceeds
  <2> QED BY <2>1 DEF Walk
<1>5. Finished \subseteq DOMAIN visited /\ Finished \subseteq Files
  BY <1>4 DEF Once, Finished
<1>6. stack # << >> /\ stack[1].stage # "enter" => InnerFile \notin Finished
  <2>1. stack # << >> /\ stack[1].stage # "enter" => InnerFile \in Working
    BY <1>0, Split DEF InnerFile
  <2> QED BY <1>4, <2>1 DEF Once
<1>7. ASSUME UNCHANGED <<compiler, ccache, object, objects>>, ~Links
      PROVE  AllGood'
  <2>1. Finished' = Finished
    BY <1>7 DEF Finished
  <2>2. \A f \in Finished : visited'[f] = visited[f]
    BY <1>3, <1>5, <1>7, WhichStep DEF Quiet, build, Again, Opens, Descends, Proceeds
  <2> QED BY <1>4, <1>7, <2>1, <2>2, GoodKept
<1>8. CASE Enter \/ Import
  <2>1. UNCHANGED files
    BY <1>8 DEF Enter, Import
  <2>2. objects' = objects
    BY <1>3, <1>8, EnterDoes, ImportDoes DEF Again, Opens, Descends, Proceeds
  <2>3. ~Links
    BY <1>0, <1>8, InnerCall DEF Enter, Import, At, Links
  <2> QED BY <1>7, <2>1, <2>2, <2>3 DEF files
<1>9. CASE Tick \/ Install \/ UNCHANGED vars
           \/ (\E f \in Files : Delete(f) \/ \E fault \in {"none", "types"} : Save(f, fault))
  <2>1. UNCHANGED <<compiler, ccache, object, objects, stack>>
    BY <1>4, <1>9 DEF Tick, Install, Delete, Save, files, build, vars
  <2>2. ~Links
    <3>1. stack # << >> => Len(stack) \in Nat
      BY <1>0, TopIs
    <3> QED BY <2>1, <3>1 DEF Links, Returns
  <2> QED BY <1>7, <2>1, <2>2
<1>10. CASE Check
  <2>1. /\ stack # << >> /\ stack[1].stage = "check"
        /\ UNCHANGED <<source, compiler, ccache, object, visited, mode>>
    BY <1>0, <1>10, InnerCall DEF Check, At, files
  <2>2. PICK f \in Files : f = InnerFile
    BY <1>0, <2>1
  <2>3. f \in DOMAIN visited
    BY <2>1, <2>2, InnerVisited
  <2>4. CASE objects' = objects
    <3>1. Finished' = Finished
      BY <2>4 DEF Finished
    <3> QED BY <1>4, <2>1, <3>1, GoodKept
  <2>5. CASE ~NeedCompile(f) /\ Return(f)
    <3>1. Finished' = Finished \cup {f}
      BY <1>0, <2>5, FinishedGrows DEF Return
    <3>2. /\ ccache[f].mtime \in Nat /\ object[Object[f]].mtime \in Nat
          /\ source[f].mtime \in Nat /\ compiler.mtime \in Nat /\ visited[f].mtime \in Nat
          /\ visited[f].mtime <= source[f].mtime /\ MadeFromCacheAt(f)
      BY <1>0, <2>3, Numbers DEF Names, MadeFromCache
    <3>3. /\ ccache[f].mtime >= visited[f].mtime /\ ccache[f].mtime >= compiler.mtime
          /\ object[Object[f]].mtime > ccache[f].mtime \/ object[Object[f]].mtime = ccache[f].mtime
      BY <2>5, <3>2 DEF NeedCompile, NeedTranspile
    <3>4. Good(f)
      BY <3>2, <3>3 DEF Good, MadeFrom, MadeFromCacheAt
    <3>5. ASSUME NEW g \in Finished \cup {f}
          PROVE  Good(g)'
      <4>1. Good(g)
        BY <1>4, <3>4 DEF AllGood
      <4> QED BY <2>1, <4>1 DEF Good, MadeFrom
    <3> QED BY <3>1, <3>5 DEF AllGood
  <2> QED BY <1>0, <1>10, <2>1, <2>2, <2>4, <2>5 DEF Check
<1>11. CASE Transpile
  <2>1. /\ stack # << >> /\ stack[1].stage = "transpile"
        /\ UNCHANGED <<source, compiler, object>>
    BY <1>0, <1>11, InnerCall DEF Transpile, At
  <2>2. /\ visited' = visited /\ objects' = objects
        /\ ccache' = ccache \/ \E c : ccache' = [ccache EXCEPT ![InnerFile] = c]
    BY <1>0, <1>3, <1>11, <2>1 DEF Transpile, Exits
  <2>3. \A f \in Finished : f # InnerFile
    BY <1>6, <2>1
  <2>4. \A f \in Finished : ccache'[f] = ccache[f]
    BY <1>0, <1>5, <2>1, <2>2, <2>3, OtherCFiles
  <2>5. Finished' = Finished
    BY <2>2 DEF Finished
  <2> QED BY <1>4, <2>1, <2>2, <2>4, <2>5, GoodKept
<1>12. CASE Compile
  <2>1. /\ stack # << >> /\ stack[1].stage = "compile"
        /\ UNCHANGED <<source, compiler, ccache>>
    BY <1>0, <1>12, InnerCall DEF Compile, At
  <2>2. PICK f \in Files : f = InnerFile
    BY <1>0, <2>1
  <2>3. PICK o : o = [ccache[f] EXCEPT !.mtime = clock]
    OBVIOUS
  <2>4. object' = [object EXCEPT ![Object[f]] = o] /\ Return(f) /\ visited' = visited
    BY <1>0, <1>3, <1>12, <2>1, <2>2, <2>3 DEF Compile, Exits
  <2>5. /\ object'[Object[f]] = o
        /\ \A g \in Files : g # f => object'[Object[g]] = object[Object[g]]
    BY <1>0, <2>4, OtherObjects
  <2>6. o.text = ccache[f].text /\ o.version = ccache[f].version /\ o.state = ccache[f].state
    <3>1. ccache[f] \in Generated
      BY <1>0, Numbers
    <3> QED BY <2>3, <3>1 DEF Generated
  <2>7. Good(f)'
    <3>1. Trusted(f)
      BY <2>1, <2>2 DEF Innermost
    <3>2. MadeFrom(o, f) <=> MadeFrom(ccache[f], f)
      BY <2>6 DEF MadeFrom
    <3> QED BY <2>1, <2>4, <2>5, <3>1, <3>2 DEF Good, Trusted, MadeFrom
  <2>8. Finished' = Finished \cup {f}
    BY <1>0, <2>4, FinishedGrows DEF Return
  <2>9. ASSUME NEW g \in Finished, g # f
        PROVE  Good(g)'
    <3>1. Good(g) /\ object'[Object[g]] = object[Object[g]]
      BY <1>4, <1>5, <2>5, <2>9 DEF AllGood
    <3> QED BY <2>1, <2>4, <3>1 DEF Good, MadeFrom
  <2> QED BY <2>7, <2>8, <2>9 DEF AllGood
<1>13. ~Finish /\ ~Interrupt /\ ~\E m \in {"build", "genc"} : Start(m)
  BY <1>3, <1>4 DEF Finish, Interrupt, Exits, Start
<1> QED BY <1>8, <1>9, <1>10, <1>11, <1>12, <1>13 DEF Next, Running

LEMMA BInvStep == BInv /\ [Next]_vars => BInv'
BY BaseStep, WalkStep, TimesStep, InnermostStep, AllGoodStep DEF BInv

LEMMA BInvInit == Init => BInv
<1> SUFFICES ASSUME Init
             PROVE  Times /\ Innermost /\ AllGood
  BY BaseInit, WalkInit DEF BInv
<1>1. /\ DOMAIN visited = {} /\ stack = << >> /\ mode = "idle" /\ clock = 1
      /\ \A f \in Files : /\ source[f].mtime = 1 /\ ccache[f] = Missing
                          /\ object[Object[f]] = Missing /\ source[f].text = 0
      /\ compiler.version = 0 /\ compiler.mtime = 1
  BY DEF Init
<1>2. Missing.text = 0 /\ Missing.version = 0 /\ Missing.mtime = 0 /\ Missing.state = "missing"
  BY DEF Missing
<1>3. Names /\ Innermost /\ AllGood
  BY <1>1 DEF Names, Innermost, AllGood
<1>4. NotOlder
  BY <1>1, <1>2 DEF NotOlder, NotOlderAt
<1>5. MadeFromCache
  BY <1>1, <1>2 DEF MadeFromCache, MadeFromCacheAt
<1> QED BY <1>3, <1>4, <1>5 DEF Times

LEMMA BuildInductive == Spec => []BInv
BY BInvInit, BInvStep, PTL DEF Spec

(* What a build links was made from the texts it parsed by the compiler    *)
(* there is, unless the times of the files in the cache cannot tell.       *)
THEOREM LinksWhatItParsed == Spec => []StaleOnlyIfTimesLie
<1>1. BInv => StaleOnlyIfTimesLie
  <2> SUFFICES ASSUME BInv, Linking, NEW f \in DOMAIN visited
               PROVE  Good(f)
    BY DEF StaleOnlyIfTimesLie, Good
  <2>1. mode = "build" /\ stack = << >> /\ AllGood /\ Once
    BY DEF Linking, BInv, Walk
  <2>2. f \in Finished
    BY <2>1, NoStack DEF Once
  <2> QED BY <2>1, <2>2 DEF AllGood
<1> QED BY <1>1, BuildInductive, PTL

(* Nothing is transpiled that was transpiled from the same text by the     *)
(* same compiler and came out whole.                                       *)
THEOREM TranspilesOnlyIfNeeded == Spec => NoNeedlessTranspile
<1>1. ASSUME BInv, [Next]_vars, NEW f \in Files, ccache'[f] # ccache[f], source[f] = visited[f]
      PROVE  ~MadeFrom(ccache[f], f)
  <2>0. TypeOK /\ Innermost /\ NotOlderAt(f)
    BY <1>1 DEF BInv, Base, Times, NotOlder
  <2>1. PICK state : Writes(state)
    BY <1>1, FilesStep DEF BInv, files, Saves, Installs, Compiles
  <2>2. InnerFile = f
    <3>1. InnerFile \in Files
      BY <2>0, <2>1, InnerCall DEF Writes
    <3> QED BY <1>1, <2>0, <2>1, <3>1, OtherCFiles DEF Writes
  <2>3. NeedTranspile(f)
    BY <2>0, <2>1, <2>2 DEF Writes, Innermost
  <2>4. /\ ccache[f].mtime \in Nat /\ source[f].mtime \in Nat /\ compiler.mtime \in Nat
    BY <2>0, Numbers
  <2> SUFFICES ASSUME MadeFrom(ccache[f], f)
               PROVE  FALSE
    OBVIOUS
  <2>5. /\ ccache[f].state # "missing" /\ ccache[f].text = source[f].text
        /\ ccache[f].version = compiler.version
    BY <1>1 DEF MadeFrom
  <2> QED BY <2>0, <2>3, <2>4, <2>5 DEF NotOlderAt, NeedTranspile
<1>2. BInv /\ [Next]_vars =>
        [\A f \in Files :
           ccache'[f] # ccache[f] /\ source[f] = visited[f] => ~MadeFrom(ccache[f], f)]_vars
  BY <1>1
<1> QED BY <1>2, BuildInductive, PTL DEF Spec, NoNeedlessTranspile

-----------------------------------------------------------------------------
(* The lexer. *)

(* A set of numbers that is not empty has a least element. *)
LEMMA MinIsLeast ==
  ASSUME NEW S \in SUBSET Nat, S # {}
  PROVE  Min(S) \in S /\ \A x \in S : Min(S) <= x
<1> DEFINE R == {ss \in Nat \X Nat : ss[1] < ss[2]}
<1>1. IsWellFoundedOn(R, Nat)
  <2>1. OpToRel(<, Nat) = R
    BY Zenon DEF OpToRel
  <2> QED BY <2>1, NatLessThanWellFounded, Zenon
<1> HIDE DEF R
<1>2. PICK x \in S : \A y \in S : ~ (<<y, x>> \in R)
  BY <1>1, WFMin
<1>3. ASSUME NEW y \in S, y < x
      PROVE  FALSE
  <2>1. <<y, x>> \in Nat \X Nat /\ <<y, x>>[1] < <<y, x>>[2]
    BY <1>3
  <2>2. <<y, x>> \in R
    BY <2>1, Zenon DEF R
  <2> QED BY <1>2, <2>2
<1>4. \A y \in S : x <= y
  BY <1>3
<1> QED BY <1>4 DEF Min

LEMMA MinIs ==
  ASSUME NEW S \in SUBSET Nat, NEW x \in S, \A y \in S : x <= y
  PROVE  Min(S) = x
<1>1. Min(S) \in S /\ Min(S) <= x /\ x <= Min(S)
  BY MinIsLeast
<1>2. Min(S) \in Nat /\ x \in Nat
  BY <1>1
<1> QED BY <1>1, <1>2

-----------------------------------------------------------------------------
(* What is reached by steps forwards. *)

Steps(f, a, z) ==
  \A s \in f : s[1] \in a .. z /\ s[2] \in a .. z /\ s[1] < s[2]

LEMMA ReachedClosed ==
  ASSUME NEW a \in Nat, NEW z \in Nat, a <= z, NEW f, Steps(f, a, z)
  PROVE  /\ a \in Reached(f, a, z) /\ Reached(f, a, z) \subseteq a .. z
         /\ \A s \in f : s[1] \in Reached(f, a, z) => s[2] \in Reached(f, a, z)
<1>1. a \in a .. z
  OBVIOUS
<1> QED BY <1>1 DEF Reached, Steps

(* What is reached and not the beginning is reached by a step. *)
LEMMA ReachedByStep ==
  ASSUME NEW a \in Nat, NEW z \in Nat, a <= z, NEW f, Steps(f, a, z),
         NEW k \in Reached(f, a, z), k # a
  PROVE  \E s \in f : s[1] \in Reached(f, a, z) /\ s[2] = k
<1> SUFFICES ASSUME \A s \in f : ~(s[1] \in Reached(f, a, z) /\ s[2] = k)
             PROVE  FALSE
  OBVIOUS
<1> DEFINE S == Reached(f, a, z) \ {k}
<1>1. S \in SUBSET (a .. z) /\ a \in S /\ \A s \in f : s[1] \in S => s[2] \in S
  BY ReachedClosed
<1>2. k \in S
  BY <1>1 DEF Reached
<1> QED BY <1>2

(* Between two that are a step apart there is none. *)
LEMMA NothingBetween ==
  ASSUME NEW a \in Nat, NEW z \in Nat, a <= z, NEW f, Steps(f, a, z),
         \A s, u \in f : s[1] = u[1] => s[2] = u[2],
         NEW s \in f, s[1] \in Reached(f, a, z),
         NEW j \in Reached(f, a, z), s[1] < j
  PROVE  s[2] <= j
<1> DEFINE R == Reached(f, a, z)
           Bad == {k \in R : \E u \in f : u[1] \in R /\ u[1] < k /\ ~(u[2] <= k)}
<1>1. R \subseteq a .. z /\ R \in SUBSET Nat
  BY ReachedClosed
<1> HIDE DEF R
<1> SUFFICES ASSUME Bad # {}
             PROVE  FALSE
  BY DEF R
<1>2. Bad \in SUBSET Nat
  BY <1>1
<1> DEFINE k == Min(Bad)
<1>3. k \in Bad /\ \A i \in Bad : k <= i
  BY <1>2, MinIsLeast
<1> HIDE DEF k
<1>4. k \in R /\ k \in Nat
  BY <1>1, <1>3
<1>5. PICK u \in f : u[1] \in R /\ u[1] < k /\ ~(u[2] <= k)
  BY <1>3
<1>6. a <= u[1] /\ u[1] \in Nat /\ u[2] \in Nat
  BY <1>1, <1>5 DEF Steps
<1>7. PICK h \in f : h[1] \in R /\ h[2] = k
  BY <1>4, <1>5, <1>6, ReachedByStep DEF R
<1>8. h[1] \in Nat /\ h[1] < k
  BY <1>1, <1>7 DEF Steps
<1>9. CASE u[1] < h[1]
  <2>1. h[1] \notin Bad
    BY <1>3, <1>4, <1>8
  <2>2. u[2] <= h[1]
    BY <1>5, <1>7, <1>9, <2>1
  <2> QED BY <1>4, <1>5, <1>6, <1>8, <2>2
<1>10. CASE u[1] = h[1]
  BY <1>4, <1>5, <1>7, <1>10
<1>11. CASE h[1] < u[1]
  <2>1. u[1] \notin Bad
    BY <1>3, <1>4, <1>5, <1>6
  <2>2. h[2] <= u[1]
    BY <1>5, <1>7, <1>11, <2>1
  <2> QED BY <1>4, <1>5, <1>6, <1>7, <2>2
<1> QED BY <1>6, <1>8, <1>9, <1>10, <1>11

-----------------------------------------------------------------------------
(* The text and what it is cut into. *)

Given == text \in Seq(Characters) /\ size \in Nat \ {0, 1}

LEMMA GivenFacts ==
  ASSUME Given
  PROVE  /\ Len(text) \in Nat /\ size \in Nat /\ size > 1
         /\ \A i \in 1 .. Len(text) : text[i] \in Characters /\ text[i] # NUL
BY DEF Given, Characters, Alnum, Letters, NUL, QQ

LEMMA IsOne ==
  ASSUME Given, NEW i \in Nat \ {0}, NEW x
  PROVE  Is(i, <<x>>) <=> i <= Len(text) /\ text[i] = x
<1>1. DOMAIN <<x>> = {1} /\ <<x>>[1] = x
  OBVIOUS
<1>2. (i + 1) - 1 = i
  OBVIOUS
<1> QED BY <1>1, <1>2 DEF Is

LEMMA IsTwo ==
  ASSUME Given, NEW i \in Nat \ {0}, NEW x, NEW y
  PROVE  Is(i, <<x, y>>) <=> i + 1 <= Len(text) /\ text[i] = x /\ text[i + 1] = y
<1>1. DOMAIN <<x, y>> = {1, 2} /\ <<x, y>>[1] = x /\ <<x, y>>[2] = y
  OBVIOUS
<1>2. (i + 1) - 1 = i /\ (i + 2) - 1 = i + 1
  OBVIOUS
<1>3. Len(text) \in Nat
  BY GivenFacts
<1>4. Is(i, <<x, y>>) <=> /\ i <= Len(text) /\ text[i] = x
                         /\ i + 1 <= Len(text) /\ text[i + 1] = y
  BY <1>1, <1>2 DEF Is
<1> QED BY <1>3, <1>4

(* fgets takes at least a character, no more than there is room for, and   *)
(* none behind a newline.                                                  *)
LEMMA PieceEndFacts ==
  ASSUME Given, NEW b \in 0 .. Len(text), b < Len(text)
  PROVE  /\ PieceEnd(b) \in b + 1 .. Len(text) /\ PieceEnd(b) <= b + (size - 1)
         /\ \A k \in b + 1 .. PieceEnd(b) - 1 : text[k] # "nl"
<1> DEFINE S == {b + size - 1, Len(text)} \cup {j \in b + 1 .. Len(text) : text[j] = "nl"}
<1>1. Len(text) \in Nat /\ size \in Nat /\ size > 1
  BY GivenFacts
<1>2. S \in SUBSET Nat /\ S # {}
  BY <1>1
<1>3. Min(S) \in S /\ \A x \in S : Min(S) <= x
  BY <1>2, MinIsLeast
<1>4. PieceEnd(b) = Min(S)
  BY DEF PieceEnd
<1>5. \A x \in S : b + 1 <= x
  BY <1>1
<1>6. PieceEnd(b) <= b + size - 1 /\ PieceEnd(b) <= Len(text) /\ b + 1 <= PieceEnd(b)
      /\ PieceEnd(b) \in Nat
  BY <1>2, <1>3, <1>4, <1>5
<1>7. ASSUME NEW k \in b + 1 .. PieceEnd(b) - 1, text[k] = "nl"
      PROVE  FALSE
  <2>1. k \in S
    BY <1>1, <1>6, <1>7
  <2> QED BY <1>1, <1>3, <1>4, <1>6, <1>7, <2>1
<1> QED BY <1>1, <1>6, <1>7

LEMMA ReadEndsFacts ==
  ASSUME Given
  PROVE  /\ 0 \in ReadEnds /\ ReadEnds \subseteq 0 .. Len(text)
         /\ \A b \in ReadEnds : b < Len(text) =>
              /\ PieceEnd(b) \in ReadEnds
              /\ \A r \in ReadEnds : b < r => PieceEnd(b) <= r
<1> DEFINE f == {<<i, PieceEnd(i)>> : i \in 0 .. Len(text) - 1}
<1>1. Len(text) \in Nat
  BY GivenFacts
<1>2. \A i \in 0 .. Len(text) - 1 : PieceEnd(i) \in 0 .. Len(text) /\ i < PieceEnd(i)
  <2> TAKE i \in 0 .. Len(text) - 1
  <2>1. i \in 0 .. Len(text) /\ i < Len(text)
    BY <1>1
  <2> QED BY <1>1, <2>1, PieceEndFacts
<1>3. Steps(f, 0, Len(text))
  BY <1>1, <1>2 DEF Steps
<1>4. \A s, u \in f : s[1] = u[1] => s[2] = u[2]
  OBVIOUS
<1>5. ReadEnds = Reached(f, 0, Len(text))
  BY DEF ReadEnds
<1>6. \A b \in 0 .. Len(text) : b < Len(text) =>
        <<b, PieceEnd(b)>> \in f /\ <<b, PieceEnd(b)>>[1] = b /\ <<b, PieceEnd(b)>>[2] = PieceEnd(b)
  BY <1>1
<1> HIDE DEF f
<1>7. /\ 0 \in ReadEnds /\ ReadEnds \subseteq 0 .. Len(text)
      /\ \A s \in f : s[1] \in ReadEnds => s[2] \in ReadEnds
  BY <1>1, <1>3, <1>5, ReachedClosed
<1>8. ASSUME NEW b \in ReadEnds, b < Len(text), NEW r \in ReadEnds, b < r
      PROVE  PieceEnd(b) <= r
  <2> DEFINE s == <<b, PieceEnd(b)>>
  <2>1. s \in f /\ s[1] = b /\ s[2] = PieceEnd(b)
    BY <1>6, <1>7, <1>8
  <2> HIDE DEF s
  <2>2. s[2] <= r
    BY <1>1, <1>3, <1>4, <1>5, <1>8, <2>1, NothingBetween
  <2> QED BY <2>1, <2>2
<1>9. \A b \in ReadEnds : b < Len(text) => PieceEnd(b) \in ReadEnds
  BY <1>6, <1>7
<1> QED BY <1>7, <1>8, <1>9

(* The least of two numbers and of a set is one of them. *)
LEMMA EndFacts ==
  ASSUME NEW z \in Nat, NEW S \in SUBSET Nat
  PROVE  /\ Min({z} \cup S) \in {z} \cup S /\ Min({z} \cup S) <= z
         /\ \A x \in S : Min({z} \cup S) <= x
BY MinIsLeast, {z} \cup S \in SUBSET Nat, {z} \cup S # {}

LEMMA FirstFacts ==
  ASSUME Given, NEW i \in Nat \ {0}, NEW x
  PROVE  First(i, <<x>>) = {j \in i .. Len(text) : text[j] = x}
<1>1. Len(text) \in Nat
  BY GivenFacts
<1>2. \A j \in i .. Len(text) : Is(j, <<x>>) <=> text[j] = x
  BY <1>1, IsOne
<1> QED BY <1>2 DEF First

LEMMA LineEndFacts ==
  ASSUME Given, NEW i \in 1 .. Len(text)
  PROVE  /\ LineEnd(i) \in i .. Len(text) + 1
         /\ LineEnd(i) <= Len(text) => text[LineEnd(i)] = "nl"
         /\ \A j \in i .. Len(text) : text[j] = "nl" => LineEnd(i) <= j
<1> DEFINE S == {j \in i .. Len(text) : text[j] = "nl"}
           z == Len(text) + 1
<1>1. Len(text) \in Nat
  BY GivenFacts
<1>2. First(i, <<"nl">>) = S
  BY <1>1, FirstFacts
<1>3. LineEnd(i) = Min({z} \cup S)
  BY <1>2 DEF LineEnd
<1>4. S \in SUBSET Nat /\ z \in Nat
  BY <1>1
<1> HIDE DEF S, z
<1>5. LineEnd(i) \in {z} \cup S /\ LineEnd(i) <= z /\ \A x \in S : LineEnd(i) <= x
  BY <1>3, <1>4, EndFacts
<1> USE DEF S, z
<1> QED BY <1>1, <1>5

LEMMA ClosersFacts ==
  ASSUME Given, NEW i \in 1 .. Len(text)
  PROVE  Closers(i) = {j \in i + 2 .. Len(text) - 1 : text[j] = "*" /\ text[j + 1] = "/"}
<1>1. Len(text) \in Nat
  BY GivenFacts
<1>2. \A j \in i + 2 .. Len(text) :
        Is(j, <<"*", "/">>) <=> j + 1 <= Len(text) /\ text[j] = "*" /\ text[j + 1] = "/"
  BY <1>1, IsTwo
<1> QED BY <1>1, <1>2 DEF Closers, First

(* A piece, by its kind. *)
LEMMA PieceOfLineComment ==
  ASSUME Given, NEW i \in 1 .. Len(text), Is(i, <<"/", "/">>)
  PROVE  PieceNext(i) = LineEnd(i) /\ ~IsBlock(i) /\ i + 2 <= LineEnd(i)
<1>1. Len(text) \in Nat
  BY GivenFacts
<1>2. i + 1 <= Len(text) /\ text[i] = "/" /\ text[i + 1] = "/"
  BY <1>1, IsTwo
<1>3. ~IsBlock(i)
  BY <1>1, <1>2, IsTwo DEF IsBlock
<1>4. text[i] # QQ /\ text[i] \notin Alnum /\ IsComment(i)
  BY <1>2 DEF QQ, Alnum, Letters, IsComment
<1>5. PieceNext(i) = LineEnd(i)
  BY <1>3, <1>4 DEF PieceNext
<1>6. LineEnd(i) \in i .. Len(text) + 1 /\ (LineEnd(i) <= Len(text) => text[LineEnd(i)] = "nl")
  BY LineEndFacts
<1>7. LineEnd(i) # i /\ LineEnd(i) # i + 1
  BY <1>1, <1>2, <1>6
<1> QED BY <1>1, <1>3, <1>5, <1>6, <1>7

LEMMA PieceOfBlock ==
  ASSUME Given, NEW i \in 1 .. Len(text), IsBlock(i)
  PROVE  /\ text[i] = "/" /\ i + 1 <= Len(text) /\ text[i + 1] = "*" /\ ~Is(i, <<"/", "/">>)
         /\ PieceNext(i) \in i + 2 .. Len(text) + 1
         /\ Closers(i) = {} => PieceNext(i) = Len(text) + 1
         /\ \A j \in Closers(i) : PieceNext(i) <= j + 2
         /\ Closers(i) # {} => \E j \in Closers(i) : PieceNext(i) = j + 2
<1>1. Len(text) \in Nat
  BY GivenFacts
<1>2. i + 1 <= Len(text) /\ text[i] = "/" /\ text[i + 1] = "*"
  BY <1>1, IsTwo DEF IsBlock
<1>3. ~Is(i, <<"/", "/">>)
  BY <1>1, <1>2, IsTwo
<1>4. text[i] # QQ /\ text[i] \notin Alnum /\ IsComment(i)
  BY <1>2 DEF QQ, Alnum, Letters, IsComment
<1> DEFINE S == {j + 2 : j \in Closers(i)}
           z == Len(text) + 1
<1>5. PieceNext(i) = Min({z} \cup S)
  BY <1>3, <1>4 DEF PieceNext
<1>6. \A j \in Closers(i) : j \in Nat /\ j >= i + 2 /\ j + 2 <= Len(text) + 1
  BY <1>1, ClosersFacts
<1>7. S \in SUBSET Nat /\ z \in Nat
  BY <1>1, <1>6
<1> HIDE DEF S, z
<1>8. /\ PieceNext(i) \in {z} \cup S /\ PieceNext(i) <= z
      /\ \A x \in S : PieceNext(i) <= x
  <2>1. /\ Min({z} \cup S) \in {z} \cup S /\ Min({z} \cup S) <= z
        /\ \A x \in S : Min({z} \cup S) <= x
    BY <1>7, EndFacts
  <2> QED BY <1>5, <2>1
<1> USE DEF S, z
<1>9. \A j \in Closers(i) : PieceNext(i) <= j + 2
  BY <1>8
<1>10. Closers(i) = {} => PieceNext(i) = Len(text) + 1
  BY <1>8
<1>11. Closers(i) # {} => \E j \in Closers(i) : PieceNext(i) = j + 2
  <2>1. CASE PieceNext(i) = z
    <3>1. \A j \in Closers(i) : j + 2 = z
      BY <1>1, <1>6, <1>9, <2>1
    <3> QED BY <2>1, <3>1
  <2> QED BY <1>8, <2>1
<1>12. PieceNext(i) \in i + 2 .. Len(text) + 1
  BY <1>1, <1>2, <1>6, <1>8
<1> QED BY <1>2, <1>3, <1>9, <1>10, <1>11, <1>12

LEMMA PieceOfLiteral ==
  ASSUME Given, NEW i \in 1 .. Len(text), text[i] = QQ
  PROVE  /\ ~IsComment(i) /\ PieceNext(i) \in i + 1 .. Len(text) + 1
         /\ \/ PieceNext(i) = Len(text) + 1
            \/ PieceNext(i) - 1 \in i + 1 .. Len(text) /\ text[PieceNext(i) - 1] \in {QQ, "nl"}
         /\ \A j \in i + 1 .. Len(text) : text[j] \in {QQ, "nl"} => PieceNext(i) <= j + 1
<1>1. Len(text) \in Nat
  BY GivenFacts
<1>2. ~Is(i, <<"/", "/">>) /\ ~IsBlock(i) /\ ~IsComment(i)
  BY <1>1, IsTwo DEF IsBlock, IsComment, QQ
<1>3. text[i] # "nl" /\ text[i] \notin Alnum /\ text[i] \notin {"/", "*", "="}
  BY DEF QQ, Alnum, Letters
<1> DEFINE F == {j \in i + 1 .. Len(text) : text[j] = QQ}
           S == {LineEnd(i) + 1} \cup {j + 1 : j \in F}
           z == Len(text) + 1
<1>4. First(i + 1, <<QQ>>) = F
  BY <1>1, FirstFacts
<1>5. PieceNext(i) = Min({Len(text) + 1, LineEnd(i) + 1} \cup {j + 1 : j \in F})
  BY <1>2, <1>3, <1>4 DEF PieceNext
<1>6. {Len(text) + 1, LineEnd(i) + 1} \cup {j + 1 : j \in F} = {z} \cup S
  OBVIOUS
<1>7. /\ LineEnd(i) \in i + 1 .. Len(text) + 1
      /\ LineEnd(i) <= Len(text) => text[LineEnd(i)] = "nl"
      /\ \A j \in i .. Len(text) : text[j] = "nl" => LineEnd(i) <= j
  BY <1>1, <1>3, LineEndFacts
<1>8. S \in SUBSET Nat /\ z \in Nat
  BY <1>1, <1>7
<1>14. PieceNext(i) = Min({z} \cup S)
  BY <1>5, <1>6
<1> HIDE DEF S, z
<1>9. PieceNext(i) \in {z} \cup S /\ PieceNext(i) <= z /\ \A x \in S : PieceNext(i) <= x
  <2>1. /\ Min({z} \cup S) \in {z} \cup S /\ Min({z} \cup S) <= z
        /\ \A x \in S : Min({z} \cup S) <= x
    BY <1>8, EndFacts
  <2> QED BY <1>14, <2>1
<1> USE DEF S, z
<1>10. PieceNext(i) <= LineEnd(i) + 1 /\ \A j \in F : PieceNext(i) <= j + 1
  BY <1>9
<1>11. \A j \in i + 1 .. Len(text) : text[j] \in {QQ, "nl"} => PieceNext(i) <= j + 1
  BY <1>1, <1>7, <1>8, <1>9, <1>10
<1>12. \/ PieceNext(i) = Len(text) + 1
       \/ PieceNext(i) - 1 \in i + 1 .. Len(text) /\ text[PieceNext(i) - 1] \in {QQ, "nl"}
  <2>1. CASE PieceNext(i) = LineEnd(i) + 1
    BY <1>1, <1>7, <1>9, <2>1
  <2>2. CASE \E j \in F : PieceNext(i) = j + 1
    BY <1>1, <2>2
  <2> QED BY <1>9, <2>1, <2>2
<1>13. PieceNext(i) \in i + 1 .. Len(text) + 1
  <2>1. PieceNext(i) \in Nat
    BY <1>8, <1>9
  <2> QED BY <1>1, <1>12, <2>1
<1> QED BY <1>2, <1>11, <1>12, <1>13

(* The characters that go with the first one of a number or a name. *)
Kin(i) == IF text[i] = "1" THEN {"1"} ELSE Alnum

LEMMA PieceOfRun ==
  ASSUME Given, NEW i \in 1 .. Len(text), text[i] \in Alnum
  PROVE  /\ ~IsComment(i) /\ PieceNext(i) \in i + 1 .. Len(text) + 1
         /\ PieceNext(i) <= Len(text) => text[PieceNext(i)] \notin Kin(i)
         /\ \A j \in i .. Len(text) : text[j] \notin Kin(i) => PieceNext(i) <= j
<1>1. Len(text) \in Nat
  BY GivenFacts
<1>2. text[i] # "/" /\ text[i] # QQ /\ text[i] \in Kin(i)
  BY DEF QQ, Alnum, Letters, Kin
<1>3. ~Is(i, <<"/", "/">>) /\ ~IsBlock(i) /\ ~IsComment(i)
  BY <1>1, <1>2, IsTwo DEF IsBlock, IsComment
<1> DEFINE S == {j \in i .. Len(text) : text[j] \notin Kin(i)}
           z == Len(text) + 1
<1>4. text[i] \notin {"/", "*", "="}
  BY DEF Alnum, Letters
<1>5. PieceNext(i) = Min(S \cup {z})
  BY <1>2, <1>3, <1>4 DEF PieceNext, Kin
<1>6. S \cup {z} = {z} \cup S /\ S \in SUBSET Nat /\ z \in Nat
  BY <1>1
<1> HIDE DEF S, z
<1>7. PieceNext(i) \in {z} \cup S /\ PieceNext(i) <= z /\ \A x \in S : PieceNext(i) <= x
  <2>1. /\ Min({z} \cup S) \in {z} \cup S /\ Min({z} \cup S) <= z
        /\ \A x \in S : Min({z} \cup S) <= x
    BY <1>6, EndFacts
  <2> QED BY <1>5, <1>6, <2>1
<1> USE DEF S, z
<1>8. i \notin S
  BY <1>2
<1> QED BY <1>1, <1>3, <1>7, <1>8

LEMMA PieceOfOperator ==
  ASSUME Given, NEW i \in 1 .. Len(text), ~IsComment(i), text[i] \in {"/", "*", "="}
  PROVE  PieceNext(i) = IF i + 1 <= Len(text) /\ text[i + 1] = "=" THEN i + 2 ELSE i + 1
<1>1. ~Is(i, <<"/", "/">>) /\ ~IsBlock(i)
  BY DEF IsComment
<1>2. text[i] # QQ /\ text[i] \notin Alnum
  BY DEF QQ, Alnum, Letters
<1>3. Is(i + 1, <<"=">>) <=> i + 1 <= Len(text) /\ text[i + 1] = "="
  BY GivenFacts, IsOne
<1> QED BY <1>1, <1>2, <1>3 DEF PieceNext

LEMMA PieceOfOther ==
  ASSUME Given, NEW i \in 1 .. Len(text), text[i] \in {"nl", "@"}
  PROVE  ~IsComment(i) /\ PieceNext(i) = i + 1
<1>1. text[i] # "/" /\ text[i] # QQ /\ text[i] \notin Alnum /\ text[i] \notin {"/", "*", "="}
  BY DEF QQ, Alnum, Letters
<1>2. ~Is(i, <<"/", "/">>) /\ ~IsBlock(i) /\ ~IsComment(i)
  BY <1>1, GivenFacts, IsTwo DEF IsBlock, IsComment
<1> QED BY <1>1, <1>2 DEF PieceNext

LEMMA PieceKinds ==
  ASSUME Given, NEW i \in 1 .. Len(text)
  PROVE  \/ Is(i, <<"/", "/">>)
         \/ IsBlock(i)
         \/ text[i] = QQ
         \/ text[i] \in Alnum
         \/ ~IsComment(i) /\ text[i] \in {"/", "*", "="}
         \/ text[i] \in {"nl", "@"}
<1>1. text[i] \in Characters
  BY GivenFacts
<1> QED BY <1>1 DEF Characters, IsComment

LEMMA PieceNextFacts ==
  ASSUME Given, NEW i \in 1 .. Len(text)
  PROVE  PieceNext(i) \in i + 1 .. Len(text) + 1
<1>1. Len(text) \in Nat
  BY GivenFacts
<1>2. CASE Is(i, <<"/", "/">>)
  BY <1>1, <1>2, PieceOfLineComment, LineEndFacts
<1>3. CASE IsBlock(i)
  BY <1>1, <1>3, PieceOfBlock
<1>4. CASE text[i] = QQ
  BY <1>4, PieceOfLiteral
<1>5. CASE text[i] \in Alnum
  BY <1>5, PieceOfRun
<1>6. CASE ~IsComment(i) /\ text[i] \in {"/", "*", "="}
  BY <1>1, <1>6, PieceOfOperator
<1>7. CASE text[i] \in {"nl", "@"}
  BY <1>1, <1>7, PieceOfOther
<1> QED BY <1>2, <1>3, <1>4, <1>5, <1>6, <1>7, PieceKinds

LEMMA BoundsFacts ==
  ASSUME Given
  PROVE  /\ 1 \in Bounds /\ Bounds \subseteq 1 .. Len(text) + 1
         /\ \A i \in Bounds : i <= Len(text) =>
              /\ i \in 1 .. Len(text) /\ PieceNext(i) \in Bounds
              /\ \A j \in Bounds : i < j => PieceNext(i) <= j
<1> DEFINE f == {<<i, PieceNext(i)>> : i \in 1 .. Len(text)}
           z == Len(text) + 1
<1>1. Len(text) \in Nat /\ z \in Nat /\ 1 <= z
  BY GivenFacts
<1>2. \A i \in 1 .. Len(text) : PieceNext(i) \in i + 1 .. z
  BY PieceNextFacts
<1>3. Steps(f, 1, z)
  BY <1>1, <1>2 DEF Steps
<1>4. \A s, u \in f : s[1] = u[1] => s[2] = u[2]
  OBVIOUS
<1>5. Bounds = Reached(f, 1, z)
  BY DEF Bounds
<1>6. \A i \in 1 .. Len(text) :
        <<i, PieceNext(i)>> \in f /\ <<i, PieceNext(i)>>[1] = i /\ <<i, PieceNext(i)>>[2] = PieceNext(i)
  OBVIOUS
<1> HIDE DEF f
<1>7. /\ 1 \in Bounds /\ Bounds \subseteq 1 .. z
      /\ \A s \in f : s[1] \in Bounds => s[2] \in Bounds
  BY <1>1, <1>3, <1>5, ReachedClosed
<1>8. \A i \in Bounds : i <= Len(text) => i \in 1 .. Len(text)
  BY <1>1, <1>7
<1>9. ASSUME NEW i \in Bounds, i <= Len(text), NEW j \in Bounds, i < j
      PROVE  PieceNext(i) <= j
  <2> DEFINE s == <<i, PieceNext(i)>>
  <2>1. s \in f /\ s[1] = i /\ s[2] = PieceNext(i)
    BY <1>6, <1>8, <1>9
  <2> HIDE DEF s
  <2>2. s[2] <= j
    BY <1>1, <1>3, <1>4, <1>5, <1>9, <2>1, NothingBetween
  <2> QED BY <2>1, <2>2
<1>10. \A i \in Bounds : i <= Len(text) => PieceNext(i) \in Bounds
  BY <1>6, <1>7, <1>8
<1> QED BY <1>7, <1>8, <1>9, <1>10

-----------------------------------------------------------------------------
(* The line that is held: what was read from b on, and a NUL.              *)

Held(b) ==
  /\ b \in ReadEnds /\ b < Len(text) /\ at = PieceEnd(b)
  /\ \A i \in 0 .. at - b - 1 : line[i] = text[b + i + 1]
  /\ line[at - b] = NUL

LEMMA HeldFacts ==
  ASSUME Given, NEW b, Held(b)
  PROVE  /\ b \in Nat /\ at \in b + 1 .. Len(text) /\ at - b \in 1 .. size - 1
         /\ at \in ReadEnds
         /\ \A r \in ReadEnds : b < r => at <= r
         /\ \A i \in 0 .. at - b - 1 : Char(i) = text[b + i + 1] /\ Char(i) # NUL
         /\ Char(at - b) = NUL
         /\ \A k \in b + 1 .. at - 1 : text[k] # "nl"
<1>1. Len(text) \in Nat /\ size \in Nat /\ size > 1
  BY GivenFacts
<1>2. b \in 0 .. Len(text) /\ b < Len(text) /\ at = PieceEnd(b) /\ at \in ReadEnds
      /\ \A r \in ReadEnds : b < r => at <= r
  BY ReadEndsFacts DEF Held
<1>3. at \in b + 1 .. Len(text) /\ at <= b + (size - 1) /\ \A k \in b + 1 .. at - 1 : text[k] # "nl"
  BY <1>2, PieceEndFacts
<1>4. b \in Nat /\ at - b \in 1 .. size - 1 /\ at - b < size
  BY <1>1, <1>2, <1>3
<1>5. \A i \in 0 .. at - b - 1 : i < size /\ b + i + 1 \in 1 .. Len(text)
  BY <1>1, <1>2, <1>3, <1>4
<1>6. \A i \in 0 .. at - b - 1 : Char(i) = text[b + i + 1] /\ Char(i) # NUL
  BY <1>5, GivenFacts DEF Held, Char
<1>7. Char(at - b) = NUL
  BY <1>4 DEF Held, Char
<1> QED BY <1>2, <1>3, <1>4, <1>6, <1>7

LEMMA HeldEnd ==
  ASSUME Given, NEW b, Held(b), NEW i \in 0 .. at - b
  PROVE  End(i) = at - b
<1> DEFINE e == at - b
           S == {j \in i .. i + size : Char(j) = NUL}
<1>1. e \in Nat /\ e < size /\ size \in Nat
  BY HeldFacts, GivenFacts
<1>2. e \in S
  BY <1>1, HeldFacts
<1>3. \A j \in S : e <= j
  BY <1>1, HeldFacts
<1>4. S \in SUBSET Nat
  BY <1>1
<1> HIDE DEF S, e
<1>5. Min(S) = e
  BY <1>2, <1>3, <1>4, MinIs
<1> QED BY <1>5 DEF End, S, e

LEMMA HeldClosing ==
  ASSUME Given, NEW b, Held(b), NEW i \in 0 .. at - b
  PROVE  Closing(i) = {j \in i .. at - b - 2 : text[b + j + 1] = "*" /\ text[b + j + 2] = "/"}
<1> DEFINE e == at - b
<1>1. e \in Nat /\ i \in Nat /\ b \in Nat
  BY HeldFacts
<1>2. Closing(i) = {j \in i .. e - 1 : Char(j) = "*" /\ Char(j + 1) = "/"}
  BY HeldEnd DEF Closing
<1>3. \A j \in 0 .. e - 1 : Char(j) = text[b + j + 1]
  BY HeldFacts
<1>4. \A j \in i .. e - 2 : Char(j) = text[b + j + 1] /\ Char(j + 1) = text[b + j + 2]
  <2> TAKE j \in i .. e - 2
  <2>1. j \in 0 .. e - 1 /\ j + 1 \in 0 .. e - 1 /\ b + (j + 1) + 1 = b + j + 2
    BY <1>1
  <2> HIDE DEF e
  <2> QED BY <1>3, <2>1
<1>5. Char(e) # "/"
  BY HeldFacts DEF NUL
<1>6. \A j \in i .. e - 1 : Char(j + 1) = "/" => j \in i .. e - 2
  <2> TAKE j \in i .. e - 1
  <2>1. j = e - 1 => j + 1 = e
    BY <1>1
  <2> QED BY <1>1, <1>5, <2>1
<1> QED BY <1>1, <1>2, <1>4, <1>6

(* A piece of a plain text that is no block comment ends on its line, and  *)
(* a block comment at least begins there.                                  *)
LEMMA CutFacts ==
  ASSUME Given, Plain, NEW b, Held(b), NEW m \in Bounds, m <= at,
         at < Len(text), text[at] # "nl"
  PROVE  \/ PieceNext(m) <= at + 1
         \/ IsBlock(m) /\ m + 1 <= at /\ ~Is(at, <<"*", "/">>)
<1>1. Len(text) \in Nat /\ b \in Nat /\ at \in b + 1 .. Len(text) /\ at \in ReadEnds
  BY GivenFacts, HeldFacts
<1>2. at \in LineCuts
  BY <1>1 DEF LineCuts
<1>3. PICK i \in Bounds :
        \/ i = at + 1
        \/ IsBlock(i) /\ i + 1 <= at /\ at < PieceNext(i) - 1 /\ ~Is(at, <<"*", "/">>)
  BY <1>2 DEF Plain, Harmless
<1>4. m \in 1 .. Len(text) /\ \A j \in Bounds : m < j => PieceNext(m) <= j
  BY <1>1, BoundsFacts
<1>5. i \in Nat
  BY <1>1, BoundsFacts
<1>6. CASE i = at + 1
  BY <1>1, <1>4, <1>6
<1>7. CASE IsBlock(i) /\ i + 1 <= at /\ at < PieceNext(i) - 1 /\ ~Is(at, <<"*", "/">>)
  <2>1. i \in 1 .. Len(text) /\ \A j \in Bounds : i < j => PieceNext(i) <= j
    BY <1>1, <1>5, <1>7, BoundsFacts
  <2>2. PieceNext(i) \in Nat /\ PieceNext(m) \in Nat
    BY <1>1, <1>4, <2>1, PieceNextFacts
  <2>3. CASE i = m
    BY <1>7, <2>3
  <2>4. CASE i < m
    BY <1>1, <1>4, <1>7, <2>1, <2>2, <2>4
  <2>5. CASE m < i
    BY <1>1, <1>4, <1>7, <2>1, <2>2, <2>5
  <2> QED BY <1>4, <1>5, <2>3, <2>4, <2>5
<1> QED BY <1>3, <1>6, <1>7

LEMMA PieceOnLine ==
  ASSUME Given, Plain, NEW b, Held(b), NEW m \in Bounds, m <= at, ~IsBlock(m)
  PROVE  PieceNext(m) <= at + 1
<1>1. Len(text) \in Nat /\ b \in Nat /\ at \in b + 1 .. Len(text)
  BY GivenFacts, HeldFacts
<1>2. m \in 1 .. Len(text)
  BY <1>1, BoundsFacts
<1>3. PieceNext(m) \in m + 1 .. Len(text) + 1
  BY <1>2, PieceNextFacts
<1>4. CASE at = Len(text)
  BY <1>1, <1>3, <1>4
<1>5. CASE at < Len(text) /\ text[at] # "nl"
  BY <1>5, CutFacts
<1>6. CASE text[at] = "nl"
  <2>1. at \in m .. Len(text)
    BY <1>1, <1>2
  <2>2. CASE Is(m, <<"/", "/">>)
    BY <1>1, <1>2, <1>3, <1>6, <2>1, <2>2, PieceOfLineComment, LineEndFacts
  <2>3. CASE text[m] = QQ
    <3>1. at # m
      BY <1>6, <2>3 DEF QQ
    <3>2. at \in m + 1 .. Len(text)
      BY <1>1, <1>2, <2>1, <3>1
    <3> QED BY <1>2, <1>6, <2>3, <3>2, PieceOfLiteral
  <2>4. CASE text[m] \in Alnum
    <3>1. text[at] \notin Kin(m)
      BY <1>6 DEF Kin, Alnum, Letters
    <3>2. PieceNext(m) <= at
      BY <1>2, <2>1, <2>4, <3>1, PieceOfRun
    <3> QED BY <1>1, <1>3, <3>2
  <2>5. CASE ~IsComment(m) /\ text[m] \in {"/", "*", "="}
    <3>1. PieceNext(m) = IF m + 1 <= Len(text) /\ text[m + 1] = "=" THEN m + 2 ELSE m + 1
      BY <1>2, <2>5, PieceOfOperator
    <3>2. m # at
      BY <1>6, <2>5
    <3> QED BY <1>1, <1>2, <2>1, <3>1, <3>2
  <2>6. CASE text[m] \in {"nl", "@"}
    <3>1. PieceNext(m) = m + 1
      BY <1>2, <2>6, PieceOfOther
    <3> QED BY <1>1, <1>2, <2>1, <3>1
  <2> QED BY <1>2, <2>2, <2>3, <2>4, <2>5, <2>6, PieceKinds
<1> QED BY <1>1, <1>4, <1>5, <1>6

LEMMA CommentOnLine ==
  ASSUME Given, Plain, NEW b, Held(b), NEW m \in Bounds, m <= at, IsComment(m)
  PROVE  m + 1 <= at
<1>1. Len(text) \in Nat /\ b \in Nat /\ at \in b + 1 .. Len(text)
  BY GivenFacts, HeldFacts
<1>2. m \in 1 .. Len(text)
  BY <1>1, BoundsFacts
<1>3. CASE IsBlock(m)
  <2>1. m + 1 <= Len(text) /\ text[m] = "/" /\ PieceNext(m) \in m + 2 .. Len(text) + 1
    BY <1>2, <1>3, PieceOfBlock
  <2>2. CASE at = m
    <3>1. at < Len(text) /\ text[at] # "nl"
      BY <1>1, <1>2, <2>1, <2>2
    <3>2. PieceNext(m) <= at + 1 \/ m + 1 <= at
      BY <3>1, CutFacts
    <3> QED BY <1>1, <1>2, <2>1, <2>2, <3>2
  <2> QED BY <1>1, <1>2, <2>2
<1>4. CASE Is(m, <<"/", "/">>)
  <2>1. PieceNext(m) = LineEnd(m) /\ ~IsBlock(m) /\ m + 2 <= LineEnd(m)
    BY <1>2, <1>4, PieceOfLineComment
  <2>2. PieceNext(m) <= at + 1
    BY <2>1, PieceOnLine
  <2>3. PieceNext(m) \in Nat
    BY <1>2, PieceNextFacts
  <2> QED BY <1>1, <1>2, <2>1, <2>2, <2>3
<1> QED BY <1>3, <1>4 DEF IsComment

(* The first "*/" on the line from k on closes the comment at i, if none   *)
(* before does; and if there is none on the line, the next line has it.    *)
LEMMA CloserFound ==
  ASSUME Given, NEW b, Held(b), NEW i \in 1 .. Len(text), IsBlock(i),
         NEW k \in 0 .. at - b, i + 2 <= b + k + 1,
         \A j \in Closers(i) : b + k + 1 <= j,
         Closing(k) # {}
  PROVE  /\ PieceNext(i) = b + Behind(k) + 1 /\ Closers(i) # {}
         /\ Behind(k) \in k + 2 .. at - b
         /\ PieceNext(i) <= Len(text) + 1 /\ text[PieceNext(i) - 1] = "/"
<1> DEFINE m == Min(Closing(k))
           c == b + m + 1
<1>1. Len(text) \in Nat /\ b \in Nat /\ at \in b + 1 .. Len(text)
  BY GivenFacts, HeldFacts
<1>2. Closing(k) = {j \in k .. at - b - 2 : text[b + j + 1] = "*" /\ text[b + j + 2] = "/"}
  BY HeldClosing
<1>3. Closing(k) \in SUBSET Nat
  BY <1>1, <1>2
<1>4. m \in Closing(k) /\ \A j \in Closing(k) : m <= j
  BY <1>3, MinIsLeast
<1>5. Behind(k) = m + 2
  BY DEF Behind
<1> HIDE DEF m
<1>6. m \in k .. at - b - 2 /\ text[b + m + 1] = "*" /\ text[b + m + 2] = "/" /\ m \in Nat
  BY <1>1, <1>2, <1>4
<1>7. Closers(i) = {j \in i + 2 .. Len(text) - 1 : text[j] = "*" /\ text[j + 1] = "/"}
  BY ClosersFacts
<1>8. c + 1 = b + m + 2 /\ c \in i + 2 .. Len(text) - 1
  BY <1>1, <1>6
<1>9. c \in Closers(i)
  BY <1>6, <1>7, <1>8
<1>10. ASSUME NEW j \in Closers(i)
       PROVE  c <= j
  <2>1. j \in Nat /\ b + k + 1 <= j /\ j <= Len(text) - 1 /\ text[j] = "*" /\ text[j + 1] = "/"
    BY <1>1, <1>7
  <2>2. CASE j < c
    <3> DEFINE h == j - b - 1
    <3>1. h \in k .. at - b - 2 /\ b + h + 1 = j /\ b + h + 2 = j + 1 /\ h < m
      BY <1>1, <1>6, <2>1, <2>2
    <3> HIDE DEF h
    <3>2. h \in Closing(k)
      BY <1>2, <2>1, <3>1
    <3> QED BY <1>4, <1>6, <3>1, <3>2
  <2> QED BY <1>1, <1>6, <2>1, <2>2
<1>11. \A j \in Closers(i) : j \in Nat
  BY <1>1, <1>7
<1>12. PieceNext(i) <= c + 2 /\ \E j \in Closers(i) : PieceNext(i) = j + 2
  BY <1>9, PieceOfBlock
<1>13. PieceNext(i) = c + 2
  BY <1>1, <1>8, <1>10, <1>11, <1>12
<1>14. PieceNext(i) - 1 = b + m + 2
  BY <1>1, <1>6, <1>13
<1> QED BY <1>1, <1>5, <1>6, <1>8, <1>9, <1>13, <1>14

LEMMA NoCloserLeft ==
  ASSUME Given, Plain, NEW b, Held(b), NEW i \in Bounds, i <= Len(text), IsBlock(i),
         NEW k \in 0 .. at - b, i + 2 <= b + k + 1,
         \A j \in Closers(i) : b + k + 1 <= j,
         Closing(k) = {}
  PROVE  \A j \in Closers(i) : at + 1 <= j
<1>1. Len(text) \in Nat /\ b \in Nat /\ at \in b + 1 .. Len(text) /\ i \in 1 .. Len(text)
  BY GivenFacts, HeldFacts, BoundsFacts
<1>2. Closing(k) = {j \in k .. at - b - 2 : text[b + j + 1] = "*" /\ text[b + j + 2] = "/"}
  BY HeldClosing
<1>3. Closers(i) = {j \in i + 2 .. Len(text) - 1 : text[j] = "*" /\ text[j + 1] = "/"}
  BY <1>1, ClosersFacts
<1>4. ASSUME NEW j \in Closers(i)
      PROVE  at <= j
  <2>1. j \in Nat /\ b + k + 1 <= j /\ text[j] = "*" /\ text[j + 1] = "/"
    BY <1>1, <1>3
  <2>2. CASE j < at
    <3> DEFINE h == j - b - 1
    <3>1. h \in k .. at - b - 2 /\ b + h + 1 = j /\ b + h + 2 = j + 1
      BY <1>1, <2>1, <2>2
    <3> HIDE DEF h
    <3>2. h \in Closing(k)
      BY <1>2, <2>1, <3>1
    <3> QED BY <3>2
  <2> QED BY <1>1, <2>1, <2>2
<1>5. at \notin Closers(i)
  <2> SUFFICES ASSUME at \in Closers(i)
               PROVE  FALSE
    OBVIOUS
  <2>1. at < Len(text) /\ text[at] = "*" /\ text[at + 1] = "/" /\ at >= i + 2
    BY <1>1, <1>3
  <2>2. Is(at, <<"*", "/">>)
    BY <1>1, <2>1, IsTwo
  <2>3. PieceNext(i) <= at + 1
    BY <1>1, <2>1, <2>2, CutFacts
  <2>4. \E j \in Closers(i) : PieceNext(i) = j + 2
    BY <1>1, PieceOfBlock
  <2>5. \A j \in Closers(i) : j \in Nat
    BY <1>1, <1>3
  <2> QED BY <1>1, <1>4, <2>3, <2>4, <2>5
<1>6. \A j \in Closers(i) : j \in Nat
  BY <1>1, <1>3
<1> QED BY <1>1, <1>4, <1>5, <1>6

(* The end of the token at r is that of the piece it is.                   *)
LEMMA RunRight ==
  ASSUME Given, NEW b, Held(b), NEW r \in 0 .. at - b - 1, NEW S \in SUBSET Characters,
         NEW x \in b + r + 1 .. at + 1,
         x <= at => text[x] \notin S,
         \A j \in b + r + 1 .. x - 1 : text[j] \in S
  PROVE  Run(r, S) = x - b - 1
<1> DEFINE y == x - b - 1
           R == {j \in r .. r + size : Char(j) \notin S}
<1>1. b \in Nat /\ at \in b + 1 .. Len(text) /\ size \in Nat /\ at - b < size /\ Len(text) \in Nat
  BY GivenFacts, HeldFacts
<1>2. y \in r .. at - b /\ b + y + 1 = x /\ y \in Nat
  BY <1>1
<1>3. Char(y) \notin S
  <2>1. NUL \notin S
    BY DEF Characters, Alnum, Letters, QQ, NUL
  <2>2. CASE x = at + 1
    <3>1. y = at - b
      BY <1>1, <1>2, <2>2
    <3> QED BY <2>1, <3>1, HeldFacts
  <2>3. CASE x <= at
    <3>1. y \in 0 .. at - b - 1
      BY <1>1, <1>2, <2>3
    <3> HIDE DEF y
    <3>2. Char(y) = text[b + y + 1]
      BY <3>1, HeldFacts
    <3> QED BY <1>2, <2>3, <3>2
  <2> QED BY <1>1, <2>2, <2>3
<1> HIDE DEF y
<1>4. y \in R
  BY <1>1, <1>2, <1>3
<1>5. ASSUME NEW j \in R
      PROVE  y <= j
  <2>1. j \in Nat /\ r <= j /\ Char(j) \notin S
    BY <1>1
  <2>2. CASE j < y
    <3>1. j \in 0 .. at - b - 1 /\ b + j + 1 \in b + r + 1 .. x - 1
      BY <1>1, <1>2, <2>1, <2>2
    <3>2. Char(j) = text[b + j + 1]
      BY <3>1, HeldFacts
    <3> QED BY <2>1, <3>1, <3>2
  <2> QED BY <1>2, <2>1, <2>2
<1>6. R \in SUBSET Nat
  BY <1>1
<1> HIDE DEF R
<1>7. Min(R) = y
  BY <1>4, <1>5, <1>6, MinIs
<1> QED BY <1>7 DEF Run, R, y

LEMMA LiteralRight ==
  ASSUME Given, NEW b, Held(b), NEW r \in 0 .. at - b - 1, text[b + r + 1] = QQ,
         PieceNext(b + r + 1) <= at + 1
  PROVE  LiteralEnd(r) = PieceNext(b + r + 1) - b - 1
<1> DEFINE m == b + r + 1
           x == PieceNext(m)
           y == x - b - 1
           e == at - b
           R == {j + 1 : j \in {k \in r + 1 .. e : Char(k) = QQ}}
<1>1. b \in Nat /\ at \in b + 1 .. Len(text) /\ Len(text) \in Nat /\ r \in Nat /\ e \in Nat
  BY GivenFacts, HeldFacts
<1>2. m \in 1 .. Len(text)
  BY <1>1
<1>3. /\ x \in m + 1 .. Len(text) + 1
      /\ x = Len(text) + 1 \/ (x - 1 \in m + 1 .. Len(text) /\ text[x - 1] \in {QQ, "nl"})
      /\ \A j \in m + 1 .. Len(text) : text[j] \in {QQ, "nl"} => x <= j + 1
  BY <1>2, PieceOfLiteral
<1> HIDE DEF x
<1>4. x <= at + 1
  BY DEF x
<1>5. LiteralEnd(r) = Min({e} \cup R)
  <2>1. r \in 0 .. at - b
    BY <1>1
  <2>2. End(r) = e
    BY <2>1, HeldEnd
  <2> QED BY <2>2 DEF LiteralEnd
<1>6. y \in Nat /\ b + y + 1 = x /\ y <= e /\ y \in r + 1 .. e
  BY <1>1, <1>3, <1>4
<1> HIDE DEF y
<1>7. y \in {e} \cup R
  <2>1. CASE x = at + 1
    BY <1>1, <1>6, <2>1
  <2>2. CASE x <= at
    <3>1. x - 1 \in m + 1 .. Len(text) /\ text[x - 1] \in {QQ, "nl"} /\ x - 1 \in b + 1 .. at - 1
      BY <1>1, <1>3, <2>2
    <3>2. text[x - 1] = QQ
      BY <3>1, HeldFacts
    <3> DEFINE h == y - 1
    <3>3. h \in r + 1 .. e /\ h \in 0 .. at - b - 1 /\ b + h + 1 = x - 1 /\ y = h + 1
      BY <1>1, <1>6, <2>2, <3>1
    <3> HIDE DEF h
    <3>4. Char(h) = QQ
      BY <3>2, <3>3, HeldFacts
    <3> QED BY <3>3, <3>4
  <2> QED BY <1>1, <1>3, <1>4, <2>1, <2>2
<1>8. ASSUME NEW k \in r + 1 .. e, Char(k) = QQ
      PROVE  y <= k + 1
  <2>1. k # e
    BY <1>8, HeldFacts DEF NUL, QQ
  <2>2. k \in 0 .. at - b - 1 /\ b + k + 1 \in m + 1 .. Len(text)
    BY <1>1, <2>1
  <2>3. text[b + k + 1] = QQ
    BY <1>8, <2>2, HeldFacts
  <2>4. x <= (b + k + 1) + 1
    BY <1>3, <2>2, <2>3
  <2> QED BY <1>1, <1>6, <2>4
<1>9. \A z \in {e} \cup R : y <= z
  BY <1>6, <1>8
<1>10. {e} \cup R \in SUBSET Nat
  BY <1>1
<1> HIDE DEF e, R
<1>11. Min({e} \cup R) = y
  BY <1>7, <1>9, <1>10, MinIs
<1> QED BY <1>5, <1>11 DEF x, y

LEMMA TokenEndRight ==
  ASSUME Given, Plain, NEW b, Held(b), NEW r \in 0 .. at - b - 1,
         b + r + 1 \in Bounds, ~IsComment(b + r + 1)
  PROVE  IF text[b + r + 1] \in {"nl", "@"} THEN TokenEnd(r) = r
         ELSE TokenEnd(r) = PieceNext(b + r + 1) - b - 1
<1> DEFINE m == b + r + 1
           x == PieceNext(m)
<1>1. b \in Nat /\ at \in b + 1 .. Len(text) /\ Len(text) \in Nat /\ r \in Nat
  BY GivenFacts, HeldFacts
<1>2. m \in 1 .. Len(text) /\ m <= at
  BY <1>1
<1>3. ~IsBlock(m) /\ ~Is(m, <<"/", "/">>)
  BY DEF IsComment
<1>4. x <= at + 1 /\ x \in m + 1 .. Len(text) + 1
  BY <1>2, <1>3, PieceOnLine, PieceNextFacts
<1>5. Char(r) = text[m]
  BY HeldFacts
<1>6. r + 1 = at - b \/ r + 1 \in 0 .. at - b - 1
  BY <1>1
<1>7. \/ r + 1 \in 0 .. at - b - 1 /\ Char(r + 1) = text[m + 1] /\ m + 1 <= at
      \/ r + 1 = at - b /\ Char(r + 1) = NUL /\ m = at
  <2>1. b + (r + 1) + 1 = m + 1
    BY <1>1
  <2>2. CASE r + 1 = at - b
    BY <1>1, <2>2, HeldFacts
  <2>3. CASE r + 1 \in 0 .. at - b - 1
    <3>1. Char(r + 1) = text[b + (r + 1) + 1]
      BY <2>3, HeldFacts
    <3> QED BY <1>1, <2>1, <2>3, <3>1
  <2> QED BY <1>6, <2>2, <2>3
<1> HIDE DEF x
<1>8. CASE text[m] \in {"nl", "@"}
  <2>1. ~Keyword(r) /\ Char(r) \notin {"/", "*", "="} /\ Char(r) # "1" /\ Char(r) # QQ
        /\ Char(r) \notin Letters
    BY <1>5, <1>8 DEF Keyword, QQ, Letters
  <2>2. TokenEnd(r) = r
    BY <2>1 DEF TokenEnd
  <2> QED BY <1>8, <2>2
<1>9. CASE text[m] = QQ
  <2>1. ~Keyword(r) /\ Char(r) \notin {"/", "*", "="} /\ Char(r) # "1" /\ Char(r) = QQ
        /\ Char(r) \notin Letters
    BY <1>5, <1>9 DEF Keyword, QQ, Letters
  <2>2. TokenEnd(r) = LiteralEnd(r)
    BY <2>1 DEF TokenEnd
  <2>3. LiteralEnd(r) = x - b - 1
    BY <1>4, <1>9, LiteralRight DEF x
  <2>4. text[m] \notin {"nl", "@"}
    BY <1>9 DEF QQ
  <2> QED BY <2>2, <2>3, <2>4 DEF x
<1>10. CASE ~IsComment(m) /\ text[m] \in {"/", "*", "="}
  <2>1. ~Keyword(r) /\ Char(r) \in {"/", "*", "="} /\ Char(r) # "1" /\ Char(r) # QQ
        /\ Char(r) \notin Letters
    BY <1>5, <1>10 DEF Keyword, QQ, Letters
  <2>2. TokenEnd(r) = IF Char(r + 1) = "=" THEN r + 2 ELSE r + 1
    BY <2>1 DEF TokenEnd
  <2>3. x = IF m + 1 <= Len(text) /\ text[m + 1] = "=" THEN m + 2 ELSE m + 1
    BY <1>2, <1>10, PieceOfOperator DEF x
  <2>4. Char(r + 1) = "=" => m + 1 <= Len(text) /\ text[m + 1] = "="
    BY <1>1, <1>2, <1>7 DEF NUL
  <2>5. Char(r + 1) # "=" => x = m + 1
    BY <1>1, <1>2, <1>4, <1>7, <2>3
  <2>6. TokenEnd(r) = x - b - 1
    BY <1>1, <2>2, <2>3, <2>4, <2>5
  <2> QED BY <1>10, <2>6 DEF x
<1>11. CASE text[m] \in Alnum
  <2>1. /\ x <= Len(text) => text[x] \notin Kin(m)
        /\ \A j \in m .. Len(text) : text[j] \notin Kin(m) => x <= j
    BY <1>2, <1>11, PieceOfRun DEF x
  <2>2. \A j \in m .. x - 1 : text[j] \in Kin(m)
    <3> TAKE j \in m .. x - 1
    <3>1. j \in m .. Len(text) /\ ~(x <= j)
      BY <1>1, <1>4
    <3> QED BY <2>1, <3>1
  <2>3. Kin(m) \in SUBSET Characters
    BY DEF Kin, Characters, Alnum
  <2>4. Run(r, Kin(m)) = x - b - 1
    <3>1. x \in b + r + 1 .. at + 1 /\ (x <= at => text[x] \notin Kin(m))
      BY <1>1, <1>4, <2>1
    <3> HIDE DEF m
    <3>2. \A j \in b + r + 1 .. x - 1 : text[j] \in Kin(m)
      BY <2>2 DEF m
    <3> QED BY <2>3, <3>1, <3>2, RunRight
  <2>5. text[m] \notin {"nl", "@"} /\ Char(r) \notin {"/", "*", "="} /\ Char(r) # QQ
    BY <1>5, <1>11 DEF Alnum, Letters, QQ
  <2>6. CASE text[m] = "1"
    <3>1. ~Keyword(r) /\ Char(r) = "1" /\ Char(r) \notin Letters /\ Kin(m) = {"1"}
      BY <1>5, <2>6 DEF Keyword, Kin, Letters
    <3>2. TokenEnd(r) = Run(r, {"1"})
      BY <2>5, <3>1 DEF TokenEnd
    <3> QED BY <2>4, <2>5, <3>1, <3>2 DEF x
  <2>7. CASE text[m] # "1"
    <3>1. Char(r) # "1" /\ Char(r) \in Letters /\ Kin(m) = Alnum
      BY <1>5, <1>11, <2>7 DEF Kin, Alnum
    <3>2. CASE ~Keyword(r)
      <4>1. TokenEnd(r) = Run(r, Alnum)
        BY <2>5, <3>1, <3>2 DEF TokenEnd
      <4> QED BY <2>4, <2>5, <3>1, <4>1 DEF x
    <3>3. CASE Keyword(r)
      <4>1. TokenEnd(r) = r + 2
        BY <2>5, <3>1, <3>3 DEF TokenEnd
      <4>2. Char(r + 1) = "o" /\ Char(r + 2) \notin Alnum
        BY <3>3 DEF Keyword
      <4>3. r + 1 \in 0 .. at - b - 1 /\ text[m + 1] = "o" /\ m + 1 <= at
        BY <1>7, <4>2 DEF NUL
      <4>4. text[m + 1] \in Kin(m)
        BY <3>1, <4>3 DEF Alnum, Letters
      <4>5. x # m + 1
        BY <1>1, <1>2, <2>1, <4>3, <4>4
      <4>6. m + 2 <= at => x = m + 2
        <5> SUFFICES ASSUME m + 2 <= at
                     PROVE  x <= m + 2
          BY <1>1, <1>4, <4>5
        <5>1. r + 2 \in 0 .. at - b - 1 /\ b + (r + 2) + 1 = m + 2
          BY <1>1
        <5>2. Char(r + 2) = text[b + (r + 2) + 1]
          BY <5>1, HeldFacts
        <5>3. text[m + 2] \notin Kin(m) /\ m + 2 \in m .. Len(text)
          BY <1>1, <3>1, <4>2, <5>1, <5>2
        <5> QED BY <2>1, <5>3
      <4>7. x = m + 2
        BY <1>1, <1>4, <4>3, <4>5, <4>6
      <4>8. TokenEnd(r) = x - b - 1
        BY <1>1, <4>1, <4>7
      <4> QED BY <2>5, <4>8 DEF x
    <3> QED BY <3>2, <3>3
  <2> QED BY <2>6, <2>7
<1> QED BY <1>2, <1>3, <1>8, <1>9, <1>10, <1>11, PieceKinds DEF x

-----------------------------------------------------------------------------
(* What is about the text alone does not change.                           *)

LEMMA SameText ==
  ASSUME text' = text, size' = size
  PROVE  /\ Given' <=> Given
         /\ \A i : LineEnd(i)' = LineEnd(i) /\ (IsBlock(i)' <=> IsBlock(i))
         /\ \A i : IsComment(i)' <=> IsComment(i)
         /\ \A i : Closers(i)' = Closers(i) /\ PieceNext(i)' = PieceNext(i)
         /\ \A i : PieceEnd(i)' = PieceEnd(i) /\ LineOf(i)' = LineOf(i)
<1>1. Given' <=> Given
  BY DEF Given
<1>2. \A i, w : Is(i, w)' <=> Is(i, w)
  BY DEF Is
<1>3. \A i, w : First(i, w)' = First(i, w)
  BY <1>2 DEF First
<1>4. \A i : LineEnd(i)' = LineEnd(i)
  BY <1>3 DEF LineEnd
<1>5. \A i : Closers(i)' = Closers(i)
  BY <1>3 DEF Closers
<1>6. \A i : IsBlock(i)' <=> IsBlock(i)
  BY <1>2 DEF IsBlock
<1>7. \A i : IsComment(i)' <=> IsComment(i)
  BY <1>2, <1>6 DEF IsComment
<1>8. \A i : PieceNext(i)' = PieceNext(i)
  BY <1>2, <1>3, <1>4, <1>5, <1>6, <1>7 DEF PieceNext
<1>9. \A i : PieceEnd(i)' = PieceEnd(i)
  BY DEF PieceEnd
<1>10. \A i : LineOf(i)' = LineOf(i)
  BY DEF LineOf
<1> QED BY <1>1, <1>4, <1>5, <1>6, <1>7, <1>8, <1>9, <1>10

LEMMA SamePieces ==
  ASSUME text' = text, size' = size
  PROVE  /\ Bounds' = Bounds /\ TokenStarts' = TokenStarts
         /\ ReadEnds' = ReadEnds /\ LineCuts' = LineCuts
         /\ Plain' <=> Plain
<1>1. Bounds' = Bounds
  BY SameText DEF Bounds, Reached
<1>2. ReadEnds' = ReadEnds
  BY SameText DEF ReadEnds, Reached
<1>3. LineCuts' = LineCuts
  BY <1>2 DEF LineCuts
<1>4. TokenStarts' = TokenStarts
  BY <1>1, SameText DEF TokenStarts
<1>5. \A i, w : Is(i, w)' <=> Is(i, w)
  BY DEF Is
<1>6. \A c : Harmless(c)' <=> Harmless(c)
  BY <1>1, <1>5, SameText DEF Harmless
<1>7. \A i, e : ClosedAtOnce(i, e)' <=> ClosedAtOnce(i, e)
  BY <1>1, <1>2, SameText DEF ClosedAtOnce
<1>8. Hidden' <=> Hidden
  BY <1>1, <1>7, SameText DEF Hidden, ClosedAtOnce
<1>9. EndsLine' <=> EndsLine
  BY <1>1, <1>3, <1>7 DEF EndsLine
<1>10. Plain' <=> Plain
  BY <1>3, <1>6, <1>8, <1>9 DEF Plain
<1> QED BY <1>1, <1>2, <1>3, <1>4, <1>10

-----------------------------------------------------------------------------
(* The tokens o are those of the text before q.                            *)

Before(q) == {j \in TokenStarts : j < q}
UpTo(i) == {j \in TokenStarts : j <= i}

RightToken(token, i) ==
  /\ token.text = SubSeq(text, i, PieceNext(i) - 1)
  /\ LineCuts = {} => token.line = LineOf(i)

Matched(o, q) ==
  /\ Len(o) = Cardinality(Before(q))
  /\ \A i \in Before(q) : RightToken(o[Cardinality(UpTo(i))], i)

Tokens == [text : Seq(Characters) \cup {<<"EOF">>}, line : Nat]

LEMMA StartsFacts ==
  ASSUME Given
  PROVE  /\ TokenStarts \subseteq 1 .. Len(text) /\ TokenStarts \subseteq Bounds
         /\ \A i : IsFiniteSet(Before(i)) /\ IsFiniteSet(UpTo(i))
         /\ IsFiniteSet(TokenStarts)
<1>1. Len(text) \in Nat
  BY GivenFacts
<1>2. TokenStarts \subseteq 1 .. Len(text) /\ TokenStarts \subseteq Bounds
  BY <1>1, BoundsFacts DEF TokenStarts
<1>3. IsFiniteSet(1 .. Len(text))
  BY <1>1, FS_Interval
<1>4. IsFiniteSet(TokenStarts)
  BY <1>2, <1>3, FS_Subset
<1>5. \A i : Before(i) \subseteq TokenStarts /\ UpTo(i) \subseteq TokenStarts
  BY DEF Before, UpTo
<1>6. \A i : IsFiniteSet(Before(i)) /\ IsFiniteSet(UpTo(i))
  BY <1>4, <1>5, FS_Subset
<1> QED BY <1>2, <1>4, <1>6

(* Behind a piece that is no token, the tokens are the same.               *)
LEMMA MatchedOver ==
  ASSUME Given, NEW o, NEW m \in Bounds, m <= Len(text), m \notin TokenStarts, Matched(o, m)
  PROVE  Matched(o, PieceNext(m))
<1>1. m \in 1 .. Len(text) /\ \A j \in Bounds : m < j => PieceNext(m) <= j
  BY BoundsFacts
<1>2. PieceNext(m) \in m + 1 .. Len(text) + 1 /\ Len(text) \in Nat
  BY <1>1, PieceNextFacts, GivenFacts
<1>3. TokenStarts \subseteq 1 .. Len(text) /\ TokenStarts \subseteq Bounds
  BY StartsFacts
<1>4. \A j \in TokenStarts : j < PieceNext(m) <=> j < m
  <2> TAKE j \in TokenStarts
  <2>1. j \in Nat /\ j \in Bounds /\ j # m /\ m \in Nat /\ PieceNext(m) \in Nat
    BY <1>1, <1>2, <1>3
  <2> QED BY <1>1, <1>2, <2>1
<1>5. Before(PieceNext(m)) = Before(m)
  BY <1>4 DEF Before
<1> QED BY <1>5 DEF Matched

(* And a token more behind one that is a token.                            *)
LEMMA MatchedToken ==
  ASSUME Given, NEW S, NEW o \in Seq(S), NEW m \in TokenStarts, Matched(o, m),
         NEW token \in S, RightToken(token, m)
  PROVE  Matched(Append(o, token), PieceNext(m))
<1>1. m \in 1 .. Len(text) /\ m \in Bounds /\ Len(text) \in Nat
  BY StartsFacts, GivenFacts
<1>2. \A j \in Bounds : m < j => PieceNext(m) <= j
  BY <1>1, BoundsFacts
<1>3. PieceNext(m) \in m + 1 .. Len(text) + 1
  BY <1>1, PieceNextFacts
<1>4. TokenStarts \subseteq 1 .. Len(text) /\ TokenStarts \subseteq Bounds
  BY StartsFacts
<1>5. \A j \in TokenStarts : j < PieceNext(m) <=> j <= m
  <2> TAKE j \in TokenStarts
  <2>1. j \in Nat /\ j \in Bounds /\ m \in Nat /\ PieceNext(m) \in Nat
    BY <1>1, <1>3, <1>4
  <2> QED BY <1>1, <1>2, <1>3, <2>1
<1>6. \A j \in TokenStarts : j <= m <=> j < m \/ j = m
  BY <1>1, <1>4
<1>7. Before(PieceNext(m)) = UpTo(m)
  BY <1>5 DEF Before, UpTo
<1>8. UpTo(m) = Before(m) \cup {m} /\ m \notin Before(m)
  <2>1. ~(m < m)
    BY <1>1
  <2>2. \A j : j \in UpTo(m) <=> j \in Before(m) \/ j = m
    BY <1>6 DEF Before, UpTo
  <2> QED BY <2>1, <2>2 DEF Before
<1> DEFINE n == Len(o)
<1>9. n = Cardinality(Before(m)) /\ n \in Nat
  BY DEF Matched
<1>10. IsFiniteSet(Before(m))
  BY StartsFacts
<1>11. Cardinality(UpTo(m)) = n + 1
  <2>1. Cardinality(Before(m) \cup {m}) = Cardinality(Before(m)) + 1
    BY <1>8, <1>10, FS_AddElement
  <2> QED BY <1>8, <1>9, <2>1
<1>12. ASSUME NEW i \in Before(m)
       PROVE  Cardinality(UpTo(i)) \in 1 .. n
  <2>1. UpTo(i) \subseteq Before(m) /\ i \in UpTo(i)
    <3>1. i \in TokenStarts /\ i < m /\ i \in Nat /\ m \in Nat
      BY <1>1, <1>4 DEF Before
    <3>2. TokenStarts \subseteq Nat
      BY <1>1, <1>4
    <3>3. i <= i /\ \A j \in TokenStarts : j <= i => j < m
      BY <3>1, <3>2
    <3> QED BY <3>1, <3>3 DEF Before, UpTo
  <2>2. IsFiniteSet(UpTo(i)) /\ Cardinality(UpTo(i)) <= Cardinality(Before(m))
    BY <1>10, <2>1, FS_Subset
  <2>3. Cardinality(UpTo(i)) \in Nat /\ Cardinality(UpTo(i)) # 0
    BY <2>1, <2>2, FS_CardinalityType, FS_EmptySet
  <2> QED BY <1>9, <2>2, <2>3
<1>13. /\ Len(Append(o, token)) = n + 1 /\ Append(o, token)[n + 1] = token
       /\ \A k \in 1 .. n : Append(o, token)[k] = o[k]
  OBVIOUS
<1> HIDE DEF n
<1>14. ASSUME NEW i \in Before(PieceNext(m))
       PROVE  RightToken(Append(o, token)[Cardinality(UpTo(i))], i)
  <2>1. CASE i = m
    BY <1>11, <1>13, <2>1
  <2>2. CASE i \in Before(m)
    <3>1. RightToken(o[Cardinality(UpTo(i))], i)
      BY <2>2 DEF Matched
    <3>2. Append(o, token)[Cardinality(UpTo(i))] = o[Cardinality(UpTo(i))]
      BY <1>12, <1>13, <2>2
    <3> QED BY <3>1, <3>2
  <2> QED BY <1>7, <1>8, <2>1, <2>2
<1> QED BY <1>7, <1>11, <1>13, <1>14 DEF Matched

-----------------------------------------------------------------------------
(* The inductive invariant.  Where the lexer stands, in the text, a piece  *)
(* begins, or it is in a block comment that is not closed before; and the  *)
(* tokens before there are matched.                                        *)

Stands(c, o, q) ==
  IF c THEN \E i \in Bounds :
              /\ i <= Len(text) /\ IsBlock(i) /\ i + 2 <= q
              /\ \A j \in Closers(i) : q <= j
              /\ Matched(o, PieceNext(i))
  ELSE q \in Bounds /\ Matched(o, q)

Numbered(n, k) == LineCuts = {} => n = LineOf(k)

Typed ==
  /\ text \in Texts /\ size \in Sizes
  /\ DOMAIN line = 0 .. size - 1
  /\ at \in ReadEnds
  /\ comment \in BOOLEAN /\ lineNum \in Nat
  /\ phase \in {"read", "scan", "done"}

Read ==
  phase = "read" =>
    \E q \in Nat :
      /\ q = at + 1 /\ Stands(comment, out, q)
      /\ q <= Len(text) => Numbered(lineNum, q)

Scanned ==
  phase = "scan" =>
    \E b, k, q \in Nat :
      /\ Held(b) /\ k = b + 1 /\ Numbered(lineNum, k)
      /\ p \in 0 .. at - b /\ q = b + p + 1 /\ Stands(comment, out, q)

LexerInv ==
  /\ Typed
  /\ Plain => out \in Seq(Tokens) /\ Read /\ Scanned
  /\ TokensRight

LEMMA GivenTyped ==
  ASSUME Typed
  PROVE  Given
BY LexerAssumption DEF Typed, Given

LEMMA StandsKept ==
  ASSUME text' = text, size' = size, NEW q
  PROVE  Stands(comment, out, q)' <=> Stands(comment', out', q)
<1>1. Before(q)' = Before(q) /\ \A i : Before(PieceNext(i))' = Before(PieceNext(i)) /\ UpTo(i)' = UpTo(i)
  BY SameText, SamePieces DEF Before, UpTo
<1>2. \A t, i : RightToken(t, i)' <=> RightToken(t, i)
  BY SameText, SamePieces DEF RightToken
<1>3. \A o, i : Matched(o, PieceNext(i))' <=> Matched(o, PieceNext(i))
  BY <1>1, <1>2 DEF Matched
<1>4. \A o : Matched(o, q)' <=> Matched(o, q)
  BY <1>1, <1>2 DEF Matched
<1> QED BY <1>3, <1>4, SameText, SamePieces DEF Stands

-----------------------------------------------------------------------------
(* The steps on a line, from p to p' and from o to o'.                     *)

(* A token, or a character that begins none, where a piece begins.         *)
LEMMA TokenStep ==
  ASSUME Given, Plain, out \in Seq(Tokens), lineNum \in Nat,
         NEW b, Held(b), Numbered(lineNum, b + 1),
         NEW r \in 0 .. at - b - 1, b + r + 1 \in Bounds, ~IsComment(b + r + 1),
         Matched(out, b + r + 1), Token(r)
  PROVE  /\ p' \in 0 .. at - b /\ b + p' + 1 \in Bounds
         /\ Matched(out', b + p' + 1) /\ out' \in Seq(Tokens)
<1> DEFINE m == b + r + 1
           e == TokenEnd(r)
           x == PieceNext(m)
<1>1. b \in Nat /\ at \in b + 1 .. Len(text) /\ Len(text) \in Nat /\ r \in Nat
  BY GivenFacts, HeldFacts
<1>2. m \in 1 .. Len(text) /\ m <= at /\ m \in Bounds
  BY <1>1
<1>3. x \in m + 1 .. Len(text) + 1 /\ x <= at + 1 /\ x \in Bounds
  BY <1>2, PieceNextFacts, PieceOnLine, BoundsFacts DEF IsComment
<1>4. CASE text[m] \in {"nl", "@"}
  <2>1. e = r
    BY <1>4, TokenEndRight
  <2>2. p' = r + 1 /\ out' = out
    BY <2>1 DEF Token
  <2>3. x = m + 1
    BY <1>2, <1>4, PieceOfOther
  <2>4. m \notin TokenStarts
    BY <1>4 DEF TokenStarts
  <2>5. Matched(out, x)
    BY <1>2, <2>4, MatchedOver
  <2>6. p' \in 0 .. at - b /\ b + p' + 1 = x
    BY <1>1, <2>2, <2>3
  <2> HIDE DEF x
  <2> QED BY <1>3, <2>2, <2>5, <2>6
<1>5. CASE text[m] \notin {"nl", "@"}
  <2>1. e = x - b - 1 /\ b + e + 1 = x
    <3>1. e = x - b - 1
      BY <1>5, TokenEndRight
    <3> HIDE DEF e, x
    <3> QED BY <1>1, <1>3, <3>1
  <2>2. e # r
    BY <1>1, <1>3, <2>1
  <2> DEFINE token == [text |-> [k \in 1 .. e - r |-> Char(r + k - 1)], line |-> lineNum]
  <2>3. p' = e /\ out' = Append(out, token)
    BY <2>2 DEF Token
  <2>4. m \in TokenStarts
    BY <1>2, <1>5 DEF TokenStarts
  <2>5. e \in Nat /\ e \in r + 1 .. at - b
    BY <1>1, <1>3, <2>1
  <2>6. token.text = SubSeq(text, m, x - 1) /\ token.text \in Seq(Characters)
    <3>1. x - 1 \in m .. Len(text) /\ x - m = e - r /\ (x - 1) - m + 1 = e - r
      <4> HIDE DEF e, x
      <4>1. x \in Nat /\ e \in Nat
        BY <1>1, <1>3, <2>5
      <4> QED BY <1>1, <1>3, <2>1, <2>5, <4>1
    <3>2. SubSeq(text, m, x - 1) = [k \in 1 .. e - r |-> text[m + k - 1]]
      BY <1>1, <1>2, <3>1 DEF Given
    <3>3. \A k \in 1 .. e - r : Char(r + k - 1) = text[m + k - 1] /\ text[m + k - 1] \in Characters
      <4> TAKE k \in 1 .. e - r
      <4> DEFINE h == r + k - 1
      <4>1. h \in 0 .. at - b - 1 /\ b + h + 1 = m + k - 1 /\ m + k - 1 \in 1 .. Len(text)
        BY <1>1, <2>5
      <4> HIDE DEF h, m
      <4>2. Char(h) = text[b + h + 1]
        BY <4>1, HeldFacts
      <4> QED BY <4>1, <4>2, GivenFacts DEF h
    <3>4. token.text = [k \in 1 .. e - r |-> Char(r + k - 1)]
      OBVIOUS
    <3>5. e - r \in Nat
      BY <1>1, <2>5
    <3> HIDE DEF e, m, x, token
    <3>6. token.text = SubSeq(text, m, x - 1)
      BY <3>2, <3>3, <3>4
    <3>7. [k \in 1 .. e - r |-> text[m + k - 1]] \in Seq(Characters)
      BY <3>3, <3>5
    <3> QED BY <3>2, <3>6, <3>7
  <2>7. token.line = lineNum /\ token \in Tokens
    BY <2>6 DEF Tokens
  <2>8. LineCuts = {} => LineOf(m) = LineOf(b + 1)
    <3> DEFINE A == {j \in 1 .. m - 1 : text[j] = "nl"}
               B == {j \in 1 .. (b + 1) - 1 : text[j] = "nl"}
    <3>1. \A j \in 1 .. m - 1 : text[j] = "nl" => j \in 1 .. (b + 1) - 1
      <4> TAKE j \in 1 .. m - 1
      <4>1. j \in b + 1 .. at - 1 => text[j] # "nl"
        BY HeldFacts
      <4> QED BY <1>1, <1>2, <4>1
    <3>2. 1 .. (b + 1) - 1 \subseteq 1 .. m - 1
      BY <1>1
    <3>3. A = B
      BY <3>1, <3>2
    <3> HIDE DEF A, B
    <3> QED BY <3>3 DEF LineOf, A, B
  <2>9. RightToken(token, m)
    <3> HIDE DEF token, m, x
    <3> QED BY <2>6, <2>7, <2>8 DEF RightToken, Numbered, x
  <2> HIDE DEF token, m, x
  <2>10. Matched(out, m)
    BY DEF m
  <2>11. Matched(Append(out, token), x)
    BY <2>4, <2>7, <2>9, <2>10, MatchedToken DEF x
  <2>12. Append(out, token) \in Seq(Tokens)
    BY <2>7
  <2> HIDE DEF e
  <2> QED BY <1>1, <1>3, <2>1, <2>3, <2>5, <2>11, <2>12
<1> QED BY <1>4, <1>5

(* White space and the comment to the end of the line.                     *)
LEMMA SkipStep ==
  ASSUME Given, Plain, NEW b, Held(b), NEW r \in 0 .. at - b, p = r,
         b + r + 1 \in Bounds, Matched(out, b + r + 1), Skip
  PROVE  /\ p' \in 0 .. at - b /\ b + p' + 1 \in Bounds
         /\ Matched(out', b + p' + 1)
<1> DEFINE m == b + r + 1
           x == PieceNext(m)
<1>1. b \in Nat /\ at \in b + 1 .. Len(text) /\ Len(text) \in Nat /\ r \in Nat
  BY GivenFacts, HeldFacts
<1>2. r # at - b
  BY HeldFacts DEF Skip, Scanning
<1>3. r \in 0 .. at - b - 1 /\ m \in 1 .. Len(text) /\ m <= at /\ Char(r) = text[m]
  <2>1. r \in 0 .. at - b - 1
    BY <1>1, <1>2
  <2>2. Char(r) = text[b + r + 1]
    BY <2>1, HeldFacts
  <2> QED BY <1>1, <2>1, <2>2
<1>4. x \in m + 1 .. Len(text) + 1 /\ x \in Bounds
  BY <1>3, PieceNextFacts, BoundsFacts
<1>5. out' = out
  BY DEF Skip
<1>6. CASE Blank
  <2>1. text[m] = "nl" /\ p' = r + 1
    BY <1>3, <1>6 DEF Blank, Skip
  <2>2. x = m + 1 /\ m \notin TokenStarts
    BY <1>3, <2>1, PieceOfOther DEF TokenStarts
  <2>3. Matched(out, x)
    BY <1>3, <2>2, MatchedOver
  <2>4. p' \in 0 .. at - b /\ b + p' + 1 = x
    BY <1>1, <1>3, <2>1, <2>2
  <2> HIDE DEF x
  <2> QED BY <1>4, <1>5, <2>3, <2>4
<1>7. CASE ~Blank
  <2>1. LineComment /\ Char(r) = "/" /\ Char(r + 1) = "/"
    BY <1>7 DEF Skip, LineComment
  <2>2. r + 1 # at - b
    BY <2>1, HeldFacts DEF NUL
  <2>3. r + 1 \in 0 .. at - b - 1 /\ b + (r + 1) + 1 = m + 1 /\ m + 1 <= Len(text)
    BY <1>1, <1>3, <2>2
  <2>4. Char(r + 1) = text[b + (r + 1) + 1]
    BY <2>3, HeldFacts
  <2>5. Is(m, <<"/", "/">>)
    <3>1. text[m + 1] = "/" /\ text[m] = "/"
      BY <1>3, <2>1, <2>3, <2>4
    <3> QED BY <1>3, <2>3, <3>1, IsTwo
  <2>6. x = LineEnd(m) /\ ~IsBlock(m) /\ m + 2 <= x
    BY <1>3, <2>5, PieceOfLineComment
  <2>7. x <= at + 1
    BY <1>3, <2>6, PieceOnLine
  <2>8. /\ x <= Len(text) => text[x] = "nl"
        /\ \A j \in m .. Len(text) : text[j] = "nl" => x <= j
    BY <1>3, <2>6, LineEndFacts
  <2>9. m \notin TokenStarts
    BY <2>5 DEF TokenStarts, IsComment
  <2>10. Matched(out, x)
    BY <1>3, <2>9, MatchedOver
  <2> DEFINE e == at - b
             y == x - b - 1
             R == {j \in r .. e : Char(j) = "nl"}
  <2>11. p' = Min({e} \cup R)
    <3>1. End(r) = e
      BY HeldEnd
    <3> QED BY <1>7, <3>1 DEF Skip
  <2> HIDE DEF x
  <2>12. y \in r .. e /\ b + y + 1 = x /\ y \in Nat /\ e \in Nat
    BY <1>1, <1>4, <2>7
  <2> HIDE DEF y
  <2>13. y \in {e} \cup R
    <3>1. CASE x = at + 1
      BY <1>1, <2>12, <3>1
    <3>2. CASE x <= at
      <4>1. y \in 0 .. at - b - 1 /\ text[x] = "nl"
        BY <1>1, <2>8, <2>12, <3>2
      <4>2. Char(y) = "nl"
        BY <2>12, <4>1, HeldFacts
      <4> QED BY <2>12, <4>2
    <3> QED BY <1>1, <1>4, <2>7, <3>1, <3>2
  <2>14. ASSUME NEW j \in R
         PROVE  y <= j
    <3>1. j \in r .. e /\ Char(j) = "nl"
      OBVIOUS
    <3>2. j # e
      BY <3>1, HeldFacts DEF NUL
    <3>3. j \in 0 .. at - b - 1 /\ b + j + 1 \in m .. Len(text)
      BY <1>1, <3>1, <3>2
    <3>4. text[b + j + 1] = "nl"
      BY <3>1, <3>3, HeldFacts
    <3>5. x <= b + j + 1
      BY <2>8, <3>3, <3>4
    <3> QED BY <1>1, <2>12, <3>3, <3>5
  <2>15. {e} \cup R \in SUBSET Nat /\ \A z \in {e} \cup R : y <= z
    BY <1>1, <2>12, <2>14
  <2> HIDE DEF e, R
  <2>16. Min({e} \cup R) = y
    BY <2>13, <2>15, MinIs
  <2>17. p' = y
    BY <2>11, <2>16
  <2> QED BY <1>1, <1>4, <1>5, <2>10, <2>12, <2>17 DEF e
<1> QED BY <1>6, <1>7

(* The rest of a comment that began on a line before.                      *)
LEMMA InCommentStep ==
  ASSUME Given, Plain, NEW b, Held(b), NEW r \in 0 .. at - b, p = r,
         Stands(TRUE, out, b + r + 1), InComment
  PROVE  p' \in 0 .. at - b /\ Stands(comment', out', b + p' + 1)
<1>1. b \in Nat /\ at \in b + 1 .. Len(text) /\ Len(text) \in Nat /\ r \in Nat
  BY GivenFacts, HeldFacts
<1>2. PICK i \in Bounds :
        /\ i <= Len(text) /\ IsBlock(i) /\ i + 2 <= b + r + 1
        /\ \A j \in Closers(i) : b + r + 1 <= j
        /\ Matched(out, PieceNext(i))
  BY DEF Stands
<1>3. i \in 1 .. Len(text) /\ PieceNext(i) \in Bounds
  BY <1>2, BoundsFacts
<1>4. p' = Behind(r) /\ (comment' <=> Closing(r) = {}) /\ comment' \in BOOLEAN /\ out' = out
  BY DEF InComment
<1>5. CASE Closing(r) = {}
  <2>1. End(r) = at - b
    BY HeldEnd
  <2>2. p' = at - b /\ b + p' + 1 = at + 1
    BY <1>1, <1>4, <1>5, <2>1 DEF Behind
  <2>3. \A j \in Closers(i) : at + 1 <= j
    BY <1>2, <1>5, NoCloserLeft
  <2>4. i + 2 <= at + 1
    BY <1>1, <1>2, <1>3
  <2>5. Stands(TRUE, out', at + 1)
    BY <1>2, <1>4, <2>3, <2>4 DEF Stands
  <2>6. comment' /\ b + p' + 1 = at + 1
    BY <1>4, <1>5, <2>2
  <2>7. Stands(comment', out', b + p' + 1)
    BY <2>5, <2>6 DEF Stands
  <2> QED BY <1>1, <2>2, <2>7
<1>6. CASE Closing(r) # {}
  <2>1. PieceNext(i) = b + Behind(r) + 1 /\ Behind(r) \in r + 2 .. at - b
    BY <1>2, <1>3, <1>6, CloserFound
  <2>2. ~comment' /\ b + p' + 1 = PieceNext(i)
    BY <1>4, <1>6, <2>1
  <2>3. Stands(comment', out', b + p' + 1)
    BY <1>2, <1>3, <1>4, <2>2 DEF Stands
  <2> QED BY <1>1, <1>4, <2>1, <2>3
<1> QED BY <1>5, <1>6

(* A block comment begins, and with it goes the token behind it.           *)
LEMMA OpenCommentStep ==
  ASSUME Given, Plain, out \in Seq(Tokens), lineNum \in Nat,
         NEW b, Held(b), Numbered(lineNum, b + 1),
         NEW r \in 0 .. at - b, p = r,
         b + r + 1 \in Bounds, Matched(out, b + r + 1), OpenComment
  PROVE  /\ p' \in 0 .. at - b /\ out' \in Seq(Tokens)
         /\ Stands(comment', out', b + p' + 1)
<1> DEFINE m == b + r + 1
           k == r + 2
<1>1. b \in Nat /\ at \in b + 1 .. Len(text) /\ Len(text) \in Nat /\ r \in Nat
  BY GivenFacts, HeldFacts
<1>2. Char(r) = "/" /\ Char(r + 1) = "*"
  BY DEF OpenComment, BlockComment
<1>3. r # at - b /\ r + 1 # at - b
  BY <1>2, HeldFacts DEF NUL
<1>4. r \in 0 .. at - b - 1 /\ r + 1 \in 0 .. at - b - 1 /\ b + (r + 1) + 1 = m + 1 /\ k \in 0 .. at - b
  BY <1>1, <1>3
<1>5. m \in 1 .. Len(text) /\ m + 1 <= at /\ m + 2 = b + k + 1
  BY <1>1, <1>4
<1>6. IsBlock(m)
  <2>1. text[m] = "/" /\ text[m + 1] = "*"
    BY <1>2, <1>4, HeldFacts
  <2> QED BY <1>1, <1>5, <2>1, IsTwo DEF IsBlock
<1>7. \A j \in Closers(m) : b + k + 1 <= j
  BY <1>5, ClosersFacts
<1>8. m \notin TokenStarts
  BY <1>6 DEF TokenStarts, IsComment
<1>9. Matched(out, PieceNext(m)) /\ PieceNext(m) \in Bounds
  BY <1>5, <1>8, MatchedOver, BoundsFacts
<1>10. comment' = (Closing(k) = {}) /\ IF Closing(k) = {} THEN p' = End(k) /\ out' = out ELSE Token(Behind(k))
  BY DEF OpenComment
<1> HIDE DEF k
<1>11. CASE Closing(k) = {}
  <2>1. p' = at - b /\ b + p' + 1 = at + 1 /\ out' = out
    BY <1>1, <1>4, <1>10, <1>11, HeldEnd
  <2>2. \A j \in Closers(m) : at + 1 <= j
    BY <1>4, <1>5, <1>6, <1>7, <1>11, NoCloserLeft
  <2>3. m + 2 <= at + 1
    BY <1>1, <1>5
  <2> HIDE DEF m
  <2>4. Stands(TRUE, out', at + 1)
    BY <1>5, <1>6, <1>9, <2>1, <2>2, <2>3 DEF Stands, m
  <2>5. comment' /\ b + p' + 1 = at + 1
    BY <1>10, <1>11, <2>1
  <2>6. Stands(comment', out', b + p' + 1)
    BY <2>4, <2>5 DEF Stands
  <2> QED BY <1>1, <2>1, <2>6
<1>12. CASE Closing(k) # {}
  <2> DEFINE s == Behind(k)
             x == PieceNext(m)
  <2>1. x = b + s + 1 /\ Closers(m) # {} /\ s \in k + 2 .. at - b /\ text[x - 1] = "/"
    BY <1>4, <1>5, <1>6, <1>7, <1>12, CloserFound
  <2> HIDE DEF s, x
  <2>2. s \in Nat /\ x \in Nat /\ x - 1 = b + s /\ k \in Nat
    BY <1>1, <1>4, <2>1
  <2>3. ClosedAtOnce(m, x - 1)
    <3>1. ASSUME NEW c \in ReadEnds, m <= c, c < x - 1
          PROVE  FALSE
      <4>1. c \in Nat
        BY <1>1, ReadEndsFacts
      <4>2. b < c
        BY <1>1, <3>1, <4>1
      <4>3. at <= c
        BY <4>2, HeldFacts
      <4> QED BY <1>1, <2>1, <2>2, <3>1, <4>1, <4>3
    <3> HIDE DEF m
    <3> QED BY <1>6, <2>1, <3>1 DEF ClosedAtOnce, x, m
  <2>4. s # at - b
    <3> SUFFICES ASSUME s = at - b
                 PROVE  FALSE
      OBVIOUS
    <3>1. x - 1 = at
      BY <1>1, <2>2
    <3>2. at \in LineCuts \cup {Len(text)}
      BY <1>1, <2>1, <3>1, HeldFacts, SMTT(30) DEF LineCuts
    <3>3. EndsLine
      BY <2>3, <3>1, <3>2 DEF EndsLine
    <3> QED BY <3>3 DEF Plain
  <2>5. s \in 0 .. at - b - 1
    BY <1>1, <1>4, <2>1, <2>2, <2>4
  <2>6. ~IsComment(x)
    BY <1>5, <2>3 DEF Plain, Hidden, x
  <2>7. x \in Bounds /\ Matched(out, x)
    BY <1>9 DEF x
  <2>8. b + s + 1 \in Bounds /\ ~IsComment(b + s + 1) /\ Matched(out, b + s + 1)
    BY <2>1, <2>6, <2>7
  <2>9. Token(s)
    BY <1>10, <1>12 DEF s
  <2>10. /\ p' \in 0 .. at - b /\ b + p' + 1 \in Bounds
         /\ Matched(out', b + p' + 1) /\ out' \in Seq(Tokens)
    BY <2>5, <2>8, <2>9, TokenStep
  <2> QED BY <1>10, <1>12, <2>10 DEF Stands
<1> QED BY <1>11, <1>12

(* Anything else.                                                          *)
LEMMA MatchStep ==
  ASSUME Given, Plain, out \in Seq(Tokens), lineNum \in Nat,
         NEW b, Held(b), Numbered(lineNum, b + 1),
         NEW r \in 0 .. at - b, p = r,
         b + r + 1 \in Bounds, Matched(out, b + r + 1), Match
  PROVE  /\ p' \in 0 .. at - b /\ out' \in Seq(Tokens)
         /\ b + p' + 1 \in Bounds /\ Matched(out', b + p' + 1)
<1> DEFINE m == b + r + 1
<1>1. b \in Nat /\ at \in b + 1 .. Len(text) /\ Len(text) \in Nat /\ r \in Nat
  BY GivenFacts, HeldFacts
<1>2. Char(r) # NUL /\ ~LineComment /\ ~BlockComment /\ Token(r)
  BY DEF Match, Scanning
<1>3. r # at - b
  BY <1>2, HeldFacts
<1>4. r \in 0 .. at - b - 1 /\ m \in 1 .. Len(text) /\ m <= at
  BY <1>1, <1>3
<1>5. ~IsComment(m)
  <2> SUFFICES ASSUME IsComment(m)
               PROVE  FALSE
    OBVIOUS
  <2>1. m + 1 <= at
    BY <1>4, CommentOnLine
  <2>2. r + 1 \in 0 .. at - b - 1 /\ b + (r + 1) + 1 = m + 1
    BY <1>1, <2>1
  <2>3. Char(r) = text[m] /\ Char(r + 1) = text[m + 1]
    BY <1>4, <2>2, HeldFacts
  <2>4. text[m] = "/" /\ text[m + 1] \in {"/", "*"}
    BY <1>4, IsTwo DEF IsComment, IsBlock
  <2> QED BY <1>2, <2>3, <2>4 DEF LineComment, BlockComment
<1> QED BY <1>2, <1>4, <1>5, TokenStep

-----------------------------------------------------------------------------
(* The invariant holds at the start, and every step keeps it.              *)

LEMMA HeldKept ==
  ASSUME text' = text, size' = size, at' = at, line' = line, NEW b
  PROVE  Held(b)' <=> Held(b)
BY SameText, SamePieces DEF Held

LEMMA NumberedKept ==
  ASSUME text' = text, size' = size, NEW k
  PROVE  Numbered(lineNum, k)' <=> Numbered(lineNum', k)
BY SameText, SamePieces DEF Numbered

LEMMA TypedInit ==
  ASSUME LexerInit
  PROVE  Typed
<1>1. text \in Seq(Characters) /\ size \in Nat
  BY LexerAssumption DEF LexerInit
<1>2. Given
  BY LexerAssumption DEF LexerInit, Given
<1>3. at \in ReadEnds
  BY <1>2, ReadEndsFacts DEF LexerInit
<1>4. DOMAIN line = 0 .. size - 1
  BY DEF LexerInit
<1> QED BY <1>3, <1>4 DEF LexerInit, Typed

LEMMA TypedStep ==
  ASSUME Typed, [LexerNext]_lexer
  PROVE  Typed' /\ text' = text /\ size' = size
<1>1. Given /\ Len(text) \in Nat
  BY GivenTyped, GivenFacts
<1>2. CASE ReadLine
  <2>1. at < Len(text) /\ at' = PieceEnd(at) /\ text' = text /\ size' = size
    BY <1>2 DEF ReadLine
  <2>2. at' \in ReadEnds
    BY <1>1, <2>1, ReadEndsFacts DEF Typed
  <2>3. ReadEnds' = ReadEnds
    BY <2>1, SamePieces
  <2>4. DOMAIN line' = 0 .. size' - 1
    BY <1>2, <2>1 DEF ReadLine, Typed
  <2> QED BY <1>2, <2>1, <2>2, <2>3, <2>4 DEF ReadLine, Typed
<1>3. CASE ~ReadLine
  <2>1. text' = text /\ size' = size /\ at' = at /\ line' = line
    BY <1>3 DEF LexerNext, EndOfLine, EndOfFile, InComment, Skip, OpenComment, Match, Scanning, lexer
  <2>2. comment' \in BOOLEAN
    <3>1. CASE InComment \/ OpenComment
      BY <3>1 DEF InComment, OpenComment
    <3>2. CASE ~InComment /\ ~OpenComment
      BY <1>3, <3>2 DEF Typed, LexerNext, EndOfLine, EndOfFile, Skip, Match, lexer
    <3> QED BY <3>1, <3>2
  <2>4. lineNum' \in Nat
    BY <1>3 DEF Typed, LexerNext, EndOfLine, EndOfFile, InComment, Skip, OpenComment, Match,
                Scanning, lexer
  <2>5. phase' \in {"read", "scan", "done"}
    BY <1>3 DEF Typed, LexerNext, EndOfLine, EndOfFile, InComment, Skip, OpenComment, Match,
                Scanning, lexer
  <2>3. ReadEnds' = ReadEnds
    BY <2>1, SamePieces
  <2> QED BY <2>1, <2>2, <2>3, <2>4, <2>5 DEF Typed
<1> QED BY <1>2, <1>3

LEMMA InvInit ==
  ASSUME LexerInit
  PROVE  LexerInv
<1>1. Typed /\ Given
  BY TypedInit, GivenTyped
<1>2. Len(text) \in Nat /\ 1 \in Bounds
  BY <1>1, GivenFacts, BoundsFacts
<1>3. Before(1) = {}
  BY <1>1, <1>2, StartsFacts DEF Before
<1>4. Cardinality({}) = 0 /\ Len(out) = 0 /\ out \in Seq(Tokens)
  BY FS_EmptySet DEF LexerInit
<1>5. Matched(out, 1)
  BY <1>3, <1>4 DEF Matched
<1>6. Stands(comment, out, 1)
  BY <1>2, <1>5 DEF Stands, LexerInit
<1>7. LineOf(1) = 1
  <2>1. {j \in 1 .. 1 - 1 : text[j] = "nl"} = {}
    OBVIOUS
  <2> QED BY <1>4, <2>1 DEF LineOf
<1>8. Numbered(lineNum, 1)
  BY <1>7 DEF Numbered, LexerInit
<1>9. 1 \in Nat /\ 1 = at + 1
  BY DEF LexerInit
<1>10. Read
  BY <1>6, <1>8, <1>9 DEF Read
<1>11. Scanned /\ TokensRight
  BY DEF LexerInit, Scanned, TokensRight
<1> QED BY <1>1, <1>4, <1>10, <1>11 DEF LexerInv

(* fgets, on to the scan.                                                  *)
LEMMA ReadLineStep ==
  ASSUME Typed, Plain, Read, ReadLine, text' = text, size' = size
  PROVE  Scanned'
<1>1. Given /\ Len(text) \in Nat /\ at < Len(text) /\ at \in ReadEnds /\ at \in Nat
  BY GivenTyped, GivenFacts, ReadEndsFacts DEF ReadLine, Typed
<1>2. PICK q \in Nat : q = at + 1 /\ Stands(comment, out, q) /\ (q <= Len(text) => Numbered(lineNum, q))
  BY DEF Read, ReadLine
<1>3. /\ at' = PieceEnd(at) /\ p' = 0 /\ comment' = comment /\ out' = out /\ lineNum' = lineNum
      /\ line' = [i \in DOMAIN line |-> IF i < at' - at THEN text[at + i + 1]
                                       ELSE IF i = at' - at THEN NUL ELSE line[i]]
  BY DEF ReadLine
<1>4. PICK b \in Nat : b = at
  BY <1>1
<1>5. PieceEnd(b) \in b + 1 .. Len(text) /\ PieceEnd(b) <= b + (size - 1)
  BY <1>1, <1>4, PieceEndFacts
<1>6. at' - b \in 1 .. size - 1 /\ size \in Nat /\ at' \in Nat
  BY <1>1, <1>3, <1>4, <1>5, GivenFacts
<1>7. /\ \A i \in 0 .. at' - b - 1 : line'[i] = text[b + i + 1]
      /\ line'[at' - b] = NUL
  <2>5. PICK e \in Nat : e = at'
    BY <1>6
  <2>1. DOMAIN line = 0 .. size - 1
    BY DEF Typed
  <2>2. \A i \in 0 .. size - 1 : line'[i] = IF i < at' - b THEN text[b + i + 1]
                                            ELSE IF i = at' - b THEN NUL ELSE line[i]
    BY <1>3, <1>4, <2>1
  <2>6. e - b \in 1 .. size - 1 /\ size \in Nat
    BY <1>6, <2>5
  <2> DEFINE d == e - b
  <2>7. d \in Nat /\ d <= size - 1 /\ d >= 1
    BY <2>6
  <2> HIDE DEF d
  <2>3. \A i \in 0 .. d - 1 : i \in 0 .. size - 1 /\ i < d
    BY <2>6, <2>7
  <2>4. d \in 0 .. size - 1 /\ ~(d < d)
    BY <2>6, <2>7
  <2> QED BY <2>2, <2>3, <2>4, <2>5 DEF d
<1>8. Held(b)'
  <2>1. b \in ReadEnds' /\ b < Len(text') /\ at' = PieceEnd(b)'
    BY <1>1, <1>3, <1>4, SameText, SamePieces
  <2> QED BY <1>7, <2>1 DEF Held
<1>9. Stands(comment, out, q)' /\ Numbered(lineNum, q)'
  BY <1>1, <1>2, <1>3, StandsKept, NumberedKept
<1>10. p' \in 0 .. at' - b /\ q = b + p' + 1 /\ q = b + 1
  BY <1>1, <1>2, <1>3, <1>4, <1>6
<1> QED BY <1>8, <1>9, <1>10 DEF Scanned

LEMMA EndOfLineStep ==
  ASSUME Typed, Plain, Scanned, EndOfLine, text' = text, size' = size
  PROVE  Read'
<1>1. Given /\ Len(text) \in Nat
  BY GivenTyped, GivenFacts
<1>2. PICK b, k, q \in Nat :
        /\ Held(b) /\ k = b + 1 /\ Numbered(lineNum, k)
        /\ p \in 0 .. at - b /\ q = b + p + 1 /\ Stands(comment, out, q)
  BY DEF Scanned, EndOfLine
<1>3. at \in b + 1 .. Len(text) /\ at - b \in Nat
  BY <1>1, <1>2, HeldFacts
<1>4. p = at - b
  <2>1. p \notin 0 .. at - b - 1
    BY <1>1, <1>2, HeldFacts DEF EndOfLine
  <2> QED BY <1>2, <1>3, <2>1
<1>5. at' = at /\ comment' = comment /\ out' = out /\ lineNum' = lineNum + 1
  BY DEF EndOfLine
<1>6. q = at' + 1
  BY <1>2, <1>3, <1>4, <1>5
<1>7. Stands(comment, out, q)'
  BY <1>2, <1>5, StandsKept
<1>8. q <= Len(text) => Numbered(lineNum + 1, q)
  <2> SUFFICES ASSUME q <= Len(text), LineCuts = {}
               PROVE  lineNum + 1 = LineOf(q)
    BY DEF Numbered
  <2>1. lineNum = LineOf(k)
    BY <1>2 DEF Numbered
  <2>2. at < Len(text) /\ at \in ReadEnds /\ at > 0
    BY <1>1, <1>2, <1>3, <1>5, <1>6, HeldFacts
  <2>3. text[at] = "nl"
    BY <2>2 DEF LineCuts
  <2> DEFINE A == {j \in 1 .. k - 1 : text[j] = "nl"}
             B == {j \in 1 .. q - 1 : text[j] = "nl"}
  <2>4. \A j \in b + 1 .. at - 1 : text[j] # "nl"
    BY <1>1, <1>2, HeldFacts
  <2>5. \A j : j \in B <=> j \in A \/ j = at
    <3> TAKE j
    <3>1. j \in 1 .. q - 1 <=> j \in 1 .. k - 1 \/ j \in b + 1 .. at - 1 \/ j = at
      BY <1>2, <1>3, <1>5, <1>6
    <3> QED BY <2>3, <2>4, <3>1
  <2>6. at \notin A
    BY <1>2, <1>3
  <2>7. B = A \cup {at}
    BY <2>5
  <2>8. IsFiniteSet(A)
    <3>1. IsFiniteSet(1 .. k - 1)
      BY <1>2, FS_Interval
    <3> QED BY <3>1, FS_Subset
  <2>9. LineOf(k) = 1 + Cardinality(A) /\ LineOf(q) = 1 + Cardinality(B)
    BY DEF LineOf
  <2> HIDE DEF A, B
  <2>10. Cardinality(B) = Cardinality(A) + 1 /\ Cardinality(A) \in Nat
    BY <2>6, <2>7, <2>8, FS_AddElement, FS_CardinalityType
  <2> QED BY <2>1, <2>9, <2>10
<1>9. q <= Len(text') => Numbered(lineNum, q)'
  BY <1>5, <1>8, NumberedKept
<1> QED BY <1>6, <1>7, <1>9 DEF Read

LEMMA EndOfFileStep ==
  ASSUME Typed, Plain, out \in Seq(Tokens), Read, EndOfFile, text' = text, size' = size
  PROVE  TokensRight' /\ out' \in Seq(Tokens)
<1>1. Given /\ Len(text) \in Nat /\ at = Len(text)
  BY GivenTyped, GivenFacts DEF EndOfFile
<1>2. PICK q \in Nat : q = at + 1 /\ Stands(comment, out, q)
  BY DEF Read, EndOfFile
<1> DEFINE z == Len(text) + 1
           n == Len(out)
           eof == [text |-> <<"EOF">>, line |-> lineNum]
<1>3. Matched(out, z)
  <2>1. CASE comment
    <3>1. PICK i \in Bounds :
            i <= Len(text) /\ IsBlock(i) /\ (\A j \in Closers(i) : q <= j) /\ Matched(out, PieceNext(i))
      BY <1>2, <2>1 DEF Stands
    <3>2. i \in 1 .. Len(text)
      BY <1>1, <3>1, BoundsFacts
    <3>3. Closers(i) = {}
      BY <1>1, <1>2, <3>1, <3>2, ClosersFacts
    <3>4. PieceNext(i) = z
      BY <1>1, <3>1, <3>2, <3>3, PieceOfBlock
    <3> QED BY <3>1, <3>4
  <2>2. CASE ~comment
    BY <1>1, <1>2, <2>2 DEF Stands
  <2> QED BY <2>1, <2>2
<1>4. TokenStarts \subseteq 1 .. Len(text) /\ IsFiniteSet(TokenStarts)
  BY <1>1, StartsFacts
<1>5. Before(z) = TokenStarts
  <2>1. \A j \in TokenStarts : j < z
    BY <1>1, <1>4
  <2> QED BY <2>1 DEF Before
<1>6. n = Cardinality(TokenStarts) /\ n \in Nat
  BY <1>3, <1>5 DEF Matched
<1>7. eof \in Tokens /\ out' = Append(out, eof)
  BY DEF Tokens, EndOfFile, Typed
<1>8. /\ Len(out') = n + 1 /\ out'[n + 1] = eof /\ out' \in Seq(Tokens)
      /\ \A k \in 1 .. n : out'[k] = out[k]
  BY <1>7
<1>9. ASSUME NEW i \in TokenStarts
      PROVE  RightToken(out'[Cardinality(UpTo(i))], i)
  <2>1. UpTo(i) \subseteq TokenStarts /\ i \in UpTo(i)
    BY <1>1, <1>4 DEF UpTo
  <2>2. IsFiniteSet(UpTo(i)) /\ Cardinality(UpTo(i)) <= Cardinality(TokenStarts)
    BY <1>4, <2>1, FS_Subset
  <2>3. Cardinality(UpTo(i)) \in Nat /\ Cardinality(UpTo(i)) # 0
    BY <2>1, <2>2, FS_CardinalityType, FS_EmptySet
  <2>4. Cardinality(UpTo(i)) \in 1 .. n
    BY <1>6, <2>2, <2>3
  <2>5. RightToken(out[Cardinality(UpTo(i))], i)
    BY <1>3, <1>5 DEF Matched
  <2> QED BY <1>8, <2>4, <2>5
<1>10. out'[Len(out')].text = <<"EOF">>
  BY <1>8
<1> HIDE DEF n
<1>11. TokenStarts' = TokenStarts /\ LineCuts' = LineCuts /\ (\A i : PieceNext(i)' = PieceNext(i) /\ LineOf(i)' = LineOf(i))
  BY SameText, SamePieces
<1>12. Len(out') = Cardinality(TokenStarts') + 1
  BY <1>6, <1>8, <1>11
<1>13. ASSUME NEW i \in TokenStarts'
       PROVE  /\ out'[Cardinality({j \in TokenStarts' : j <= i})].text = SubSeq(text', i, PieceNext(i)' - 1)
              /\ LineCuts' = {} => out'[Cardinality({j \in TokenStarts' : j <= i})].line = LineOf(i)'
  BY <1>9, <1>11, <1>13 DEF RightToken, UpTo
<1> QED BY <1>8, <1>10, <1>12, <1>13 DEF TokensRight

(* A step on a line: what it must keep. *)
LEMMA ScanStep ==
  ASSUME Typed, Plain, out \in Seq(Tokens), Scanned, InComment \/ Skip \/ OpenComment \/ Match,
         text' = text, size' = size
  PROVE  Scanned' /\ out' \in Seq(Tokens)
<1>1. Given /\ lineNum \in Nat /\ comment \in BOOLEAN
  BY GivenTyped DEF Typed
<1>2. phase = "scan" /\ at' = at /\ line' = line /\ lineNum' = lineNum /\ phase' = phase
  BY DEF InComment, Skip, OpenComment, Match, Scanning
<1>3. PICK b, k, q \in Nat :
        /\ Held(b) /\ k = b + 1 /\ Numbered(lineNum, k)
        /\ p \in 0 .. at - b /\ q = b + p + 1 /\ Stands(comment, out, q)
  BY <1>2 DEF Scanned
<1>4. PICK r \in 0 .. at - b : r = p
  BY <1>3
<1>5. Numbered(lineNum, b + 1) /\ q = b + r + 1
  BY <1>3, <1>4
<1>6. /\ p' \in 0 .. at - b /\ out' \in Seq(Tokens)
      /\ Stands(comment', out', b + p' + 1)
  <2>1. CASE InComment
    <3>1. comment /\ out' = out
      BY <2>1 DEF InComment
    <3>2. Stands(TRUE, out, b + r + 1)
      BY <1>3, <1>5, <3>1 DEF Stands
    <3>3. p' \in 0 .. at - b /\ Stands(comment', out', b + p' + 1)
      BY <1>1, <1>3, <1>4, <2>1, <3>2, InCommentStep
    <3> QED BY <3>1, <3>3
  <2>2. CASE ~InComment
    <3>1. ~comment
      BY <2>2 DEF Skip, OpenComment, Match
    <3>2. b + r + 1 \in Bounds /\ Matched(out, b + r + 1)
      BY <1>3, <1>5, <3>1 DEF Stands
    <3>3. CASE Skip
      <4>1. p' \in 0 .. at - b /\ b + p' + 1 \in Bounds /\ Matched(out', b + p' + 1)
        BY <1>1, <1>3, <1>4, <3>2, <3>3, SkipStep
      <4>2. comment' = comment /\ out' = out
        BY <3>3 DEF Skip
      <4> QED BY <3>1, <4>1, <4>2 DEF Stands
    <3>4. CASE OpenComment
      BY <1>1, <1>3, <1>4, <1>5, <3>2, <3>4, OpenCommentStep
    <3>5. CASE Match
      <4>1. p' \in 0 .. at - b /\ out' \in Seq(Tokens) /\ b + p' + 1 \in Bounds /\ Matched(out', b + p' + 1)
        BY <1>1, <1>3, <1>4, <1>5, <3>2, <3>5, MatchStep
      <4>2. comment' = comment
        BY <3>5 DEF Match
      <4> QED BY <3>1, <4>1, <4>2 DEF Stands
    <3> QED BY <2>2, <3>3, <3>4, <3>5
  <2> QED BY <2>1, <2>2
<1>7. PICK u \in Nat : u = b + p' + 1
  <2>1. at - b \in 1 .. size - 1 /\ size \in Nat
    BY <1>1, <1>3, HeldFacts, GivenFacts
  <2>2. at - b \in Int
    BY <2>1
  <2> DEFINE d == at - b
  <2>3. d \in Int /\ p' \in 0 .. d
    BY <1>6, <2>2
  <2> HIDE DEF d
  <2>4. p' \in Nat
    BY <2>3
  <2>5. PICK v \in Nat : v = p'
    BY <2>4
  <2>6. b + v + 1 \in Nat
    OBVIOUS
  <2> QED BY <2>5, <2>6, Zenon
<1>8. Held(b)' /\ Numbered(lineNum, k)' /\ Stands(comment, out, u)'
  BY <1>2, <1>3, <1>6, <1>7, HeldKept, NumberedKept, StandsKept
<1>9. p' \in 0 .. at' - b /\ k = b + 1
  BY <1>2, <1>3, <1>6
<1> QED BY <1>6, <1>7, <1>8, <1>9 DEF Scanned

LEMMA InvStep ==
  ASSUME LexerInv, [LexerNext]_lexer
  PROVE  LexerInv'
<1>1. Typed /\ Typed' /\ text' = text /\ size' = size
  BY TypedStep DEF LexerInv
<1>2. Plain' <=> Plain
  BY <1>1, SamePieces
<1>3. ASSUME Plain
      PROVE  out \in Seq(Tokens) /\ Read /\ Scanned
  BY <1>3 DEF LexerInv
<1>4. CASE ReadLine
  <2>1. phase' = "scan" /\ out' = out
    BY <1>4 DEF ReadLine
  <2>2. Plain => Scanned'
    BY <1>1, <1>3, <1>4, ReadLineStep
  <2> QED BY <1>1, <1>2, <1>3, <2>1, <2>2 DEF LexerInv, Read, TokensRight
<1>5. CASE EndOfLine
  <2>1. phase' = "read" /\ out' = out
    BY <1>5 DEF EndOfLine
  <2>2. Plain => Read'
    BY <1>1, <1>3, <1>5, EndOfLineStep
  <2> QED BY <1>1, <1>2, <1>3, <2>1, <2>2 DEF LexerInv, Scanned, TokensRight
<1>6. CASE EndOfFile
  <2>1. phase' = "done"
    BY <1>6 DEF EndOfFile
  <2>2. Plain => TokensRight' /\ out' \in Seq(Tokens)
    BY <1>1, <1>3, <1>6, EndOfFileStep
  <2>3. TokensRight'
    BY <1>2, <2>2 DEF TokensRight
  <2> QED BY <1>1, <1>2, <2>1, <2>2, <2>3 DEF LexerInv, Read, Scanned
<1>7. CASE InComment \/ Skip \/ OpenComment \/ Match
  <2>1. phase' = "scan"
    BY <1>7 DEF InComment, Skip, OpenComment, Match, Scanning
  <2>2. Plain => Scanned' /\ out' \in Seq(Tokens)
    BY <1>1, <1>3, <1>7, ScanStep
  <2> QED BY <1>1, <1>2, <2>1, <2>2 DEF LexerInv, Read, TokensRight
<1>8. CASE UNCHANGED lexer
  <2>1. /\ at' = at /\ line' = line /\ p' = p /\ comment' = comment /\ lineNum' = lineNum
        /\ out' = out /\ phase' = phase
    BY <1>8 DEF lexer
  <2>2. TokensRight'
    BY <1>1, <1>2, <2>1, SameText, SamePieces DEF TokensRight, LexerInv
  <2>3. \A q \in Nat : /\ Stands(comment, out, q)' <=> Stands(comment, out, q)
                       /\ Numbered(lineNum, q)' <=> Numbered(lineNum, q)
    BY <1>1, <2>1, StandsKept, NumberedKept
  <2>4. \A b \in Nat : Held(b)' <=> Held(b)
    BY <1>1, <2>1, HeldKept
  <2>5. Read => Read'
    BY <1>1, <2>1, <2>3 DEF Read
  <2>6. Scanned => Scanned'
    BY <1>1, <2>1, <2>3, <2>4 DEF Scanned
  <2> QED BY <1>1, <1>2, <1>3, <2>1, <2>2, <2>5, <2>6 DEF LexerInv
<1> QED BY <1>4, <1>5, <1>6, <1>7, <1>8 DEF LexerNext

(* The tokens are those of the text, and have the numbers of its lines,    *)
(* whatever the text and the size of the buffer are, unless the lexer cuts *)
(* the text through a token or a comment, or a comment closed on its line  *)
(* has another comment or the line's end behind it.                        *)
THEOREM TokensRightAlways == LexerSpec => []TokensRight
<1>1. LexerInit => LexerInv
  BY InvInit
<1>2. LexerInv /\ [LexerNext]_lexer => LexerInv'
  BY InvStep
<1>3. LexerInv => TokensRight
  BY DEF LexerInv
<1> QED BY <1>1, <1>2, <1>3, PTL DEF LexerSpec
=============================================================================
