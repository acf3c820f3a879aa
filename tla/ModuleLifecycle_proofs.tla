----------------------- MODULE ModuleLifecycle_proofs -----------------------
(***************************************************************************)
(* Init and exit of modules, for every set of modules and every import     *)
(* graph, with cycles and without.                                         *)
(*                                                                         *)
(* Both chains are depth-first walks.  The call at the bottom of the stack *)
(* says which one runs; every call above it is of a module that the call   *)
(* below it imports (Chained), so without cycles no module is open twice.  *)
(* Where no module is imported twice, the exits find the marks that the    *)
(* inits have left (Placed), and pass them in the reverse order.           *)
(***************************************************************************)
EXTENDS ModuleLifecycle, SequenceTheorems, TLAPS

(* A new head. *)
LEMMA PushProperties ==
  ASSUME NEW S, NEW s \in Seq(S), NEW e \in S
  PROVE  /\ <<e>> \o s \in Seq(S)
         /\ Len(<<e>> \o s) = Len(s) + 1
         /\ (<<e>> \o s)[1] = e
         /\ \A i \in 1 .. Len(s) : (<<e>> \o s)[i + 1] = s[i]
<1>1. <<e>> \in Seq(S) /\ Len(<<e>>) = 1 /\ <<e>>[1] = e
  OBVIOUS
<1>2. Len(s) \in Nat
  BY LenProperties
<1> QED BY <1>1, <1>2, ConcatProperties

(* Appending what is not in a list without repetitions. *)
LEMMA AppendNew ==
  ASSUME NEW S, NEW s \in Seq(S), NEW e \in S, IsInjective(s), e \notin ToSet(s)
  PROVE  /\ IsInjective(Append(s, e)) /\ ToSet(Append(s, e)) = ToSet(s) \cup {e}
<1>1. PICK n \in Nat : n = Len(s) /\ DOMAIN s = 1 .. n
  BY LenProperties
<1>2. PICK t : t = Append(s, e)
  OBVIOUS
<1>3. /\ t \in Seq(S) /\ Len(t) = n + 1 /\ t[n + 1] = e
      /\ \A i \in 1 .. n : t[i] = s[i]
  BY <1>1, <1>2, AppendProperties
<1>4. DOMAIN t = 1 .. n + 1
  BY <1>3, LenProperties
<1>5. \A i \in 1 .. n + 1 : i \in 1 .. n \/ i = n + 1
  BY <1>1
<1>6. \A i \in 1 .. n : i \in 1 .. n + 1 /\ s[i] # e
  BY <1>1 DEF ToSet
<1>7. IsInjective(t)
  BY <1>1, <1>3, <1>4, <1>5, <1>6 DEF IsInjective
<1>8. ToSet(t) = ToSet(s) \cup {e}
  BY <1>1, <1>3, <1>4, <1>5, <1>6 DEF ToSet
<1> QED BY <1>2, <1>7, <1>8

-----------------------------------------------------------------------------
Fns == {"start", "init", "main", "exit", "end"}

Frame == [fn : Fns, mod : Modules, next : Nat]

Imports(m) == ToSet(imports[m])

(* The calls of modules' functions; below them is the process. *)
Calls == 1 .. Len(stack) - 1

Process(fn) == stack # << >> /\ stack[Len(stack)].fn = fn

(* The call i has begun and has not returned. *)
Open(i) == stack[i].next >= 1

OpenMods == {stack[i].mod : i \in {j \in Calls : Open(j)}}

(* The module whose init or exit is called but has not begun. *)
Called == {stack[i].mod : i \in {j \in Calls : j = 1 /\ ~Open(j)}}

(* The import that the call c makes, or made last. *)
Import(c) == IF c.fn = "init" THEN c.next - 1 ELSE c.next

-----------------------------------------------------------------------------
Shape ==
  stack # << >> =>
    /\ \E fn \in {"start", "main", "end"} : Process(fn)
    /\ Process("start") => Len(stack) = 1
    /\ \A i \in Calls : stack[i].fn = IF Process("main") THEN "init" ELSE "exit"

Chained ==
  /\ \A i \in Calls : i # 1 =>
       /\ Import(stack[i]) \in DOMAIN imports[stack[i].mod]
       /\ stack[i - 1].mod = imports[stack[i].mod][Import(stack[i])]
  /\ \A i \in Calls : stack[i].next <= Len(imports[stack[i].mod]) + 1
  /\ \A i \in Calls : stack[i].fn = "exit" => stack[i].next <= Len(imports[stack[i].mod])

Structure == TypeOK /\ Shape /\ Chained

(* A module is initialized or on its way there, once.                      *)
Inits ==
  /\ IsInjective(inits) /\ ToSet(inits) \subseteq initialized
  /\ \A m \in ToSet(inits) : Imports(m) \subseteq initialized
  /\ Process("start") => initialized = {}
  /\ Process("main") =>
       /\ \A i, j \in Calls : Open(i) /\ Open(j) /\ stack[i].mod = stack[j].mod => i = j
       /\ initialized = ToSet(inits) \cup OpenMods
       /\ ToSet(inits) \cap OpenMods = {}
       /\ \A i \in Calls : \A k \in DOMAIN imports[stack[i].mod] :
            k < stack[i].next => imports[stack[i].mod][k] \in initialized \cup Called
       /\ Main \in initialized \cup Called
  /\ Process("end") => ToSet(inits) = initialized /\ Main \in initialized

(* Only what the entry module imports, directly or not, is called. *)
Reach == {Main} \cup Dependencies(Main)

Reached ==
  /\ initialized \subseteq Reach
  /\ \A i \in Calls : stack[i].mod \in Reach

(* A module has exited or is on its way there; the imports that it has     *)
(* dealt with have exited and have no context.                             *)
Leaving ==
  /\ \A i \in Calls : stack[i].mod \in initialized
  /\ exited \subseteq initialized
  /\ OpenMods \subseteq exited
  /\ \A i \in Calls : Open(i) =>
       \A k \in DOMAIN imports[stack[i].mod] :
         /\ k >= stack[i].next => imports[stack[i].mod][k] \in exited \cup Called
         /\ k > stack[i].next => imports[stack[i].mod][k] \notin ctx
  /\ \A m \in exited \ OpenMods : Imports(m) \subseteq exited \ ctx
  /\ Main \in exited \cup Called

Exits ==
  /\ exited = ToSet(exits) /\ IsInjective(exits)
  /\ Process("start") \/ Process("main") => exits = << >>
  /\ Process("end") => Leaving

(* A context is below that of a module that imports it. *)
Owned ==
  /\ Contexts!Live \subseteq ctx
  /\ \A c \in ctx : c = Main \/ \E m \in initialized : c \in Imports(m)
  /\ \A c \in Contexts!Live : owner[c] \in Modules => c \in Imports(owner[c])

SInv == Structure /\ Inits /\ Reached /\ Exits /\ Owned /\ NothingLeft

-----------------------------------------------------------------------------
(* Without cycles: calls are of dependencies of the calls below them, and  *)
(* what is no longer open is done with, all that it imports included.      *)
Nested ==
  \A i, j \in Calls : i < j =>
    \A d, m \in Modules : d = stack[i].mod /\ m = stack[j].mod => d \in Dependencies(m)

Ordered ==
  \A i \in DOMAIN inits : \A d \in Imports(inits[i]) : \E j \in 1 .. i - 1 : inits[j] = d

(* What an init has called is done, but for the call that it waits for. *)
MainDone ==
  \A i \in Calls : \A k \in DOMAIN imports[stack[i].mod] :
    k < stack[i].next => \/ imports[stack[i].mod][k] \in ToSet(inits)
                         \/ i # 1 /\ k = Import(stack[i])

EndDone == \A m \in exited \ OpenMods : Imports(m) \cap OpenMods = {}

Done == (Process("main") => MainDone) /\ (Process("end") => EndDone)

AInv == Acyclic => Nested /\ Ordered /\ Done /\ NoDanglingContext

IInv == SInv /\ AInv

-----------------------------------------------------------------------------
(* The stack after a return, after a turn of the list of imports and after *)
(* a turn that makes a call.                                               *)
SameCall(c, d) == c.fn = d.fn /\ c.mod = d.mod

Pops ==
  /\ stack' \in Seq(Frame) /\ Len(stack') = Len(stack) - 1
  /\ \A i \in 1 .. Len(stack) - 1 : stack'[i] = stack[i + 1]

Moves(n) ==
  /\ stack' \in Seq(Frame) /\ Len(stack') = Len(stack)
  /\ SameCall(stack'[1], stack[1]) /\ stack'[1].next = n
  /\ \A i \in 2 .. Len(stack) : stack'[i] = stack[i]

Pushes(c, n) ==
  /\ stack' \in Seq(Frame) /\ Len(stack') = Len(stack) + 1
  /\ stack'[1] = c
  /\ SameCall(stack'[2], stack[1]) /\ stack'[2].next = n
  /\ \A i \in 3 .. Len(stack) + 1 : stack'[i] = stack[i - 1]

LEMMA TopIs ==
  ASSUME TypeOK, stack # << >>
  PROVE  /\ Len(stack) \in Nat /\ Len(stack) >= 1 /\ Top = stack[1]
         /\ Len(stack) = 1 \/ Len(stack) >= 2
         /\ \A i \in 1 .. Len(stack) : stack[i] \in Frame
<1>1. stack \in Seq(Frame)
  BY DEF TypeOK, Frame, Fns
<1>2. Len(stack) \in Nat /\ Len(stack) >= 1
  BY <1>1, EmptySeq
<1>3. Top = stack[1]
  BY <1>1, <1>2 DEF Top
<1>4. \A l \in Nat : l >= 1 => l = 1 \/ l >= 2
  OBVIOUS
<1>5. Len(stack) = 1 \/ Len(stack) >= 2
  BY <1>2, <1>4
<1> QED BY <1>1, <1>2, <1>3, <1>5, ElementOfSeq

LEMMA PopIs ==
  ASSUME TypeOK, stack # << >>, stack' = Tail(stack)
  PROVE  Pops
<1>1. stack \in Seq(Frame)
  BY DEF TypeOK, Frame, Fns
<1> QED BY <1>1, HeadTailProperties DEF Pops

LEMMA AdvanceIs ==
  ASSUME TypeOK, stack # << >>, NEW n \in Nat
  PROVE  /\ Advance(n) \in Seq(Frame) /\ Len(Advance(n)) = Len(stack)
         /\ SameCall(Advance(n)[1], stack[1]) /\ Advance(n)[1].next = n
         /\ \A i \in 2 .. Len(stack) : Advance(n)[i] = stack[i]
<1>1. stack \in Seq(Frame)
  BY DEF TypeOK, Frame, Fns
<1>2. /\ Len(stack) \in Nat /\ Len(stack) >= 1 /\ Top = stack[1] /\ stack[1] \in Frame
  BY TopIs
<1>3. /\ Tail(stack) \in Seq(Frame) /\ Len(Tail(stack)) = Len(stack) - 1
      /\ \A i \in 1 .. Len(stack) - 1 : Tail(stack)[i] = stack[i + 1]
  BY <1>1, HeadTailProperties
<1> DEFINE c == [Top EXCEPT !.next = n]
<1>4. c \in Frame /\ SameCall(c, stack[1]) /\ c.next = n
  BY <1>2 DEF Frame, SameCall
<1> HIDE DEF c
<1>5. /\ <<c>> \o Tail(stack) \in Seq(Frame)
      /\ Len(<<c>> \o Tail(stack)) = Len(stack)
      /\ (<<c>> \o Tail(stack))[1] = c
      /\ \A i \in 1 .. Len(stack) - 1 : (<<c>> \o Tail(stack))[i + 1] = stack[i + 1]
  BY <1>2, <1>3, <1>4, PushProperties
<1>6. \A i \in 2 .. Len(stack) : i - 1 \in 1 .. Len(stack) - 1 /\ (i - 1) + 1 = i
  BY <1>2
<1>7. Advance(n) = <<c>> \o Tail(stack)
  BY DEF Advance, c
<1> QED BY <1>4, <1>5, <1>6, <1>7

LEMMA MoveIs ==
  ASSUME TypeOK, stack # << >>, NEW n \in Nat, stack' = Advance(n)
  PROVE  Moves(n)
BY AdvanceIs DEF Moves

LEMMA PushIs ==
  ASSUME TypeOK, stack # << >>, NEW c \in Frame, NEW n \in Nat,
         stack' = <<c>> \o Advance(n)
  PROVE  Pushes(c, n)
<1>0. Len(stack) \in Nat /\ Len(stack) >= 1
  BY TopIs
<1>1. PICK s : s = Advance(n)
  OBVIOUS
<1>2. /\ s \in Seq(Frame) /\ Len(s) = Len(stack)
      /\ SameCall(s[1], stack[1]) /\ s[1].next = n
      /\ \A i \in 2 .. Len(stack) : s[i] = stack[i]
  BY <1>1, AdvanceIs
<1>3. /\ stack' \in Seq(Frame) /\ Len(stack') = Len(stack) + 1 /\ stack'[1] = c
      /\ \A i \in 1 .. Len(stack) : stack'[i + 1] = s[i]
  BY <1>1, <1>2, PushProperties
<1>4. stack'[2] = s[1]
  <2>1. 1 \in 1 .. Len(stack) /\ 1 + 1 = 2
    BY <1>0
  <2> QED BY <1>3, <2>1
<1>5. \A i \in 3 .. Len(stack) + 1 : stack'[i] = stack[i - 1]
  <2> SUFFICES ASSUME NEW i \in 3 .. Len(stack) + 1
               PROVE  stack'[i] = stack[i - 1]
    OBVIOUS
  <2>1. i - 1 \in 1 .. Len(stack) /\ i - 1 \in 2 .. Len(stack) /\ (i - 1) + 1 = i
    BY <1>0
  <2> QED BY <1>2, <1>3, <2>1
<1> QED BY <1>2, <1>3, <1>4, <1>5 DEF Pushes

(* Which chain runs, from its call on top. *)
LEMMA WhichChain ==
  ASSUME Structure, NEW fn \in Fns, Running(fn)
  PROVE  /\ stack # << >> /\ Top = stack[1] /\ stack[1].fn = fn /\ stack[1] \in Frame
         /\ fn \in {"start", "main", "end"} => Len(stack) = 1 /\ Process(fn) /\ Calls = {}
         /\ fn = "init" => Process("main") /\ Len(stack) >= 2 /\ 1 \in Calls
         /\ fn = "exit" => Process("end") /\ Len(stack) >= 2 /\ 1 \in Calls
<1>1. /\ stack # << >> /\ Top = stack[1] /\ stack[1].fn = fn /\ stack[1] \in Frame
      /\ Len(stack) \in Nat /\ (Len(stack) = 1 \/ Len(stack) >= 2) /\ Shape
  BY TopIs DEF Structure, Running
<1>2. 1 \in Calls <=> Len(stack) >= 2
  BY <1>1 DEF Calls
<1>3. CASE Len(stack) >= 2
  BY <1>1, <1>2, <1>3 DEF Shape, Process
<1>4. CASE Len(stack) = 1
  BY <1>1, <1>4 DEF Shape, Process, Calls
<1> QED BY <1>1, <1>2, <1>3, <1>4

(* The process below the calls stays what it was.                          *)
LEMMA SameProcess ==
  ASSUME TypeOK, stack # << >>,
         (Pops /\ Len(stack) >= 2) \/ (\E n : Moves(n)) \/ (\E c, n : Pushes(c, n))
  PROVE  stack' # << >> /\ \A fn : Process(fn)' <=> Process(fn)
<1>1. Len(stack) \in Nat /\ Len(stack) >= 1 /\ (Len(stack) = 1 \/ Len(stack) >= 2)
  BY TopIs
<1>2. stack' \in Seq(Frame) /\ Len(stack') >= 1
  BY <1>1 DEF Pops, Moves, Pushes
<1>3. stack' # << >>
  BY <1>2, EmptySeq
<1>4. stack'[Len(stack')].fn = stack[Len(stack)].fn
  <2>1. CASE Pops /\ Len(stack) >= 2
    BY <1>1, <2>1 DEF Pops
  <2>2. ASSUME NEW n, Moves(n)
        PROVE  stack'[Len(stack')].fn = stack[Len(stack)].fn
    <3>1. CASE Len(stack) = 1
      BY <2>2, <3>1 DEF Moves, SameCall
    <3>2. CASE Len(stack) >= 2
      BY <1>1, <2>2, <3>2 DEF Moves
    <3> QED BY <1>1, <3>1, <3>2
  <2>3. ASSUME NEW c, NEW n, Pushes(c, n)
        PROVE  stack'[Len(stack')].fn = stack[Len(stack)].fn
    <3>1. CASE Len(stack) = 1
      BY <2>3, <3>1 DEF Pushes, SameCall
    <3>2. CASE Len(stack) >= 2
      <4>1. Len(stack) + 1 \in 3 .. Len(stack) + 1 /\ (Len(stack) + 1) - 1 = Len(stack)
        BY <1>1, <3>2
      <4> QED BY <2>3, <4>1 DEF Pushes
    <3> QED BY <1>1, <3>1, <3>2
  <2> QED BY <2>1, <2>2, <2>3
<1> QED BY <1>3, <1>4 DEF Process

LEMMA ImportLists ==
  ASSUME TypeOK, NEW m \in Modules
  PROVE  /\ imports[m] \in Seq(Modules) /\ Len(imports[m]) \in Nat
         /\ DOMAIN imports[m] = 1 .. Len(imports[m])
         /\ \A k \in DOMAIN imports[m] : imports[m][k] \in Modules
         /\ imports[m] # << >> => Len(imports[m]) \in DOMAIN imports[m]
<1>1. imports[m] \in Seq(Modules)
  BY ProgramsAssumption DEF TypeOK
<1>2. Len(imports[m]) \in Nat /\ DOMAIN imports[m] = 1 .. Len(imports[m])
  BY <1>1, LenProperties
<1>3. imports[m] # << >> => Len(imports[m]) \in DOMAIN imports[m]
  BY <1>1, <1>2, EmptySeq
<1> QED BY <1>1, <1>2, <1>3, ElementOfSeq

(* The calls of modules' functions after a step. *)
LEMMA CallsPopped ==
  ASSUME TypeOK, Len(stack) >= 2, stack # << >>, Pops
  PROVE  /\ \A i \in Calls' : i + 1 \in Calls /\ i + 1 # 1 /\ stack'[i] = stack[i + 1]
         /\ \A i \in Calls : i # 1 => i - 1 \in Calls' /\ stack'[i - 1] = stack[i]
         /\ 1 \in Calls
         /\ \A i \in Calls : i \in Nat
         /\ \A i \in Calls' : i \in Nat /\ i >= 1
<1>1. PICK l \in Nat : l = Len(stack) /\ l >= 2
  BY TopIs
<1>2. Calls = 1 .. l - 1 /\ Calls' = 1 .. l - 2
  BY <1>1 DEF Calls, Pops
<1>3. \A i \in 1 .. l - 2 : i + 1 \in 1 .. l - 1 /\ i \in 1 .. l - 1 /\ i + 1 # 1
  BY <1>1
<1>4. \A i \in 1 .. l - 1 : i # 1 => i - 1 \in 1 .. l - 2 /\ i - 1 \in 1 .. l - 1 /\ (i - 1) + 1 = i
  BY <1>1
<1>5. \A i \in 1 .. l - 1 : stack'[i] = stack[i + 1]
  BY <1>1 DEF Pops
<1> QED BY <1>1, <1>2, <1>3, <1>4, <1>5

LEMMA CallsMoved ==
  ASSUME TypeOK, stack # << >>, NEW n, Moves(n)
  PROVE  /\ Calls' = Calls
         /\ \A i \in Calls : i # 1 => stack'[i] = stack[i]
         /\ \A i \in Calls : i \in Nat
         /\ SameCall(stack'[1], stack[1]) /\ stack'[1].next = n
<1>1. PICK l \in Nat : l = Len(stack)
  BY TopIs
<1>2. Calls = 1 .. l - 1 /\ Calls' = 1 .. l - 1
  BY <1>1 DEF Calls, Moves
<1>3. \A i \in 1 .. l - 1 : i # 1 => i \in 2 .. l
  BY <1>1
<1> QED BY <1>1, <1>2, <1>3 DEF Moves

LEMMA CallsPushed ==
  ASSUME TypeOK, Len(stack) >= 2, stack # << >>, NEW c, NEW n, Pushes(c, n)
  PROVE  /\ 1 \in Calls' /\ stack'[1] = c
         /\ 2 \in Calls' /\ SameCall(stack'[2], stack[1]) /\ stack'[2].next = n
         /\ \A i \in Calls' : i = 1 \/ i = 2 \/
              (i - 1 \in Calls /\ i - 1 # 1 /\ (i - 1) - 1 \in Calls /\ i > 2 /\ stack'[i] = stack[i - 1])
         /\ \A i \in Calls : i # 1 => i + 1 \in Calls' /\ i + 1 # 1 /\ i + 1 # 2 /\ stack'[i + 1] = stack[i]
         /\ 1 \in Calls
         /\ \A i \in Calls : i \in Nat
         /\ \A i \in Calls' : i \in Nat
<1>1. PICK l \in Nat : l = Len(stack) /\ l >= 2
  BY TopIs
<1>2. Calls = 1 .. l - 1 /\ Calls' = 1 .. l
  BY <1>1 DEF Calls, Pushes
<1>3. \A i \in 1 .. l : i = 1 \/ i = 2 \/
        (i - 1 \in 1 .. l - 1 /\ i - 1 # 1 /\ (i - 1) - 1 \in 1 .. l - 1 /\ i > 2 /\ i \in 3 .. l + 1)
  BY <1>1
<1>4. \A i \in 1 .. l - 1 : i # 1 =>
        i + 1 \in 1 .. l /\ i + 1 # 1 /\ i + 1 # 2 /\ i + 1 \in 3 .. l + 1 /\ (i + 1) - 1 = i
  BY <1>1
<1>5. \A i \in 3 .. l + 1 : stack'[i] = stack[i - 1]
  BY <1>1 DEF Pushes
<1>6. 1 \in 1 .. l /\ 2 \in 1 .. l /\ 1 \in 1 .. l - 1
  BY <1>1
<1> QED BY <1>2, <1>3, <1>4, <1>5, <1>6 DEF Pushes

-----------------------------------------------------------------------------
(* What each action does to the stack, and where it is taken.              *)
LEMMA InitReturns ==
  ASSUME Structure, InitAgain \/ InitLocal
  PROVE  /\ Running("init") /\ Process("main") /\ Len(stack) >= 2 /\ stack # << >> /\ 1 \in Calls
         /\ Top = stack[1] /\ stack[1] \in Frame /\ stack[1].fn = "init" /\ Pops
         /\ InitAgain => stack[1].next = 0 /\ stack[1].mod \in initialized
         /\ InitLocal => stack[1].next = Len(imports[stack[1].mod]) + 1
         /\ UNCHANGED <<imports, initialized, exited, ctx, owner, exits>>
<1>1. Running("init") /\ stack' = Tail(stack)
  BY DEF InitAgain, InitLocal
<1>2. /\ Process("main") /\ Len(stack) >= 2 /\ stack # << >> /\ 1 \in Calls
      /\ Top = stack[1] /\ stack[1] \in Frame /\ stack[1].fn = "init"
  BY <1>1, WhichChain DEF Fns
<1>3. Pops
  BY <1>1, <1>2, PopIs DEF Structure
<1> QED BY <1>1, <1>2, <1>3 DEF InitAgain, InitLocal

LEMMA InitBegins ==
  ASSUME Structure, InitFirst
  PROVE  /\ Running("init") /\ Process("main") /\ Len(stack) >= 2 /\ stack # << >> /\ 1 \in Calls
         /\ Top = stack[1] /\ stack[1] \in Frame /\ stack[1].fn = "init" /\ Moves(1)
         /\ stack[1].next = 0 /\ stack[1].mod \notin initialized
         /\ initialized' = initialized \cup {stack[1].mod}
         /\ UNCHANGED <<imports, exited, ctx, owner, inits, exits>>
<1>1. Running("init") /\ stack' = Advance(1)
  BY DEF InitFirst
<1>2. /\ Process("main") /\ Len(stack) >= 2 /\ stack # << >> /\ 1 \in Calls
      /\ Top = stack[1] /\ stack[1] \in Frame /\ stack[1].fn = "init"
  BY <1>1, WhichChain DEF Fns
<1>3. Moves(1)
  BY <1>1, <1>2, MoveIs DEF Structure
<1> QED BY <1>1, <1>2, <1>3 DEF InitFirst

LEMMA InitCalls ==
  ASSUME Structure, InitImport
  PROVE  /\ Running("init") /\ Process("main") /\ Len(stack) >= 2 /\ stack # << >> /\ 1 \in Calls
         /\ Top = stack[1] /\ stack[1] \in Frame /\ stack[1].fn = "init"
         /\ stack[1].next \in DOMAIN imports[stack[1].mod]
         /\ \E dep \in Modules :
              /\ dep = imports[stack[1].mod][stack[1].next]
              /\ Pushes(Call("init", dep, 0), stack[1].next + 1)
              /\ Call("init", dep, 0) \in Frame
              /\ \/ /\ dep \notin System \cup ctx
                    /\ Contexts!Alloc(IF stack[1].mod \in ctx THEN stack[1].mod ELSE NULL, dep)
                    /\ ctx' = ctx \cup {dep}
                 \/ UNCHANGED <<ctx, owner>>
         /\ UNCHANGED <<imports, initialized, exited, inits, exits>>
<1>1. Running("init")
  BY DEF InitImport
<1>2. /\ Process("main") /\ Len(stack) >= 2 /\ stack # << >> /\ 1 \in Calls
      /\ Top = stack[1] /\ stack[1] \in Frame /\ stack[1].fn = "init"
  BY <1>1, WhichChain DEF Fns
<1>3. stack[1].next \in DOMAIN imports[stack[1].mod]
  BY <1>2 DEF InitImport
<1>4. PICK dep \in Modules : dep = imports[stack[1].mod][stack[1].next]
  BY <1>2, <1>3, ImportLists DEF Structure, Frame
<1>5. Call("init", dep, 0) \in Frame /\ stack[1].next + 1 \in Nat
  BY <1>2 DEF Frame, Fns, Call
<1>6. stack' = <<Call("init", dep, 0)>> \o Advance(stack[1].next + 1)
  BY <1>2, <1>4 DEF InitImport
<1>7. Pushes(Call("init", dep, 0), stack[1].next + 1)
  BY <1>2, <1>5, <1>6, PushIs DEF Structure
<1> QED BY <1>1, <1>2, <1>3, <1>4, <1>5, <1>7 DEF InitImport

(* An exit ends at once, or after its imports. *)
LEMMA ExitBegins ==
  ASSUME Structure, ExitLocal
  PROVE  /\ Running("exit") /\ Process("end") /\ Len(stack) >= 2 /\ stack # << >> /\ 1 \in Calls
         /\ Top = stack[1] /\ stack[1] \in Frame /\ stack[1].fn = "exit"
         /\ stack[1].next = 0 /\ stack[1].mod \notin exited
         /\ exited' = exited \cup {stack[1].mod} /\ exits' = Append(exits, stack[1].mod)
         /\ \/ imports[stack[1].mod] = << >> /\ Pops
            \/ \E k \in DOMAIN imports[stack[1].mod] : \E dep \in Modules :
                 /\ k = Len(imports[stack[1].mod]) /\ dep = imports[stack[1].mod][k]
                 /\ Pushes(Call("exit", dep, 0), k) /\ Call("exit", dep, 0) \in Frame
         /\ UNCHANGED <<imports, initialized, ctx, owner, inits>>
<1>1. Running("exit")
  BY DEF ExitLocal
<1>2. /\ Process("end") /\ Len(stack) >= 2 /\ stack # << >> /\ 1 \in Calls
      /\ Top = stack[1] /\ stack[1] \in Frame /\ stack[1].fn = "exit"
  BY <1>1, WhichChain DEF Fns
<1>3. CASE imports[stack[1].mod] = << >>
  <2>1. Pops
    BY <1>2, <1>3, PopIs DEF ExitLocal, Structure
  <2> QED BY <1>1, <1>2, <1>3, <2>1 DEF ExitLocal
<1>4. CASE imports[stack[1].mod] # << >>
  <2>1. PICK k : k = Len(imports[stack[1].mod])
    OBVIOUS
  <2>2. k \in DOMAIN imports[stack[1].mod] /\ k \in Nat
    BY <1>2, <1>4, <2>1, ImportLists DEF Structure, Frame
  <2>3. PICK dep \in Modules : dep = imports[stack[1].mod][k]
    BY <1>2, <2>2, ImportLists DEF Structure, Frame
  <2>4. Call("exit", dep, 0) \in Frame
    BY DEF Frame, Fns, Call
  <2>5. stack' = <<Call("exit", dep, 0)>> \o Advance(k)
    BY <1>2, <1>4, <2>1, <2>3 DEF ExitLocal, Last
  <2>6. Pushes(Call("exit", dep, 0), k)
    BY <1>2, <2>2, <2>4, <2>5, PushIs DEF Structure
  <2> QED BY <1>1, <1>2, <2>1, <2>2, <2>3, <2>4, <2>6 DEF ExitLocal
<1> QED BY <1>3, <1>4

LEMMA ExitReturns ==
  ASSUME Structure, ExitAgain
  PROVE  /\ Running("exit") /\ Process("end") /\ Len(stack) >= 2 /\ stack # << >> /\ 1 \in Calls
         /\ Top = stack[1] /\ stack[1] \in Frame /\ stack[1].fn = "exit" /\ Pops
         /\ stack[1].next = 0 /\ stack[1].mod \in exited
         /\ UNCHANGED <<imports, initialized, exited, ctx, owner, inits, exits>>
<1>1. Running("exit") /\ stack' = Tail(stack)
  BY DEF ExitAgain
<1>2. /\ Process("end") /\ Len(stack) >= 2 /\ stack # << >> /\ 1 \in Calls
      /\ Top = stack[1] /\ stack[1] \in Frame /\ stack[1].fn = "exit"
  BY <1>1, WhichChain DEF Fns
<1>3. Pops
  BY <1>1, <1>2, PopIs DEF Structure
<1> QED BY <1>1, <1>2, <1>3 DEF ExitAgain

(* The context of the import dep goes, if it is there. *)
Drops(dep) ==
  /\ ctx' = ctx \ {dep}
  /\ IF dep \in ctx \ System /\ dep \in Contexts!Live
       THEN Contexts!Free(dep)
       ELSE UNCHANGED owner

LEMMA ExitTurns ==
  ASSUME Structure, ExitImport
  PROVE  /\ Running("exit") /\ Process("end") /\ Len(stack) >= 2 /\ stack # << >> /\ 1 \in Calls
         /\ Top = stack[1] /\ stack[1] \in Frame /\ stack[1].fn = "exit"
         /\ stack[1].next \in DOMAIN imports[stack[1].mod] /\ stack[1].next >= 1
         /\ imports[stack[1].mod][stack[1].next] \in Modules
         /\ Drops(imports[stack[1].mod][stack[1].next])
         /\ \/ stack[1].next = 1 /\ Pops
            \/ \E k \in DOMAIN imports[stack[1].mod] : \E dep \in Modules :
                 /\ k = stack[1].next - 1 /\ k >= 1 /\ dep = imports[stack[1].mod][k]
                 /\ Pushes(Call("exit", dep, 0), k) /\ Call("exit", dep, 0) \in Frame
         /\ UNCHANGED <<imports, initialized, exited, inits, exits>>
<1>1. Running("exit")
  BY DEF ExitImport
<1>2. /\ Process("end") /\ Len(stack) >= 2 /\ stack # << >> /\ 1 \in Calls
      /\ Top = stack[1] /\ stack[1] \in Frame /\ stack[1].fn = "exit"
  BY <1>1, WhichChain DEF Fns
<1>3. /\ stack[1].next \in DOMAIN imports[stack[1].mod] /\ stack[1].next >= 1
      /\ imports[stack[1].mod][stack[1].next] \in Modules
      /\ DOMAIN imports[stack[1].mod] = 1 .. Len(imports[stack[1].mod])
      /\ Len(imports[stack[1].mod]) \in Nat
  BY <1>2, ImportLists DEF ExitImport, Structure, Frame
<1>4. Drops(imports[stack[1].mod][stack[1].next])
  BY <1>2 DEF ExitImport, Drops
<1>5. CASE stack[1].next = 1
  <2>1. Pops
    BY <1>2, <1>5, PopIs DEF ExitImport, Structure
  <2> QED BY <1>1, <1>2, <1>3, <1>4, <1>5, <2>1 DEF ExitImport
<1>6. CASE stack[1].next # 1
  <2>1. PICK k : k = stack[1].next - 1
    OBVIOUS
  <2>2. k \in DOMAIN imports[stack[1].mod] /\ k \in Nat /\ k >= 1
    BY <1>3, <1>6, <2>1
  <2>3. PICK dep \in Modules : dep = imports[stack[1].mod][k]
    BY <1>2, <2>2, ImportLists DEF Structure, Frame
  <2>4. Call("exit", dep, 0) \in Frame
    BY DEF Frame, Fns, Call
  <2>5. stack' = <<Call("exit", dep, 0)>> \o Advance(k)
    BY <1>2, <1>6, <2>1, <2>3 DEF ExitImport
  <2>6. Pushes(Call("exit", dep, 0), k)
    BY <1>2, <2>2, <2>4, <2>5, PushIs DEF Structure
  <2> QED BY <1>1, <1>2, <1>3, <1>4, <2>1, <2>2, <2>3, <2>4, <2>6 DEF ExitImport
<1> QED BY <1>5, <1>6

LEMMA TwoCalls ==
  ASSUME NEW a \in Frame, NEW b \in Frame, stack' = <<a, b>>
  PROVE  /\ stack' \in Seq(Frame) /\ stack' # << >> /\ Calls' = {1} /\ stack'[1] = a
         /\ \A fn : Process(fn)' <=> b.fn = fn
<1>1. stack' \in Seq(Frame) /\ Len(stack') = 2 /\ stack' # << >> /\ stack'[1] = a /\ stack'[2] = b
  OBVIOUS
<1> QED BY <1>1 DEF Calls, Process

LEMMA NoCalls ==
  ASSUME stack' = << >>
  PROVE  stack' \in Seq(Frame) /\ Calls' = {} /\ \A fn : ~Process(fn)'
<1>1. stack' \in Seq(Frame) /\ Len(stack') = 0
  BY EmptySeq
<1> QED BY <1>1 DEF Calls, Process

LEMMA TypeInit == Init => TypeOK
<1> SUFFICES ASSUME Init
             PROVE  TypeOK
  OBVIOUS
<1>1. stack \in Seq(Frame)
  BY MainAssumption DEF Init, Call, Frame, Fns
<1>2. inits \in Seq(Modules) /\ exits \in Seq(Modules)
  BY DEF Init
<1> QED BY <1>1, <1>2 DEF Init, TypeOK, Contexts!TypeOK, Frame, Fns

(* Calls are called from where imports are listed: types are kept.         *)
LEMMA TypeStep == Structure /\ [Next]_vars => TypeOK'
<1> SUFFICES ASSUME Structure, [Next]_vars
             PROVE  TypeOK'
  OBVIOUS
<1> USE MainAssumption, NamesAssumption
<1>0. TypeOK /\ inits \in Seq(Modules) /\ exits \in Seq(Modules)
  BY DEF Structure, TypeOK
<1>1. ASSUME UNCHANGED <<imports, ctx, owner>>, stack' \in Seq(Frame),
             initialized' \subseteq Modules, exited' \subseteq Modules,
             inits' \in Seq(Modules), exits' \in Seq(Modules)
      PROVE  TypeOK'
  BY <1>0, <1>1 DEF TypeOK, Contexts!TypeOK, Frame, Fns
<1>2. ASSUME UNCHANGED <<imports, initialized, exited, inits, exits>>, stack' \in Seq(Frame),
             ctx' \subseteq Modules \ System, owner' \in [Modules -> Modules \cup {NULL, Dead}]
      PROVE  TypeOK'
  BY <1>0, <1>2 DEF TypeOK, Contexts!TypeOK, Frame, Fns
<1>3. \A c, d : d \in Modules /\ Contexts!Alloc(c, d) => owner' \in [Modules -> Modules \cup {NULL, Dead}]
  BY <1>0 DEF TypeOK, Contexts!TypeOK, Contexts!Alloc, Contexts!Owners, Contexts!Live
<1>4. \A d : Contexts!Free(d) => owner' \in [Modules -> Modules \cup {NULL, Dead}]
  BY <1>0 DEF TypeOK, Contexts!TypeOK, Contexts!Free
<1>5. owner \in [Modules -> Modules \cup {NULL, Dead}]
  BY <1>0 DEF TypeOK, Contexts!TypeOK
<1>6. CASE UNCHANGED vars
  BY <1>0, <1>6 DEF vars, TypeOK, Contexts!TypeOK
<1>7. CASE Start
  <2>1. CASE stack' = << >>
    <3>1. UNCHANGED <<imports, initialized, exited, inits, exits, ctx, owner>>
      BY <1>7, <2>1 DEF Start
    <3> QED BY <1>0, <1>1, <2>1, <3>1, NoCalls DEF TypeOK
  <2>2. CASE stack' # << >>
    <3>1. /\ ctx' = ctx \cup {Main} /\ Contexts!Alloc(NULL, Main)
          /\ stack' = <<Call("init", Main, 0), Call("main", Main, 0)>>
          /\ UNCHANGED <<imports, initialized, exited, inits, exits>>
      BY <1>7, <2>2 DEF Start
    <3>2. Call("init", Main, 0) \in Frame /\ Call("main", Main, 0) \in Frame
      BY DEF Call, Frame, Fns
    <3>3. stack' \in Seq(Frame)
      BY <3>1, <3>2, TwoCalls
    <3> QED BY <1>0, <1>2, <1>3, <3>1, <3>3 DEF TypeOK
  <2> QED BY <2>1, <2>2
<1>8. CASE UserMain
  <2>1. Call("exit", Main, 0) \in Frame /\ Call("end", Main, 0) \in Frame
    BY DEF Call, Frame, Fns
  <2>2. stack' \in Seq(Frame)
    BY <1>8, <2>1, TwoCalls DEF UserMain
  <2> QED BY <1>0, <1>1, <1>8, <2>2 DEF UserMain, TypeOK
<1>9. CASE ProcExit
  BY <1>0, <1>1, <1>9, NoCalls DEF ProcExit, TypeOK
<1>10. CASE End
  <2>1. owner' \in [Modules -> Modules \cup {NULL, Dead}]
    BY <1>4, <1>5, <1>10 DEF End
  <2> QED BY <1>0, <1>2, <1>10, <2>1, NoCalls DEF End, TypeOK
<1>11. CASE InitAgain
  BY <1>0, <1>1, <1>11, InitReturns DEF Pops, TypeOK, InitAgain
<1>12. CASE InitLocal
  <2>1. stack[1].mod \in Modules /\ inits' = Append(inits, stack[1].mod)
    BY <1>12, InitReturns DEF Frame, InitLocal
  <2>2. inits' \in Seq(Modules)
    BY <1>0, <2>1, AppendProperties
  <2> QED BY <1>0, <1>1, <1>12, <2>2, InitReturns DEF Pops, TypeOK
<1>13. CASE InitFirst
  BY <1>0, <1>1, <1>13, InitBegins DEF Moves, TypeOK, Frame
<1>14. CASE InitImport
  <2>1. PICK dep \in Modules :
          /\ Pushes(Call("init", dep, 0), stack[1].next + 1)
          /\ \/ /\ dep \notin System \cup ctx
                /\ Contexts!Alloc(IF stack[1].mod \in ctx THEN stack[1].mod ELSE NULL, dep)
                /\ ctx' = ctx \cup {dep}
             \/ UNCHANGED <<ctx, owner>>
    BY <1>14, InitCalls
  <2>2. owner' \in [Modules -> Modules \cup {NULL, Dead}] /\ ctx' \subseteq Modules \ System
    BY <1>0, <1>3, <1>5, <2>1 DEF TypeOK
  <2> QED BY <1>2, <1>14, <2>1, <2>2, InitCalls DEF Pushes
<1>15. CASE ExitAgain
  BY <1>0, <1>1, <1>15, ExitReturns DEF Pops, TypeOK
<1>16. CASE ExitLocal
  <2>1. stack[1].mod \in Modules /\ exits' = Append(exits, stack[1].mod)
    BY <1>16, ExitBegins DEF Frame
  <2>2. exits' \in Seq(Modules)
    BY <1>0, <2>1, AppendProperties
  <2>3. stack' \in Seq(Frame)
    BY <1>16, ExitBegins DEF Pops, Pushes
  <2> QED BY <1>0, <1>1, <1>16, <2>1, <2>2, <2>3, ExitBegins DEF TypeOK
<1>17. CASE ExitImport
  <2>1. stack' \in Seq(Frame)
    BY <1>17, ExitTurns DEF Pops, Pushes
  <2>2. owner' \in [Modules -> Modules \cup {NULL, Dead}] /\ ctx' \subseteq ctx
    BY <1>4, <1>5, <1>17, ExitTurns DEF Drops
  <2> QED BY <1>0, <1>2, <1>17, <2>1, <2>2, ExitTurns DEF TypeOK
<1> QED BY <1>6, <1>7, <1>8, <1>9, <1>10, <1>11, <1>12, <1>13, <1>14, <1>15, <1>16, <1>17 DEF Next

LEMMA ShapeKept ==
  ASSUME Structure, stack # << >>, Len(stack) >= 2, NEW fn,
         \/ Process("main") /\ fn = "init"
         \/ Process("end") /\ fn = "exit",
         stack[1].fn = fn,
         Pops \/ (\E n : Moves(n)) \/ (\E c, n : Pushes(c, n) /\ c.fn = fn)
  PROVE  Shape'
<1>0. TypeOK /\ Shape
  BY DEF Structure
<1>1. \A p : Process(p)' <=> Process(p)
  BY <1>0, SameProcess
<1>2. \A i \in Calls : stack[i].fn = fn
  BY <1>0 DEF Shape, Process
<1>3. \A i \in Calls' : stack'[i].fn = fn
  <2>1. CASE Pops
    BY <1>0, <1>2, <2>1, CallsPopped
  <2>2. ASSUME NEW n, Moves(n)
        PROVE  \A i \in Calls' : stack'[i].fn = fn
    BY <1>0, <1>2, <2>2, CallsMoved DEF SameCall
  <2>3. ASSUME NEW c, NEW n, Pushes(c, n), c.fn = fn
        PROVE  \A i \in Calls' : stack'[i].fn = fn
    BY <1>0, <1>2, <2>3, CallsPushed DEF SameCall
  <2> QED BY <2>1, <2>2, <2>3
<1> QED BY <1>1, <1>3 DEF Shape, Process

LEMMA ChainPopped ==
  ASSUME Structure, stack # << >>, Len(stack) >= 2, Pops, imports' = imports
  PROVE  Chained'
<1>0. TypeOK /\ Chained
  BY DEF Structure
<1>1. ASSUME NEW i \in Calls', NEW j, j = i + 1
      PROVE  j \in Calls /\ j # 1 /\ stack'[i] = stack[j] /\ j - 1 = i
  BY <1>0, <1>1, CallsPopped
<1>2. ASSUME NEW i \in Calls', i # 1
      PROVE  /\ (Import(stack[i]) \in DOMAIN imports[stack[i].mod])'
             /\ (stack[i - 1].mod = imports[stack[i].mod][Import(stack[i])])'
  <2>1. i \in Nat /\ i >= 1
    BY <1>0, CallsPopped
  <2>2. PICK j : j = i + 1
    OBVIOUS
  <2>3. i - 1 \in Calls'
    BY <2>1, <1>2 DEF Calls
  <2>4. stack'[i - 1] = stack[i]
    BY <1>1, <2>1, <2>3
  <2> QED BY <1>0, <1>1, <2>2, <2>4 DEF Chained, Import
<1>3. ASSUME NEW i \in Calls'
      PROVE  /\ (stack[i].next <= Len(imports[stack[i].mod]) + 1)'
             /\ (stack[i].fn = "exit" => stack[i].next <= Len(imports[stack[i].mod]))'
  BY <1>0, <1>1 DEF Chained
<1> QED BY <1>2, <1>3 DEF Chained

LEMMA ChainMoved ==
  ASSUME Structure, stack # << >>, Moves(1), imports' = imports, stack[1].fn = "init",
         stack[1] \in Frame
  PROVE  Chained'
<1>0. TypeOK /\ Chained
  BY DEF Structure
<1>1. /\ Calls' = Calls /\ \A i \in Calls : i # 1 => stack'[i] = stack[i]
      /\ stack'[1].fn = stack[1].fn /\ stack'[1].mod = stack[1].mod /\ stack'[1].next = 1
  BY <1>0, CallsMoved DEF SameCall
<1>2. ASSUME NEW i \in Calls', i # 1
      PROVE  /\ (Import(stack[i]) \in DOMAIN imports[stack[i].mod])'
             /\ (stack[i - 1].mod = imports[stack[i].mod][Import(stack[i])])'
  <2>1. i - 1 \in Calls
    BY <1>0, <1>1, <1>2, TopIs DEF Calls
  <2>2. stack'[i - 1].mod = stack[i - 1].mod
    BY <1>1, <2>1
  <2> QED BY <1>0, <1>1, <1>2, <2>2 DEF Chained, Import
<1>3. ASSUME NEW i \in Calls'
      PROVE  /\ (stack[i].next <= Len(imports[stack[i].mod]) + 1)'
             /\ (stack[i].fn = "exit" => stack[i].next <= Len(imports[stack[i].mod]))'
  <2>1. CASE i # 1
    BY <1>0, <1>1, <2>1 DEF Chained
  <2>2. CASE i = 1
    <3>1. Len(imports[stack[1].mod]) \in Nat
      BY <1>0, ImportLists DEF Frame
    <3> QED BY <1>1, <2>2, <3>1
  <2> QED BY <2>1, <2>2
<1> QED BY <1>2, <1>3 DEF Chained

LEMMA ChainPushed ==
  ASSUME Structure, stack # << >>, Len(stack) >= 2, imports' = imports,
         NEW c \in Frame, NEW n, Pushes(c, n), c.next = 0, stack[1] \in Frame,
         NEW k \in DOMAIN imports[stack[1].mod],
         k = (IF stack[1].fn = "init" THEN n - 1 ELSE n),
         c.mod = imports[stack[1].mod][k], n \in Nat
  PROVE  Chained'
<1>0. TypeOK /\ Chained
  BY DEF Structure
<1>1. /\ stack'[1] = c /\ stack'[2].fn = stack[1].fn /\ stack'[2].mod = stack[1].mod
      /\ stack'[2].next = n
      /\ \A i \in Calls' : i \in Nat
      /\ \A i \in Calls' : i = 1 \/ i = 2 \/
           (i - 1 \in Calls /\ i - 1 # 1 /\ (i - 1) - 1 \in Calls /\ i > 2 /\ stack'[i] = stack[i - 1])
  BY <1>0, CallsPushed DEF SameCall
<1>2. /\ Len(imports[stack[1].mod]) \in Nat /\ DOMAIN imports[stack[1].mod] = 1 .. Len(imports[stack[1].mod])
      /\ Len(imports[c.mod]) \in Nat
  BY <1>0, ImportLists DEF Frame
<1>3. ASSUME NEW i \in Calls', i # 1
      PROVE  /\ (Import(stack[i]) \in DOMAIN imports[stack[i].mod])'
             /\ (stack[i - 1].mod = imports[stack[i].mod][Import(stack[i])])'
  <2>1. CASE i = 2
    <3>1. stack'[i - 1].mod = c.mod
      BY <1>1, <2>1
    <3> QED BY <1>1, <2>1, <3>1 DEF Import
  <2>2. CASE i # 2
    <3>1. PICK j : j = i - 1
      OBVIOUS
    <3>2. j \in Calls /\ j # 1 /\ j - 1 \in Calls /\ i > 2 /\ i \in Nat /\ stack'[i] = stack[j]
      BY <1>1, <1>3, <2>2, <3>1
    <3>3. stack'[i - 1].mod = stack[j - 1].mod
      <4>1. CASE i = 3
        BY <1>1, <3>1, <4>1
      <4>2. CASE i # 3
        <5>1. j \in Calls' /\ j # 1 /\ j # 2
          BY <1>3, <3>1, <3>2, <4>2 DEF Calls
        <5> QED BY <1>1, <3>1, <5>1
      <4> QED BY <4>1, <4>2
    <3> QED BY <1>0, <3>2, <3>3 DEF Chained, Import
  <2> QED BY <2>1, <2>2
<1>4. ASSUME NEW i \in Calls'
      PROVE  /\ (stack[i].next <= Len(imports[stack[i].mod]) + 1)'
             /\ (stack[i].fn = "exit" => stack[i].next <= Len(imports[stack[i].mod]))'
  <2>1. CASE i = 1
    BY <1>1, <1>2, <2>1
  <2>2. CASE i = 2
    BY <1>1, <1>2, <2>2
  <2>3. CASE i # 1 /\ i # 2
    <3>1. PICK j \in Calls : stack'[i] = stack[j]
      BY <1>1, <1>4, <2>3
    <3> QED BY <1>0, <3>1 DEF Chained
  <2> QED BY <2>1, <2>2, <2>3
<1> QED BY <1>3, <1>4 DEF Chained

(* Below every call is one that makes it.                                  *)
LEMMA StructureStep == Structure /\ [Next]_vars => Structure'
<1> SUFFICES ASSUME Structure, [Next]_vars
             PROVE  Shape' /\ Chained'
  BY TypeStep DEF Structure
<1> USE MainAssumption
<1>0. TypeOK
  BY DEF Structure
<1>1. CASE UNCHANGED vars
  BY <1>1 DEF vars, Structure, Shape, Chained, Process, Calls, Import
<1>2. ASSUME NEW a \in Frame, NEW b \in Frame, stack' = <<a, b>>, imports' = imports,
             \/ a.fn = "init" /\ b.fn = "main"
             \/ a.fn = "exit" /\ b.fn = "end",
             a.next = 0
      PROVE  Shape' /\ Chained'
  <2>1. stack' # << >> /\ Calls' = {1} /\ stack'[1] = a /\ \A fn : Process(fn)' <=> b.fn = fn
    BY <1>2, TwoCalls
  <2>2. Len(imports[a.mod]) \in Nat
    BY <1>0, ImportLists DEF Frame
  <2> QED BY <1>2, <2>1, <2>2 DEF Shape, Chained
<1>3. CASE stack' = << >>
  BY <1>3, NoCalls DEF Shape, Chained
<1>4. CASE Start
  <2>1. Call("init", Main, 0) \in Frame /\ Call("main", Main, 0) \in Frame
    BY DEF Call, Frame, Fns
  <2> QED BY <1>2, <1>3, <1>4, <2>1 DEF Start, Call
<1>5. CASE UserMain
  <2>1. Call("exit", Main, 0) \in Frame /\ Call("end", Main, 0) \in Frame
    BY DEF Call, Frame, Fns
  <2> QED BY <1>2, <1>5, <2>1 DEF UserMain, Call
<1>6. CASE ProcExit \/ End
  BY <1>3, <1>6 DEF ProcExit, End
<1>7. CASE InitAgain \/ InitLocal
  BY <1>7, InitReturns, ShapeKept, ChainPopped
<1>8. CASE InitFirst
  BY <1>8, InitBegins, ShapeKept, ChainMoved
<1>9. CASE InitImport
  <2>1. PICK dep \in Modules :
          /\ dep = imports[stack[1].mod][stack[1].next]
          /\ Pushes(Call("init", dep, 0), stack[1].next + 1)
          /\ Call("init", dep, 0) \in Frame
    BY <1>9, InitCalls
  <2>2. PICK n \in Nat : n = stack[1].next + 1 /\ stack[1].next = n - 1
    BY <1>9, InitCalls DEF Frame
  <2>3. PICK c \in Frame : c = Call("init", dep, 0) /\ c.mod = dep /\ c.next = 0 /\ c.fn = "init"
    BY <2>1 DEF Call
  <2> QED BY <1>9, <2>1, <2>2, <2>3, InitCalls, ShapeKept, ChainPushed
<1>10. CASE ExitAgain
  BY <1>10, ExitReturns, ShapeKept, ChainPopped
<1>11. ASSUME Len(stack) >= 2, stack # << >>, Process("end"), stack[1] \in Frame, stack[1].fn = "exit",
              imports' = imports,
              NEW k \in DOMAIN imports[stack[1].mod], NEW dep \in Modules,
              dep = imports[stack[1].mod][k], Pushes(Call("exit", dep, 0), k),
              Call("exit", dep, 0) \in Frame
       PROVE  Shape' /\ Chained'
  <2>1. PICK c \in Frame : c = Call("exit", dep, 0) /\ c.mod = dep /\ c.next = 0 /\ c.fn = "exit"
    BY <1>11 DEF Call
  <2>2. k \in Nat
    BY <1>0, <1>11, ImportLists DEF Frame
  <2> QED BY <1>11, <2>1, <2>2, ShapeKept, ChainPushed
<1>12. CASE ExitLocal
  <2>1. CASE Pops
    BY <1>12, <2>1, ExitBegins, ShapeKept, ChainPopped
  <2> QED BY <1>11, <1>12, <2>1, ExitBegins
<1>13. CASE ExitImport
  <2>1. CASE Pops
    BY <1>13, <2>1, ExitTurns, ShapeKept, ChainPopped
  <2> QED BY <1>11, <1>13, <2>1, ExitTurns
<1> QED BY <1>1, <1>4, <1>5, <1>6, <1>7, <1>8, <1>9, <1>10, <1>12, <1>13 DEF Next

LEMMA StructureInit == Init => Structure
<1> SUFFICES ASSUME Init
             PROVE  Shape /\ Chained
  BY TypeInit DEF Structure
<1>1. stack # << >> /\ Len(stack) = 1 /\ stack[1].fn = "start"
  BY DEF Init, Call
<1> QED BY <1>1 DEF Shape, Chained, Process, Calls

(* Every flag, list, context and call is of the kind the code gives it.    *)
THEOREM LifecycleTypeCorrect == Spec => []TypeOK
<1>1. Structure => TypeOK
  BY DEF Structure
<1> QED BY <1>1, StructureInit, StructureStep, PTL DEF Spec

-----------------------------------------------------------------------------
(* The modules whose calls are open, below the call on top.                *)
Below1 == {stack[i].mod : i \in Calls \ {1}}

LEMMA OpenBelow ==
  ASSUME Structure
  PROVE  /\ \A i \in Calls : i # 1 => Open(i)
         /\ \A i \in Calls : i # 1 /\ stack[i].fn = "init" => stack[i].next >= 2
         /\ \A i \in Calls : stack[i].mod \in Modules /\ stack[i].next \in Nat
         /\ 1 \in Calls /\ Open(1) => OpenMods = Below1 \cup {stack[1].mod} /\ Called = {}
         /\ 1 \in Calls /\ ~Open(1) => OpenMods = Below1 /\ Called = {stack[1].mod}
         /\ Calls = {} => OpenMods = {} /\ Called = {}
<1>0. TypeOK /\ Chained
  BY DEF Structure
<1>1. \A i \in Calls : stack[i].mod \in Modules /\ stack[i].next \in Nat
  <2> SUFFICES ASSUME NEW i \in Calls
               PROVE  stack[i].mod \in Modules /\ stack[i].next \in Nat
    OBVIOUS
  <2>1. stack \in Seq(Frame)
    BY <1>0 DEF TypeOK, Frame, Fns
  <2>2. i \in 1 .. Len(stack)
    BY <2>1, LenProperties DEF Calls
  <2>3. stack[i] \in Frame
    BY <2>1, <2>2, ElementOfSeq
  <2> QED BY <2>3 DEF Frame
<1>2. ASSUME NEW i \in Calls, i # 1
      PROVE  stack[i].next >= 1 /\ (stack[i].fn = "init" => stack[i].next >= 2)
  <2>1. PICK k \in Nat : k = Import(stack[i]) /\ k >= 1
    BY <1>0, <1>1, <1>2, ImportLists DEF Chained
  <2> QED BY <1>1, <2>1 DEF Import
<1>3. \A i \in Calls : i # 1 => Open(i)
  BY <1>2 DEF Open
<1>4. 1 \in Calls /\ Open(1) => OpenMods = Below1 \cup {stack[1].mod} /\ Called = {}
  BY <1>3 DEF OpenMods, Below1, Called
<1>5. 1 \in Calls /\ ~Open(1) => OpenMods = Below1 /\ Called = {stack[1].mod}
  BY <1>3 DEF OpenMods, Below1, Called
<1>6. Calls = {} => OpenMods = {} /\ Called = {}
  BY DEF OpenMods, Called
<1> QED BY <1>1, <1>2, <1>3, <1>4, <1>5, <1>6

LEMMA OpenPopped ==
  ASSUME Structure, Structure', Len(stack) >= 2, stack # << >>, Pops
  PROVE  OpenMods' = Below1 /\ Called' = {}
<1>0. TypeOK
  BY DEF Structure
<1>1. /\ \A i \in Calls' : i + 1 \in Calls /\ i + 1 # 1 /\ stack'[i] = stack[i + 1]
      /\ \A i \in Calls : i # 1 => i - 1 \in Calls' /\ stack'[i - 1] = stack[i]
  BY <1>0, CallsPopped
<1>2. \A i \in Calls : i # 1 => stack[i].next >= 1
  BY OpenBelow DEF Open
<1>3. \A i \in Calls' : stack'[i].next >= 1
  BY <1>1, <1>2
<1>4. Called' = {}
  BY <1>3 DEF Called, Open
<1>5. OpenMods' = {stack'[i].mod : i \in Calls'}
  BY <1>3 DEF OpenMods, Open
<1> QED BY <1>1, <1>4, <1>5 DEF Below1

LEMMA OpenMoved ==
  ASSUME Structure, 1 \in Calls, stack # << >>, NEW n \in Nat, n >= 1, Moves(n)
  PROVE  OpenMods' = Below1 \cup {stack[1].mod} /\ Called' = {}
<1>0. TypeOK
  BY DEF Structure
<1>1. /\ Calls' = Calls /\ \A i \in Calls : i # 1 => stack'[i] = stack[i]
      /\ stack'[1].mod = stack[1].mod /\ stack'[1].next = n
  BY <1>0, CallsMoved DEF SameCall
<1>2. \A i \in Calls : stack'[i].next >= 1 /\ stack'[i].mod = stack[i].mod
  BY <1>1, OpenBelow DEF Open
<1>3. OpenMods' = {stack[i].mod : i \in Calls}
  BY <1>1, <1>2 DEF OpenMods, Open
<1> QED BY <1>1, <1>2, <1>3 DEF Below1, Called, Open

LEMMA OpenPushed ==
  ASSUME Structure, Len(stack) >= 2, stack # << >>, NEW n \in Nat, n >= 1,
         NEW c, Pushes(c, n), c.next = 0
  PROVE  OpenMods' = Below1 \cup {stack[1].mod} /\ Called' = {c.mod}
<1>0. TypeOK
  BY DEF Structure
<1>1. /\ 1 \in Calls' /\ stack'[1] = c
      /\ 2 \in Calls' /\ stack'[2].mod = stack[1].mod /\ stack'[2].next = n
      /\ \A i \in Calls' : i = 1 \/ i = 2 \/
           (i - 1 \in Calls /\ i - 1 # 1 /\ (i - 1) - 1 \in Calls /\ i > 2 /\ stack'[i] = stack[i - 1])
      /\ \A i \in Calls : i # 1 => i + 1 \in Calls' /\ i + 1 # 1 /\ i + 1 # 2 /\ stack'[i + 1] = stack[i]
  BY <1>0, CallsPushed DEF SameCall
<1>2. \A i \in Calls' : i # 1 => stack'[i].next >= 1
  BY <1>1, OpenBelow DEF Open
<1>3. ~(stack'[1].next >= 1)
  BY <1>1
<1>4. Called' = {c.mod}
  BY <1>1, <1>3 DEF Called, Open
<1>5. OpenMods' = {stack'[i].mod : i \in Calls' \ {1}}
  BY <1>2, <1>3 DEF OpenMods, Open
<1>6. \A i \in Calls' \ {1} : stack'[i].mod \in Below1 \cup {stack[1].mod}
  BY <1>1 DEF Below1
<1>7. \A m \in Below1 \cup {stack[1].mod} : \E i \in Calls' \ {1} : m = stack'[i].mod
  BY <1>1 DEF Below1
<1> QED BY <1>4, <1>5, <1>6, <1>7

-----------------------------------------------------------------------------
LEMMA InitsReturn ==
  ASSUME Structure, Structure', Inits, InitAgain \/ InitLocal
  PROVE  Inits'
<1>0. TypeOK /\ inits \in Seq(Modules)
  BY DEF Structure, TypeOK
<1>1. /\ Process("main") /\ Len(stack) >= 2 /\ stack # << >> /\ 1 \in Calls
      /\ stack[1] \in Frame /\ stack[1].fn = "init" /\ Pops
      /\ imports' = imports /\ initialized' = initialized
  BY InitReturns
<1> PICK m \in Modules : m = stack[1].mod
  BY <1>1 DEF Frame
<1>2. Process("main")' /\ ~Process("start")' /\ ~Process("end")'
  BY <1>0, <1>1, SameProcess DEF Process
<1>3. /\ \A i \in Calls' : i + 1 \in Calls /\ i + 1 # 1 /\ stack'[i] = stack[i + 1]
      /\ \A i \in Calls' : i \in Nat
  BY <1>0, <1>1, CallsPopped
<1>4. OpenMods' = Below1 /\ Called' = {}
  BY <1>1, OpenPopped
<1>5. /\ \A i, j \in Calls : Open(i) /\ Open(j) /\ stack[i].mod = stack[j].mod => i = j
      /\ initialized = ToSet(inits) \cup OpenMods
      /\ ToSet(inits) \cap OpenMods = {}
      /\ \A i \in Calls : \A k \in DOMAIN imports[stack[i].mod] :
           k < stack[i].next => imports[stack[i].mod][k] \in initialized \cup Called
      /\ Main \in initialized \cup Called
      /\ IsInjective(inits) /\ ToSet(inits) \subseteq initialized
      /\ \A d \in ToSet(inits) : Imports(d) \subseteq initialized
  BY <1>1 DEF Inits
<1>6. \A i, j \in Calls' : (Open(i))' /\ (Open(j))' /\ stack'[i].mod = stack'[j].mod => i = j
  <2> SUFFICES ASSUME NEW i \in Calls', NEW j \in Calls', stack'[i].mod = stack'[j].mod
               PROVE  i = j
    OBVIOUS
  <2>1. i + 1 = j + 1
    BY <1>3, <1>5, OpenBelow
  <2> QED BY <1>3, <2>1
<1>7. Called \subseteq initialized /\ IsInjective(inits') /\ initialized = ToSet(inits') \cup Below1
        /\ ToSet(inits') \cap Below1 = {} /\ \A d \in ToSet(inits') : Imports(d) \subseteq initialized
  <2>1. CASE InitAgain
    <3>1. ~Open(1) /\ m \in initialized /\ inits' = inits
      BY <1>1, <2>1, InitReturns DEF Open, InitAgain
    <3>2. OpenMods = Below1 /\ Called = {m}
      BY <1>1, <3>1, OpenBelow
    <3> QED BY <1>5, <3>1, <3>2
  <2>2. CASE InitLocal
    <3>1. stack[1].next = Len(imports[m]) + 1 /\ inits' = Append(inits, m)
      BY <1>1, <2>2, InitReturns DEF InitLocal
    <3>2. Len(imports[m]) \in Nat /\ DOMAIN imports[m] = 1 .. Len(imports[m])
      BY <1>0, ImportLists
    <3>3. Open(1)
      BY <3>1, <3>2 DEF Open
    <3>4. OpenMods = Below1 \cup {m} /\ Called = {}
      BY <1>1, <3>3, OpenBelow
    <3>5. m \notin ToSet(inits)
      BY <1>5, <3>4
    <3>6. m \notin Below1
      <4>1. \A i \in Calls \ {1} : stack[i].mod # m
        BY <1>1, <1>5, <3>3, OpenBelow
      <4> QED BY <4>1 DEF Below1
    <3>7. IsInjective(inits') /\ ToSet(inits') = ToSet(inits) \cup {m}
      BY <1>0, <1>5, <3>1, <3>5, AppendNew
    <3>8. Imports(m) \subseteq initialized
      <4>1. \A k \in DOMAIN imports[m] : k < stack[1].next
        BY <3>1, <3>2
      <4>2. \A k \in DOMAIN imports[m] : imports[m][k] \in initialized
        BY <1>1, <1>5, <3>4, <4>1
      <4> QED BY <4>2 DEF Imports, ToSet
    <3> QED BY <1>5, <3>4, <3>5, <3>6, <3>7, <3>8
  <2> QED BY <2>1, <2>2
<1>8. ASSUME NEW i \in Calls', NEW d, d = stack'[i].mod, NEW k \in DOMAIN imports[d],
             k < stack'[i].next
      PROVE  imports[d][k] \in initialized
  <2>1. PICK j \in Calls : stack'[i] = stack[j]
    BY <1>3
  <2> QED BY <1>5, <1>7, <1>8, <2>1
<1>9. \A i \in Calls' : \A k \in DOMAIN (imports[stack[i].mod])' :
        k < stack'[i].next => (imports[stack[i].mod])'[k] \in initialized'
  BY <1>1, <1>8
<1>10. \A d \in ToSet(inits') : (Imports(d))' \subseteq initialized'
  BY <1>1, <1>7 DEF Imports
<1> QED BY <1>1, <1>2, <1>4, <1>5, <1>6, <1>7, <1>9, <1>10 DEF Inits

LEMMA InitsBegin ==
  ASSUME Structure, Structure', Inits, InitFirst
  PROVE  Inits'
<1>0. TypeOK
  BY DEF Structure
<1>1. /\ Process("main") /\ Len(stack) >= 2 /\ stack # << >> /\ 1 \in Calls
      /\ stack[1] \in Frame /\ stack[1].fn = "init" /\ Moves(1)
      /\ stack[1].next = 0 /\ stack[1].mod \notin initialized
      /\ initialized' = initialized \cup {stack[1].mod}
      /\ imports' = imports /\ inits' = inits
  BY InitBegins
<1> PICK m \in Modules : m = stack[1].mod
  BY <1>1 DEF Frame
<1>2. Process("main")' /\ ~Process("start")' /\ ~Process("end")'
  BY <1>0, <1>1, SameProcess DEF Process
<1>3. /\ Calls' = Calls /\ \A i \in Calls : i # 1 => stack'[i] = stack[i]
      /\ stack'[1].mod = m /\ stack'[1].next = 1
  BY <1>0, <1>1, CallsMoved DEF SameCall
<1>4. /\ OpenMods' = Below1 \cup {m} /\ Called' = {}
      /\ OpenMods = Below1 /\ Called = {m}
  BY <1>1, OpenMoved, OpenBelow DEF Open
<1>5. /\ \A i, j \in Calls : Open(i) /\ Open(j) /\ stack[i].mod = stack[j].mod => i = j
      /\ initialized = ToSet(inits) \cup OpenMods
      /\ ToSet(inits) \cap OpenMods = {}
      /\ \A i \in Calls : \A k \in DOMAIN imports[stack[i].mod] :
           k < stack[i].next => imports[stack[i].mod][k] \in initialized \cup Called
      /\ Main \in initialized \cup Called
      /\ IsInjective(inits) /\ ToSet(inits) \subseteq initialized
      /\ \A d \in ToSet(inits) : Imports(d) \subseteq initialized
  BY <1>1 DEF Inits
<1>6. \A i, j \in Calls' : (Open(i))' /\ (Open(j))' /\ stack'[i].mod = stack'[j].mod => i = j
  <2>1. \A i \in Calls \ {1} : stack[i].mod # m
    BY <1>1, <1>4, <1>5 DEF Below1
  <2> QED BY <1>3, <1>5, <2>1, OpenBelow
<1>7. ASSUME NEW i \in Calls', NEW d, d = stack'[i].mod, NEW k \in DOMAIN imports[d],
             k < stack'[i].next
      PROVE  imports[d][k] \in initialized'
  <2>1. CASE i = 1
    <3>1. DOMAIN imports[m] = 1 .. Len(imports[m])
      BY <1>0, ImportLists
    <3>2. d = m /\ k < 1
      BY <1>3, <1>7, <2>1
    <3> QED BY <3>1, <3>2, <1>7
  <2>2. CASE i # 1
    BY <1>1, <1>3, <1>4, <1>5, <1>7, <2>2
  <2> QED BY <2>1, <2>2
<1>8. \A i \in Calls' : \A k \in DOMAIN (imports[stack[i].mod])' :
        k < stack'[i].next => (imports[stack[i].mod])'[k] \in initialized'
  BY <1>1, <1>7
<1>9. \A d \in ToSet(inits') : (Imports(d))' \subseteq initialized'
  BY <1>1, <1>5 DEF Imports
<1>10. /\ initialized' = ToSet(inits') \cup OpenMods' /\ ToSet(inits') \cap OpenMods' = {}
       /\ Main \in initialized' /\ ToSet(inits') \subseteq initialized' /\ IsInjective(inits')
  BY <1>1, <1>4, <1>5
<1> QED BY <1>2, <1>4, <1>6, <1>8, <1>9, <1>10 DEF Inits

LEMMA InitsCall ==
  ASSUME Structure, Structure', Inits, InitImport
  PROVE  Inits'
<1>0. TypeOK
  BY DEF Structure
<1>1. /\ Process("main") /\ Len(stack) >= 2 /\ stack # << >> /\ 1 \in Calls
      /\ stack[1] \in Frame /\ stack[1].fn = "init"
      /\ stack[1].next \in DOMAIN imports[stack[1].mod]
      /\ initialized' = initialized /\ imports' = imports /\ inits' = inits
  BY InitCalls
<1> PICK m \in Modules : m = stack[1].mod
  BY <1>1 DEF Frame
<1> PICK n : n = stack[1].next
  OBVIOUS
<1>2. n \in Nat /\ n >= 1 /\ Open(1) /\ n \in DOMAIN imports[m] /\ DOMAIN imports[m] \subseteq Nat
  BY <1>0, <1>1, ImportLists DEF Open
<1> PICK dep \in Modules : dep = imports[m][n] /\ Pushes(Call("init", dep, 0), n + 1)
  BY InitCalls
<1>3. PICK c : /\ dep = imports[m][n] /\ c = Call("init", dep, 0)
               /\ Pushes(c, n + 1) /\ c.next = 0 /\ c.mod = dep
  BY DEF Call
<1>4. Process("main")' /\ ~Process("start")' /\ ~Process("end")'
  BY <1>0, <1>1, <1>3, SameProcess DEF Process
<1>5. /\ stack'[1] = c /\ stack'[2].mod = m /\ stack'[2].next = n + 1
      /\ \A i \in Calls' : i \in Nat
      /\ \A i \in Calls' : i = 1 \/ i = 2 \/
           (i - 1 \in Calls /\ i - 1 # 1 /\ i > 2 /\ stack'[i] = stack[i - 1])
  BY <1>0, <1>1, <1>3, CallsPushed DEF SameCall
<1>6. /\ OpenMods' = Below1 \cup {m} /\ Called' = {dep}
      /\ OpenMods = Below1 \cup {m} /\ Called = {}
  <2>1. n + 1 \in Nat /\ n + 1 >= 1
    BY <1>2
  <2> QED BY <1>1, <1>2, <1>3, <2>1, OpenPushed, OpenBelow
<1>7. /\ \A i, j \in Calls : Open(i) /\ Open(j) /\ stack[i].mod = stack[j].mod => i = j
      /\ initialized = ToSet(inits) \cup OpenMods
      /\ ToSet(inits) \cap OpenMods = {}
      /\ \A i \in Calls : \A k \in DOMAIN imports[stack[i].mod] :
           k < stack[i].next => imports[stack[i].mod][k] \in initialized \cup Called
      /\ Main \in initialized \cup Called
      /\ IsInjective(inits) /\ ToSet(inits) \subseteq initialized
      /\ \A d \in ToSet(inits) : Imports(d) \subseteq initialized
  BY <1>1 DEF Inits
<1>8. ASSUME NEW i \in Calls', i # 1, NEW j \in Calls', j # 1, stack'[i].mod = stack'[j].mod
      PROVE  i = j
  <2>1. \A x \in Calls' : x # 1 => x - 1 \in Calls /\ stack'[x].mod = stack[x - 1].mod /\ Open(x - 1)
    <3> SUFFICES ASSUME NEW x \in Calls', x # 1
                 PROVE  x - 1 \in Calls /\ stack'[x].mod = stack[x - 1].mod /\ Open(x - 1)
      OBVIOUS
    <3>1. CASE x = 2
      BY <1>1, <1>2, <1>5, <3>1
    <3>2. CASE x # 2
      BY <1>5, <3>2, OpenBelow
    <3> QED BY <3>1, <3>2
  <2>2. i - 1 = j - 1
    BY <1>7, <1>8, <2>1
  <2> QED BY <1>5, <2>2
<1>9. \A i, j \in Calls' : (Open(i))' /\ (Open(j))' /\ stack'[i].mod = stack'[j].mod => i = j
  BY <1>3, <1>5, <1>8, SMTT(30) DEF Open
<1>10. ASSUME NEW i \in Calls', NEW d, d = stack'[i].mod, NEW k \in DOMAIN imports[d],
              k < stack'[i].next
       PROVE  imports[d][k] \in initialized \cup {dep}
  <2>1. CASE i = 1
    <3>1. d = dep /\ dep \in Modules /\ k < 0
      BY <1>0, <1>2, <1>3, <1>5, <1>10, <2>1, ImportLists
    <3>2. k \in Nat
      BY <1>0, <1>10, <3>1, ImportLists
    <3> QED BY <3>1, <3>2
  <2>2. CASE i = 2
    <3>1. d = m /\ k < n + 1 /\ k \in Nat
      BY <1>2, <1>5, <1>10, <2>2
    <3>2. k < n \/ k = n
      BY <1>2, <3>1
    <3> QED BY <1>1, <1>3, <1>6, <1>7, <1>10, <3>1, <3>2
  <2>3. CASE i # 1 /\ i # 2
    <3>1. PICK j \in Calls : stack'[i] = stack[j]
      BY <1>5, <2>3
    <3> QED BY <1>6, <1>7, <1>10, <3>1
  <2> QED BY <2>1, <2>2, <2>3
<1>11. \A i \in Calls' : \A k \in DOMAIN (imports[stack[i].mod])' :
         k < stack'[i].next => (imports[stack[i].mod])'[k] \in initialized' \cup Called'
  BY <1>1, <1>6, <1>10
<1>12. \A d \in ToSet(inits') : (Imports(d))' \subseteq initialized'
  BY <1>1, <1>7 DEF Imports
<1>13. /\ initialized' = ToSet(inits') \cup OpenMods' /\ ToSet(inits') \cap OpenMods' = {}
       /\ Main \in initialized' /\ ToSet(inits') \subseteq initialized' /\ IsInjective(inits')
  BY <1>1, <1>6, <1>7
<1> QED BY <1>4, <1>6, <1>9, <1>11, <1>12, <1>13 DEF Inits

(* What the calls of the process change, and that exits leave inits alone. *)
LEMMA ProcessSteps ==
  ASSUME Structure, Start \/ UserMain \/ ProcExit \/ End
  PROVE  /\ UNCHANGED <<imports, initialized, exited, inits, exits>>
         /\ stack # << >> /\ Calls = {} /\ Len(stack) = 1
         /\ Start => Process("start")
         /\ UserMain => Process("main")
         /\ ProcExit => Process("main")
         /\ End => Process("end")
         /\ \A i \in Calls' : i = 1 /\ stack'[1].mod = Main /\ stack'[1].next = 0
         /\ OpenMods' = {}
         /\ Start => (Process("main"))' \/ stack' = << >>
         /\ UserMain => (Process("end"))' /\ 1 \in Calls' /\ Called' = {Main}
         /\ Start /\ stack' # << >> => 1 \in Calls' /\ Called' = {Main}
         /\ ProcExit \/ End => stack' = << >>
         /\ (Process("main"))' => Start
         /\ (Process("end"))' => UserMain
         /\ ~(Process("start"))'
<1> USE MainAssumption
<1>1. /\ UNCHANGED <<imports, initialized, exited, inits, exits>>
      /\ stack # << >> /\ Calls = {} /\ Len(stack) = 1
      /\ Start => Process("start")
      /\ UserMain => Process("main")
      /\ ProcExit => Process("main")
      /\ End => Process("end")
  BY WhichChain DEF Start, UserMain, ProcExit, End, Fns
<1>2. CASE stack' = << >>
  <2>1. ~UserMain
    BY <1>2 DEF UserMain
  <2> QED BY <1>1, <1>2, <2>1, NoCalls DEF OpenMods
<1>3. ASSUME NEW fn \in {"init", "exit"}, NEW p \in {"main", "end"},
             stack' = <<Call(fn, Main, 0), Call(p, Main, 0)>>
      PROVE  /\ Calls' = {1} /\ stack'[1].mod = Main /\ stack'[1].next = 0
             /\ OpenMods' = {} /\ Called' = {Main} /\ stack' # << >>
             /\ \A q : Process(q)' <=> p = q
  <2>1. Call(fn, Main, 0) \in Frame /\ Call(p, Main, 0) \in Frame /\ Call(p, Main, 0).fn = p
        /\ Call(fn, Main, 0).mod = Main /\ Call(fn, Main, 0).next = 0
    BY DEF Call, Frame, Fns
  <2>2. /\ Calls' = {1} /\ stack'[1] = Call(fn, Main, 0) /\ stack' # << >>
        /\ \A q : Process(q)' <=> p = q
    BY <1>3, <2>1, TwoCalls
  <2>3. OpenMods' = {} /\ Called' = {Main}
    BY <2>1, <2>2 DEF OpenMods, Called, Open
  <2> QED BY <2>1, <2>2, <2>3
<1>4. CASE Start /\ stack' # << >>
  <2>1. stack' = <<Call("init", Main, 0), Call("main", Main, 0)>>
    BY <1>4 DEF Start
  <2>2. ~UserMain /\ ~ProcExit /\ ~End
    BY <1>4 DEF Start, UserMain, ProcExit, End, Running
  <2> QED BY <1>1, <1>3, <1>4, <2>1, <2>2
<1>5. CASE UserMain
  <2>1. stack' = <<Call("exit", Main, 0), Call("end", Main, 0)>>
    BY <1>5 DEF UserMain
  <2>2. ~Start /\ ~ProcExit /\ ~End
    <3>1. stack' # << >>
      BY <1>3, <2>1
    <3> QED BY <3>1, <1>5 DEF Start, UserMain, ProcExit, End, Running
  <2> QED BY <1>1, <1>3, <1>5, <2>1, <2>2
<1> QED BY <1>2, <1>4, <1>5 DEF ProcExit, End

LEMMA ExitStep ==
  ASSUME Structure, ExitAgain \/ ExitLocal \/ ExitImport
  PROVE  /\ UNCHANGED <<imports, initialized, inits>>
         /\ stack # << >> /\ \A fn : Process(fn)' <=> Process(fn)
         /\ Process("end") /\ ~Process("main") /\ ~Process("start")
<1>1. /\ UNCHANGED <<imports, initialized, inits>>
      /\ Process("end") /\ Len(stack) >= 2 /\ stack # << >>
      /\ Pops \/ \E c, n : Pushes(c, n)
  BY ExitReturns, ExitBegins, ExitTurns
<1>2. stack # << >> /\ \A fn : Process(fn)' <=> Process(fn)
  BY <1>1, SameProcess DEF Structure
<1> QED BY <1>1, <1>2 DEF Process

(* Inits run once, and every module that is initialized gets to its own.   *)
LEMMA InitsStep ==
  ASSUME Structure, Structure', Inits, [Next]_vars
  PROVE  Inits'
<1>1. CASE UNCHANGED vars
  BY <1>1 DEF vars, Inits, Process, Calls, Open, OpenMods, Called, Imports
<1>2. CASE Start \/ UserMain \/ ProcExit \/ End
  <2>1. UNCHANGED <<imports, initialized, inits>>
    BY <1>2, ProcessSteps
  <2>2. /\ IsInjective(inits') /\ ToSet(inits') \subseteq initialized'
        /\ \A m \in ToSet(inits') : (Imports(m))' \subseteq initialized'
    BY <2>1 DEF Inits, Imports
  <2>3. (Process("main"))' =>
          /\ \A i, j \in Calls' : i = j
          /\ initialized' = ToSet(inits') \cup OpenMods'
          /\ ToSet(inits') \cap OpenMods' = {}
          /\ Main \in initialized' \cup Called'
    <3> SUFFICES ASSUME (Process("main"))'
                 PROVE  /\ \A i, j \in Calls' : i = j
                        /\ initialized' = ToSet(inits') \cup OpenMods'
                        /\ ToSet(inits') \cap OpenMods' = {}
                        /\ Main \in initialized' \cup Called'
      OBVIOUS
    <3>1. Start /\ initialized = {} /\ stack' # << >>
      BY <1>2, ProcessSteps DEF Inits, Process
    <3> QED BY <1>2, <2>1, <3>1, ProcessSteps DEF Inits
  <2>4. ASSUME (Process("main"))', NEW i \in Calls', NEW m, m = stack'[i].mod,
               NEW k \in DOMAIN imports[m], k < stack'[i].next
        PROVE  FALSE
    <3>1. m = Main /\ k < 0
      BY <1>2, <2>4, ProcessSteps
    <3>2. k \in Nat
      BY <2>4, <3>1, MainAssumption, ImportLists DEF Structure
    <3> QED BY <3>1, <3>2
  <2>5. (Process("end"))' => ToSet(inits') = initialized' /\ Main \in initialized'
    <3> SUFFICES ASSUME (Process("end"))'
                 PROVE  ToSet(inits') = initialized' /\ Main \in initialized'
      OBVIOUS
    <3>1. Process("main") /\ Calls = {}
      BY <1>2, ProcessSteps
    <3>2. OpenMods = {} /\ Called = {}
      BY <3>1, OpenBelow
    <3> QED BY <2>1, <3>1, <3>2 DEF Inits
  <2>6. \A i \in Calls' : \A k \in DOMAIN (imports[stack[i].mod])' :
           ~((Process("main"))' /\ k < stack'[i].next)
    BY <2>1, <2>4
  <2>7. ~(Process("start"))'
    BY <1>2, ProcessSteps
  <2> QED BY <2>2, <2>3, <2>5, <2>6, <2>7 DEF Inits
<1>3. CASE InitAgain \/ InitLocal
  BY <1>3, InitsReturn
<1>4. CASE InitFirst
  BY <1>4, InitsBegin
<1>5. CASE InitImport
  BY <1>5, InitsCall
<1>6. CASE ExitAgain \/ ExitLocal \/ ExitImport
  <2>1. /\ UNCHANGED <<imports, initialized, inits>>
        /\ Process("end") /\ (Process("end"))' /\ ~(Process("main"))' /\ ~(Process("start"))'
    BY <1>6, ExitStep
  <2> QED BY <2>1 DEF Inits, Imports
<1> QED BY <1>1, <1>2, <1>3, <1>4, <1>5, <1>6 DEF Next

-----------------------------------------------------------------------------
(* What a module depends on.                                               *)
LEMMA DependsDirectly ==
  ASSUME TypeOK, NEW m \in Modules, NEW d \in Imports(m)
  PROVE  d \in Dependencies(m)
<1>1. d \in Modules
  BY ImportLists DEF Imports, ToSet
<1> QED BY <1>1 DEF Dependencies, Imports

LEMMA DependsFurther ==
  ASSUME NEW m \in Modules, NEW e \in Dependencies(m), NEW d \in Dependencies(e)
  PROVE  d \in Dependencies(m)
BY DEF Dependencies

LEMMA DependsLeast ==
  ASSUME NEW m \in Modules, NEW S \in SUBSET Modules, Imports(m) \subseteq S,
         \A d \in S : Imports(d) \subseteq S
  PROVE  Dependencies(m) \subseteq S
BY DEF Dependencies, Imports

LEMMA DependenciesKept ==
  ASSUME imports' = imports, NEW m
  PROVE  (Dependencies(m))' = Dependencies(m)
BY DEF Dependencies

LEMMA ReachClosed ==
  ASSUME TypeOK, NEW m \in Reach, NEW d \in Imports(m)
  PROVE  m \in Modules /\ d \in Reach
<1>1. m \in Modules
  BY MainAssumption DEF Reach, Dependencies
<1>2. d \in Dependencies(m)
  BY <1>1, DependsDirectly
<1> QED BY <1>1, <1>2, MainAssumption, DependsFurther DEF Reach

LEMMA ImportAt ==
  ASSUME NEW m, NEW k \in DOMAIN imports[m]
  PROVE  imports[m][k] \in Imports(m)
BY DEF Imports, ToSet

LEMMA ReachedStep ==
  ASSUME Structure, Reached, [Next]_vars
  PROVE  Reached'
<1>0. TypeOK /\ initialized \subseteq Reach /\ \A i \in Calls : stack[i].mod \in Reach
  BY DEF Structure, Reached
<1>1. CASE UNCHANGED vars
  BY <1>1 DEF vars, Reached, Calls, Reach, Dependencies
<1>2. CASE Next
  <2>1. imports' = imports /\ (initialized' = initialized \/ InitFirst)
    BY <1>2 DEF Next, Start, InitAgain, InitFirst, InitImport, InitLocal, UserMain, ProcExit,
                ExitAgain, ExitLocal, ExitImport, End
  <2>2. Reach' = Reach
    BY <2>1, DependenciesKept DEF Reach
  <2>3. initialized' \subseteq Reach
    BY <1>0, <2>1, InitBegins
  <2>4. ASSUME Pops, Len(stack) >= 2, stack # << >>
        PROVE  \A i \in Calls' : stack'[i].mod \in Reach
    BY <1>0, <2>4, CallsPopped
  <2>5. ASSUME NEW dep, Len(stack) >= 2, stack # << >>, 1 \in Calls, NEW c, NEW n, c.mod = dep,
               Pushes(c, n), NEW k \in DOMAIN imports[stack[1].mod],
               dep = imports[stack[1].mod][k]
        PROVE  \A i \in Calls' : stack'[i].mod \in Reach
    <3>1. dep \in Reach
      BY <1>0, <2>5, ReachClosed, ImportAt
    <3>2. \A i \in Calls' : i = 1 \/ i = 2 \/ (i - 1 \in Calls /\ stack'[i] = stack[i - 1])
      BY <1>0, <2>5, CallsPushed
    <3>3. stack'[1].mod = dep /\ stack'[2].mod = stack[1].mod
      BY <1>0, <2>5, CallsPushed DEF SameCall
    <3> QED BY <1>0, <2>5, <3>1, <3>2, <3>3
  <2>6. CASE Start \/ UserMain \/ ProcExit \/ End
    BY <2>2, <2>3, <2>6, ProcessSteps DEF Reached, Reach
  <2>7. CASE InitAgain \/ InitLocal \/ ExitAgain
    BY <2>2, <2>3, <2>4, <2>7, InitReturns, ExitReturns DEF Reached
  <2>8. CASE InitFirst
    <3>1. Moves(1) /\ stack # << >>
      BY <2>8, InitBegins
    <3>2. /\ Calls' = Calls /\ \A i \in Calls : i # 1 => stack'[i] = stack[i]
          /\ stack'[1].mod = stack[1].mod
      BY <1>0, <3>1, CallsMoved DEF SameCall
    <3> QED BY <1>0, <2>2, <2>3, <3>2 DEF Reached
  <2>9. CASE InitImport
    <3>1. PICK dep \in Modules :
            /\ dep = imports[stack[1].mod][stack[1].next]
            /\ Pushes(Call("init", dep, 0), stack[1].next + 1)
      BY <2>9, InitCalls
    <3>2. Call("init", dep, 0).mod = dep
      BY DEF Call
    <3>3. Len(stack) >= 2 /\ stack # << >> /\ 1 \in Calls /\ stack[1].next \in DOMAIN imports[stack[1].mod]
      BY <2>9, InitCalls
    <3>4. \A i \in Calls' : stack'[i].mod \in Reach
      BY <2>5, <3>1, <3>2, <3>3
    <3> QED BY <2>2, <2>3, <3>4 DEF Reached
  <2>10. CASE ExitLocal \/ ExitImport
    <3>1. Len(stack) >= 2 /\ stack # << >> /\ 1 \in Calls
      BY <2>10, ExitBegins, ExitTurns
    <3>2. CASE Pops
      BY <2>2, <2>3, <2>4, <3>1, <3>2 DEF Reached
    <3>3. CASE ~Pops
      <4>1. PICK k \in DOMAIN imports[stack[1].mod], dep \in Modules :
              dep = imports[stack[1].mod][k] /\ Pushes(Call("exit", dep, 0), k)
        BY <2>10, <3>3, ExitBegins, ExitTurns
      <4>2. Call("exit", dep, 0).mod = dep
        BY DEF Call
      <4>3. \A i \in Calls' : stack'[i].mod \in Reach
        BY <2>5, <3>1, <4>1, <4>2
      <4> QED BY <2>2, <2>3, <4>3 DEF Reached
    <3> QED BY <3>2, <3>3
  <2> QED BY <1>2, <2>6, <2>7, <2>8, <2>9, <2>10 DEF Next
<1> QED BY <1>1, <1>2

-----------------------------------------------------------------------------
LEMMA LeavingPops ==
  ASSUME Structure, Structure', Leaving, Len(stack) >= 2, stack # << >>, Pops,
         UNCHANGED <<imports, initialized>>,
         exited \subseteq exited', exited' \subseteq initialized, ctx' \subseteq ctx,
         Called \subseteq exited',
         \A d \in exited' \ Below1 : d \in exited \ OpenMods \/ Imports(d) \subseteq exited' \ ctx'
  PROVE  Leaving'
<1>0. TypeOK
  BY DEF Structure
<1>1. \A i \in Calls' : i + 1 \in Calls /\ i + 1 # 1 /\ stack'[i] = stack[i + 1]
  BY <1>0, CallsPopped
<1>2. OpenMods' = Below1 /\ Called' = {}
  BY OpenPopped
<1>3. Below1 \subseteq OpenMods
  BY OpenBelow DEF Below1, OpenMods
<1>4. ASSUME NEW i \in Calls', NEW d, d = stack'[i].mod
      PROVE  /\ d \in initialized
             /\ \A k \in DOMAIN imports[d] :
                  /\ k >= stack'[i].next => imports[d][k] \in exited'
                  /\ k > stack'[i].next => imports[d][k] \notin ctx'
  <2>1. PICK j \in Calls : j # 1 /\ stack'[i] = stack[j]
    BY <1>1
  <2>2. Open(j)
    BY <2>1, OpenBelow
  <2> QED BY <1>4, <2>1, <2>2 DEF Leaving
<1>5. \A d \in exited' \ OpenMods' : Imports(d) \subseteq exited' \ ctx'
  BY <1>2 DEF Leaving
<1>6. \A d \in exited' \ OpenMods' : (Imports(d))' \subseteq exited' \ ctx'
  BY <1>5 DEF Imports
<1>7. OpenMods' \subseteq exited' /\ Main \in exited' \cup Called'
  BY <1>2, <1>3 DEF Leaving
<1> QED BY <1>2, <1>4, <1>6, <1>7 DEF Leaving

LEMMA LeavingPushes ==
  ASSUME Structure, Leaving, Len(stack) >= 2, stack # << >>,
         \A d \in initialized : Imports(d) \subseteq initialized,
         NEW m \in Modules, m = stack[1].mod, NEW k \in DOMAIN imports[m], NEW dep, dep = imports[m][k],
         NEW c, c.mod = dep, c.next = 0, Pushes(c, k),
         UNCHANGED <<imports, initialized>>,
         exited' = exited \cup {m}, ctx' \subseteq ctx, Called \subseteq exited',
         \A j \in DOMAIN imports[m] : j > k => imports[m][j] \in exited' \ ctx'
  PROVE  Leaving'
<1>0. TypeOK
  BY DEF Structure
<1>1. /\ stack'[1] = c /\ stack'[2].mod = m /\ stack'[2].next = k
      /\ \A i \in Calls' : i = 1 \/ i = 2 \/
           (i - 1 \in Calls /\ i - 1 # 1 /\ stack'[i] = stack[i - 1])
      /\ 1 \in Calls
  BY <1>0, CallsPushed DEF SameCall
<1>2. k \in Nat /\ k >= 1 /\ \A j \in DOMAIN imports[m] : j \in Nat
  BY <1>0, ImportLists
<1>3. OpenMods' = Below1 \cup {m} /\ Called' = {dep}
  BY <1>2, OpenPushed
<1>4. Below1 \subseteq OpenMods /\ OpenMods \subseteq Below1 \cup {m}
  BY <1>1, OpenBelow DEF Below1, OpenMods
<1>5. m \in initialized /\ dep \in initialized /\ exited' \subseteq initialized
  BY <1>1, ImportAt DEF Leaving
<1>6. ASSUME NEW i \in Calls', NEW d, d = stack'[i].mod
      PROVE  /\ d \in initialized
             /\ (Open(i))' =>
                 \A j \in DOMAIN imports[d] :
                   /\ j >= stack'[i].next => imports[d][j] \in exited' \cup {dep}
                   /\ j > stack'[i].next => imports[d][j] \notin ctx'
  <2>1. CASE i = 1
    BY <1>1, <1>5, <1>6, <2>1 DEF Open
  <2>2. CASE i = 2
    <3>1. \A j \in DOMAIN imports[m] : j >= k => j = k \/ j > k
      BY <1>2
    <3> QED BY <1>1, <1>5, <1>6, <2>2, <3>1
  <2>3. CASE i # 1 /\ i # 2
    <3>1. PICK j \in Calls : j # 1 /\ stack'[i] = stack[j]
      BY <1>1, <2>3
    <3>2. Open(j)
      BY <3>1, OpenBelow
    <3> QED BY <1>6, <3>1, <3>2 DEF Leaving
  <2> QED BY <2>1, <2>2, <2>3
<1>7. \A d \in exited' \ OpenMods' : Imports(d) \subseteq exited' \ ctx'
  BY <1>3, <1>4 DEF Leaving
<1>8. \A d \in exited' \ OpenMods' : (Imports(d))' \subseteq exited' \ ctx'
  BY <1>7 DEF Imports
<1>9. OpenMods' \subseteq exited' /\ Main \in exited' \cup Called'
  BY <1>3, <1>4 DEF Leaving
<1> QED BY <1>3, <1>5, <1>6, <1>8, <1>9 DEF Leaving

LEMMA LeavingStep ==
  ASSUME Structure, Structure', Inits, Exits, ExitAgain \/ ExitLocal \/ ExitImport
  PROVE  Leaving' /\ exited' = ToSet(exits') /\ IsInjective(exits')
<1>0. TypeOK /\ exits \in Seq(Modules) /\ exited = ToSet(exits) /\ IsInjective(exits)
  BY DEF Structure, TypeOK, Exits
<1>1. /\ UNCHANGED <<imports, initialized>> /\ Process("end") /\ Leaving
      /\ \A d \in initialized : Imports(d) \subseteq initialized
      /\ Len(stack) >= 2 /\ stack # << >> /\ 1 \in Calls /\ stack[1] \in Frame /\ stack[1].fn = "exit"
  BY ExitStep, ExitReturns, ExitBegins, ExitTurns DEF Inits, Exits
<1> PICK m \in Modules : m = stack[1].mod
  BY <1>1 DEF Frame
<1>2. m \in initialized
  BY <1>1 DEF Leaving
<1>3. CASE ExitAgain
  <2>1. Pops /\ ~Open(1) /\ m \in exited /\ UNCHANGED <<exited, ctx, exits>>
    BY <1>3, ExitReturns DEF Open
  <2>2. OpenMods = Below1 /\ Called = {m}
    BY <1>1, <2>1, OpenBelow
  <2> QED BY <1>0, <1>1, <2>1, <2>2, LeavingPops DEF Leaving
<1>4. CASE ExitLocal
  <2>1. /\ ~Open(1) /\ m \notin exited /\ exited' = exited \cup {m} /\ exits' = Append(exits, m)
        /\ ctx' = ctx
    BY <1>4, ExitBegins DEF Open
  <2>2. OpenMods = Below1 /\ Called = {m}
    BY <1>1, <2>1, OpenBelow
  <2>3. exited' = ToSet(exits') /\ IsInjective(exits')
    BY <1>0, <2>1, AppendNew
  <2>4. CASE imports[m] = << >> /\ Pops
    <3>1. Imports(m) = {}
      BY <2>4 DEF Imports, ToSet
    <3>2. exited \subseteq initialized
      BY <1>1 DEF Leaving
    <3> QED BY <1>1, <1>2, <2>1, <2>2, <2>3, <2>4, <3>1, <3>2, LeavingPops
  <2>5. ASSUME NEW k \in DOMAIN imports[m], NEW dep \in Modules,
               k = Len(imports[m]), dep = imports[m][k], Pushes(Call("exit", dep, 0), k)
        PROVE  Leaving'
    <3> PICK c : c = Call("exit", dep, 0)
      OBVIOUS
    <3>1. c.mod = dep /\ c.next = 0
      BY DEF Call
    <3>2. \A j \in DOMAIN imports[m] : ~(j > k)
      BY <1>0, <2>5, ImportLists
    <3> QED BY <1>1, <2>1, <2>2, <2>5, <3>1, <3>2, LeavingPushes
  <2> QED BY <1>4, <2>3, <2>4, <2>5, ExitBegins
<1>5. CASE ExitImport
  <2> PICK n : n = stack[1].next
    OBVIOUS
  <2>1. /\ n \in DOMAIN imports[m] /\ n >= 1 /\ Open(1) /\ UNCHANGED <<exited, exits>>
        /\ ctx' = ctx \ {imports[m][n]}
    BY <1>5, ExitTurns DEF Open, Drops
  <2>2. OpenMods = Below1 \cup {m} /\ Called = {} /\ m \in exited /\ exited \subseteq initialized
    <3>1. OpenMods = Below1 \cup {m} /\ Called = {}
      BY <1>1, <2>1, OpenBelow
    <3> QED BY <1>1, <3>1 DEF Leaving
  <2>3. \A k \in DOMAIN imports[m] : k \in Nat /\ k >= 1
    BY <1>0, ImportLists
  <2>4. \A k \in DOMAIN imports[m] :
          /\ k >= n => imports[m][k] \in exited
          /\ k > n => imports[m][k] \notin ctx
    BY <1>1, <2>1, <2>2 DEF Leaving
  <2>5. \A k \in DOMAIN imports[m] : k >= n => imports[m][k] \in exited' \ ctx'
    <3>1. \A k \in DOMAIN imports[m] : k >= n => k = n \/ k > n
      BY <2>1, <2>3
    <3> QED BY <2>1, <2>4, <3>1
  <2>6. CASE n = 1 /\ Pops
    <3>1. Imports(m) \subseteq exited' \ ctx'
      BY <2>3, <2>5, <2>6 DEF Imports, ToSet
    <3>2. \A d \in exited' \ Below1 : d \in exited \ OpenMods \/ Imports(d) \subseteq exited' \ ctx'
      BY <2>1, <2>2, <3>1
    <3> QED BY <1>0, <1>1, <2>1, <2>2, <2>6, <3>2, LeavingPops
  <2>7. ASSUME NEW k \in DOMAIN imports[m], NEW dep \in Modules,
               k = n - 1, dep = imports[m][k], Pushes(Call("exit", dep, 0), k)
        PROVE  Leaving'
    <3> PICK c : c = Call("exit", dep, 0)
      OBVIOUS
    <3>1. c.mod = dep /\ c.next = 0
      BY DEF Call
    <3>2. \A j \in DOMAIN imports[m] : j > k => j >= n
      BY <2>1, <2>3, <2>7
    <3>3. \A j \in DOMAIN imports[m] : j > k => imports[m][j] \in exited' \ ctx'
      BY <2>5, <3>2
    <3>4. exited' = exited \cup {m} /\ ctx' \subseteq ctx /\ Called \subseteq exited'
      BY <2>1, <2>2
    <3> QED BY <1>1, <2>7, <3>1, <3>3, <3>4, LeavingPushes, SMTT(30), ZenonT(30)
  <2> QED BY <1>0, <1>5, <2>1, <2>6, <2>7, ExitTurns
<1> QED BY <1>3, <1>4, <1>5

(* Exits run once, and every import of a module that exits does.           *)
LEMMA ExitsStep ==
  ASSUME Structure, Structure', Inits, Exits, [Next]_vars
  PROVE  Exits'
<1>0. TypeOK
  BY DEF Structure
<1>1. CASE UNCHANGED vars
  BY <1>1 DEF vars, Exits, Leaving, Process, Calls, Open, OpenMods, Called, Imports
<1>2. CASE Start \/ UserMain \/ ProcExit \/ End
  <2>1. UNCHANGED <<initialized, exited, exits>>
    BY <1>2, ProcessSteps
  <2>2. Process("start") \/ Process("main") \/ End
    BY <1>2, ProcessSteps
  <2>3. (Process("end"))' => Leaving'
    <3> SUFFICES ASSUME (Process("end"))'
                 PROVE  Leaving'
      OBVIOUS
    <3>1. UserMain /\ Process("main") /\ exits = << >>
      BY <1>2, ProcessSteps DEF Exits
    <3>2. exited' = {}
      BY <2>1, <3>1 DEF Exits, ToSet
    <3>3. ctx' = ctx /\ OpenMods' = {} /\ Called' = {Main}
      BY <1>2, <3>1, ProcessSteps DEF UserMain
    <3>4. \A i \in Calls' : stack'[i].mod = Main /\ ~(Open(i))'
      BY <1>2, ProcessSteps DEF Open
    <3>5. Main \in initialized
      <4>1. Calls = {} /\ Called = {}
        BY <1>2, ProcessSteps, OpenBelow
      <4> QED BY <3>1, <4>1 DEF Inits
    <3> QED BY <2>1, <3>2, <3>3, <3>4, <3>5 DEF Leaving
  <2>4. (Process("start"))' \/ (Process("main"))' => exits = << >>
    BY <1>2, ProcessSteps DEF Exits
  <2> QED BY <2>1, <2>3, <2>4 DEF Exits
<1>3. CASE InitAgain \/ InitFirst \/ InitImport \/ InitLocal
  <2>1. /\ UNCHANGED <<exited, exits>> /\ Process("main") /\ Len(stack) >= 2 /\ stack # << >>
        /\ Pops \/ Moves(1) \/ \E c, n : Pushes(c, n)
    BY <1>3, InitReturns, InitBegins, InitCalls
  <2>2. (Process("main"))' /\ ~(Process("end"))'
    BY <1>0, <2>1, SameProcess DEF Process
  <2> QED BY <2>1, <2>2 DEF Exits
<1>4. CASE ExitAgain \/ ExitLocal \/ ExitImport
  BY <1>4, LeavingStep, ExitStep DEF Exits
<1> QED BY <1>1, <1>2, <1>3, <1>4 DEF Next

-----------------------------------------------------------------------------
(* What allocating and freeing contexts does to those that are there.      *)
LEMMA AllocDoes ==
  ASSUME TypeOK, NEW c, NEW d \in Modules, Contexts!Alloc(c, d)
  PROVE  /\ Contexts!Live' = Contexts!Live \cup {d} /\ owner'[d] = c
         /\ \A b \in Contexts!Live : owner'[b] = owner[b]
BY NamesAssumption DEF TypeOK, Contexts!TypeOK, Contexts!Alloc, Contexts!Live, Contexts!Owners

LEMMA FreeDoes ==
  ASSUME TypeOK, NEW d \in Modules, Contexts!Free(d)
  PROVE  /\ Contexts!Live' = Contexts!Live \ ({d} \cup Contexts!Below(d))
         /\ \A b \in Contexts!Live' : owner'[b] = owner[b]
BY NamesAssumption DEF TypeOK, Contexts!TypeOK, Contexts!Free, Contexts!Live

LEMMA OwnedStep ==
  ASSUME Structure, Structure', Inits, Owned, [Next]_vars
  PROVE  Owned'
<1> USE MainAssumption, NamesAssumption
<1>0. /\ TypeOK /\ ctx \subseteq Modules \ System /\ Contexts!Live \subseteq ctx
      /\ \A c \in ctx : c = Main \/ \E m \in initialized : c \in Imports(m)
      /\ \A c \in Contexts!Live : owner[c] \in Modules => c \in Imports(owner[c])
  BY DEF Structure, TypeOK, Owned
<1>1. ASSUME imports' = imports, initialized \subseteq initialized',
             Contexts!Live' \subseteq Contexts!Live \cap ctx', ctx' \subseteq ctx,
             \A b \in Contexts!Live' : owner'[b] = owner[b]
      PROVE  Owned'
  <2>1. ASSUME NEW c \in Contexts!Live', NEW o \in Modules, o = owner'[c]
        PROVE  c \in (Imports(o))'
    BY <1>0, <1>1, <2>1 DEF Imports
  <2>2. ASSUME NEW c \in ctx', c # Main
        PROVE  \E m \in initialized' : c \in (Imports(m))'
    BY <1>0, <1>1, <2>2 DEF Imports
  <2>3. \A c \in Contexts!Live' : owner'[c] \in Modules => c \in (Imports(owner[c]))'
    BY <2>1 DEF Imports
  <2> QED BY <1>1, <2>2, <2>3 DEF Owned
<1>2. ASSUME imports' = imports, initialized \subseteq initialized',
             NEW o, NEW d \in Modules, Contexts!Alloc(o, d), ctx' = ctx \cup {d},
             d = Main \/ \E m \in initialized : d \in Imports(m),
             o \in Modules => d \in Imports(o)
      PROVE  Owned'
  <2>0. /\ Contexts!Live' = Contexts!Live \cup {d} /\ owner'[d] = o
        /\ \A b \in Contexts!Live : owner'[b] = owner[b]
    BY <1>0, <1>2, AllocDoes
  <2>1. ASSUME NEW c \in Contexts!Live', NEW q \in Modules, q = owner'[c]
        PROVE  c \in (Imports(q))'
    <3>1. CASE c = d
      BY <1>2, <2>0, <2>1, <3>1 DEF Imports
    <3>2. CASE c \in Contexts!Live
      BY <1>0, <1>2, <2>0, <2>1, <3>2 DEF Imports
    <3> QED BY <2>0, <3>1, <3>2
  <2>2. ASSUME NEW c \in ctx', c # Main
        PROVE  \E m \in initialized' : c \in (Imports(m))'
    BY <1>0, <1>2, <2>2 DEF Imports
  <2>3. \A c \in Contexts!Live' : owner'[c] \in Modules => c \in (Imports(owner[c]))'
    BY <2>1 DEF Imports
  <2>4. Contexts!Live' \subseteq ctx'
    BY <1>0, <1>2, <2>0
  <2> QED BY <2>2, <2>3, <2>4 DEF Owned
<1>3. ASSUME imports' = imports, initialized \subseteq initialized', UNCHANGED <<ctx, owner>>
      PROVE  Owned'
  <2>1. Contexts!Live' = Contexts!Live /\ \A b : owner'[b] = owner[b]
    BY <1>3 DEF Contexts!Live
  <2> QED BY <1>0, <1>1, <1>3, <2>1
<1>4. CASE UNCHANGED vars
  BY <1>3, <1>4 DEF vars
<1>5. CASE Start
  <2>1. CASE UNCHANGED <<ctx, owner>>
    BY <1>3, <1>5, <2>1 DEF Start
  <2>2. CASE ctx' = ctx \cup {Main} /\ Contexts!Alloc(NULL, Main)
    BY <1>2, <1>5, <2>2 DEF Start
  <2> QED BY <1>5, <2>1, <2>2 DEF Start
<1>6. CASE UserMain \/ ProcExit
  BY <1>3, <1>6 DEF UserMain, ProcExit
<1>7. CASE End
  <2>1. CASE Contexts!Free(Main)
    BY <1>0, <1>1, <1>7, <2>1, FreeDoes DEF End
  <2>2. CASE UNCHANGED owner
    BY <1>3, <1>7, <2>2 DEF End
  <2> QED BY <1>7, <2>1, <2>2 DEF End
<1>8. CASE InitAgain \/ InitLocal \/ InitFirst
  BY <1>3, <1>8, InitReturns, InitBegins
<1>9. CASE InitImport
  <2>1. PICK dep \in Modules :
          /\ dep = imports[stack[1].mod][stack[1].next]
          /\ \/ /\ dep \notin System \cup ctx
                /\ Contexts!Alloc(IF stack[1].mod \in ctx THEN stack[1].mod ELSE NULL, dep)
                /\ ctx' = ctx \cup {dep}
             \/ UNCHANGED <<ctx, owner>>
    BY <1>9, InitCalls
  <2>2. /\ stack[1].next \in DOMAIN imports[stack[1].mod] /\ 1 \in Calls /\ Process("main")
        /\ stack[1].mod \in Modules /\ UNCHANGED <<imports, initialized>>
    BY <1>9, InitCalls DEF Frame
  <2>3. Open(1)
    BY <1>0, <2>2, ImportLists DEF Open
  <2>4. stack[1].mod \in initialized
    BY <2>2, <2>3, OpenBelow DEF Inits
  <2>5. dep \in Imports(stack[1].mod)
    BY <2>1, <2>2, ImportAt
  <2>6. CASE UNCHANGED <<ctx, owner>>
    BY <1>3, <2>2, <2>6
  <2>7. CASE ~UNCHANGED <<ctx, owner>>
    <3>1. PICK o : o = IF stack[1].mod \in ctx THEN stack[1].mod ELSE NULL
      OBVIOUS
    <3>2. Contexts!Alloc(o, dep) /\ ctx' = ctx \cup {dep} /\ (o \in Modules => dep \in Imports(o))
      BY <2>1, <2>5, <2>7, <3>1
    <3> QED BY <1>2, <2>2, <2>4, <2>5, <3>2
  <2> QED BY <2>6, <2>7
<1>10. CASE ExitAgain \/ ExitLocal
  BY <1>3, <1>10, ExitReturns, ExitBegins
<1>11. CASE ExitImport
  <2>1. PICK dep \in Modules : Drops(dep)
    BY <1>11, ExitTurns
  <2>2. UNCHANGED <<imports, initialized>>
    BY <1>11, ExitTurns
  <2>3. CASE dep \in ctx \ System /\ dep \in Contexts!Live
    <3>1. /\ Contexts!Live' \subseteq Contexts!Live \ {dep}
          /\ \A b \in Contexts!Live' : owner'[b] = owner[b]
      BY <1>0, <2>1, <2>3, FreeDoes DEF Drops
    <3> QED BY <1>0, <1>1, <2>1, <2>2, <3>1 DEF Drops
  <2>4. CASE ~(dep \in ctx \ System /\ dep \in Contexts!Live)
    <3>1. owner' = owner /\ dep \notin Contexts!Live
      BY <1>0, <2>1, <2>4 DEF Drops
    <3>2. Contexts!Live' = Contexts!Live
      BY <3>1 DEF Contexts!Live
    <3> QED BY <1>0, <1>1, <2>1, <2>2, <3>1, <3>2 DEF Drops
  <2> QED BY <2>3, <2>4
<1> QED BY <1>4, <1>5, <1>6, <1>7, <1>8, <1>9, <1>10, <1>11 DEF Next

(* When the process ends, the exits have reached what the inits had.       *)
LEMMA EndLeavesNothing ==
  ASSUME SInv, End
  PROVE  ToSet(exits') = ToSet(inits') /\ Contexts!Live' = {}
<1>1. /\ Process("end") /\ Calls = {} /\ OpenMods = {} /\ Called = {}
      /\ UNCHANGED <<inits, exits>>
  BY ProcessSteps, OpenBelow DEF SInv
<1>2. /\ TypeOK /\ Leaving /\ exited = ToSet(exits)
      /\ ToSet(inits) = initialized /\ initialized \subseteq Reach
  BY <1>1 DEF SInv, Structure, Exits, Inits, Reached
<1>3. /\ exited \subseteq initialized /\ Main \in exited
      /\ \A m \in exited : Imports(m) \subseteq exited \ ctx
  BY <1>1, <1>2 DEF Leaving
<1>4. Dependencies(Main) \subseteq exited
  <2>1. exited \in SUBSET Modules
    BY <1>2 DEF TypeOK
  <2> QED BY <1>3, <2>1, MainAssumption, DependsLeast
<1>5. exited = initialized
  BY <1>2, <1>3, <1>4 DEF Reach
<1>6. Contexts!Live \subseteq {Main} /\ Contexts!Live \subseteq ctx
  BY <1>3, <1>5 DEF SInv, Owned
<1>7. Contexts!Live' = {}
  <2>1. CASE Main \in Contexts!Live
    <3>1. Contexts!Free(Main)
      BY <1>6, <2>1 DEF End
    <3> QED BY <1>2, <1>6, <3>1, MainAssumption, FreeDoes
  <2>2. CASE Main \notin Contexts!Live
    <3>1. owner' = owner
      BY <2>2 DEF End
    <3> QED BY <1>6, <2>2, <3>1 DEF Contexts!Live
  <2> QED BY <2>1, <2>2
<1> QED BY <1>1, <1>2, <1>5, <1>7

LEMMA NothingStep ==
  ASSUME SInv, Exits', [Next]_vars
  PROVE  NothingLeft'
<1>0. Structure /\ TypeOK /\ NothingLeft
  BY DEF SInv, Structure
<1>1. IsInjective(exits')
  BY DEF Exits
<1>2. CASE UNCHANGED vars
  BY <1>0, <1>2 DEF vars, NothingLeft, Contexts!Live
<1>3. CASE End
  BY <1>1, <1>3, EndLeavesNothing DEF NothingLeft
<1>4. CASE Start \/ UserMain \/ ProcExit
  <2>1. exits' = << >>
    BY <1>0, <1>4, ProcessSteps DEF SInv, Exits
  <2> QED BY <1>1, <2>1 DEF NothingLeft
<1>5. CASE \/ InitAgain \/ InitFirst \/ InitImport \/ InitLocal
           \/ ExitAgain \/ ExitLocal \/ ExitImport
  <2>1. /\ Len(stack) >= 2 /\ stack # << >>
        /\ Pops \/ Moves(1) \/ \E c, n : Pushes(c, n)
    BY <1>0, <1>5, InitReturns, InitBegins, InitCalls, ExitReturns, ExitBegins, ExitTurns
  <2>2. stack' # << >>
    BY <1>0, <2>1, SameProcess
  <2> QED BY <1>1, <2>2 DEF NothingLeft
<1> QED BY <1>2, <1>3, <1>4, <1>5 DEF Next

LEMMA LifecycleInit == Init => SInv
<1> SUFFICES ASSUME Init
             PROVE  SInv
  OBVIOUS
<1>1. Structure
  BY StructureInit
<1>2. /\ stack # << >> /\ Len(stack) = 1 /\ stack[1].fn = "start" /\ Calls = {}
  BY DEF Init, Call, Calls
<1>3. /\ ~Process("main") /\ ~Process("end") /\ ToSet(inits) = {} /\ ToSet(exits) = {}
      /\ IsInjective(inits) /\ IsInjective(exits) /\ Contexts!Live = {}
  BY <1>2 DEF Init, Process, ToSet, IsInjective, Contexts!Live
<1> QED BY <1>1, <1>2, <1>3 DEF Init, SInv, Inits, Reached, Exits, Owned, NothingLeft

LEMMA SafetyStep == SInv /\ [Next]_vars => SInv'
BY StructureStep, InitsStep, ReachedStep, ExitsStep, OwnedStep, NothingStep DEF SInv

(* Whatever modules import each other: every module that was initialized   *)
(* has exited once when the process ends, and no context is left.          *)
THEOREM LifecycleLeavesNothing == Spec => []NothingLeft
<1>1. SInv => NothingLeft
  BY DEF SInv
<1> QED BY <1>1, LifecycleInit, SafetyStep, PTL DEF Spec

-----------------------------------------------------------------------------
(* Without cycles no open call is of a module that the call on top, or the *)
(* module it is of, imports.                                               *)
LEMMA NoneTwice ==
  ASSUME Structure, Acyclic, Nested, 1 \in Calls, NEW m \in Modules, m = stack[1].mod
  PROVE  /\ m \notin Below1
         /\ \A d \in Imports(m) : d \notin Below1 \cup {m}
<1>0. TypeOK
  BY DEF Structure
<1>1. ASSUME NEW e \in Below1
      PROVE  e \in Modules /\ m \in Dependencies(e)
  <2>1. PICK j \in Calls : j # 1 /\ e = stack[j].mod
    BY DEF Below1
  <2>2. 1 < j /\ e \in Modules
    BY <2>1, OpenBelow DEF Calls
  <2> QED BY <2>1, <2>2 DEF Nested
<1>2. \A d \in Modules : d \notin Dependencies(d)
  BY DEF Acyclic
<1>3. m \notin Below1
  BY <1>1, <1>2
<1>4. ASSUME NEW d \in Imports(m)
      PROVE  d \notin Below1 \cup {m}
  <2>1. d \in Dependencies(m)
    BY <1>0, DependsDirectly
  <2>2. d # m
    BY <1>2, <2>1
  <2>3. CASE d \in Below1
    BY <1>1, <1>2, <2>1, <2>3, DependsFurther
  <2> QED BY <2>2, <2>3
<1> QED BY <1>3, <1>4

LEMMA NestedPopped ==
  ASSUME Structure, Nested, Len(stack) >= 2, stack # << >>, Pops, imports' = imports
  PROVE  Nested'
<1> SUFFICES ASSUME NEW i \in Calls', NEW j \in Calls', i < j,
                    NEW d \in Modules, NEW m \in Modules, d = stack'[i].mod, m = stack'[j].mod
             PROVE  (d \in Dependencies(m))'
  BY DEF Nested
<1>1. /\ i + 1 \in Calls /\ stack'[i] = stack[i + 1] /\ i \in Nat
      /\ j + 1 \in Calls /\ stack'[j] = stack[j + 1] /\ j \in Nat
  BY CallsPopped DEF Structure
<1>2. i + 1 < j + 1
  BY <1>1
<1> QED BY <1>1, <1>2, DependenciesKept DEF Nested

LEMMA NestedMoved ==
  ASSUME Structure, Nested, stack # << >>, NEW n, Moves(n), imports' = imports
  PROVE  Nested'
<1> SUFFICES ASSUME NEW i \in Calls', NEW j \in Calls', i < j,
                    NEW d \in Modules, NEW m \in Modules, d = stack'[i].mod, m = stack'[j].mod
             PROVE  (d \in Dependencies(m))'
  BY DEF Nested
<1>1. Calls' = Calls /\ \A x \in Calls : stack'[x].mod = stack[x].mod
  BY CallsMoved DEF Structure, SameCall
<1> QED BY <1>1, DependenciesKept DEF Nested

LEMMA NestedPushed ==
  ASSUME Structure, Nested, Len(stack) >= 2, stack # << >>, imports' = imports,
         NEW m \in Modules, m = stack[1].mod, NEW k \in DOMAIN imports[m],
         NEW c, c.mod = imports[m][k], NEW n, Pushes(c, n)
  PROVE  Nested'
<1>0. TypeOK
  BY DEF Structure
<1> SUFFICES ASSUME NEW i \in Calls', NEW j \in Calls', i < j,
                    NEW d \in Modules, NEW e \in Modules, d = stack'[i].mod, e = stack'[j].mod
             PROVE  (d \in Dependencies(e))'
  BY DEF Nested
<1>1. /\ 1 \in Calls /\ stack'[1].mod = c.mod /\ stack'[2].mod = m
      /\ \A x \in Calls' : x \in Nat
      /\ \A x \in Calls' : x = 1 \/ x = 2 \/
           (x - 1 \in Calls /\ x - 1 # 1 /\ x > 2 /\ stack'[x] = stack[x - 1])
  BY <1>0, CallsPushed DEF SameCall
<1>2. \A x \in Calls' : x # 1 => x - 1 \in Calls /\ stack'[x].mod = stack[x - 1].mod
  <2> SUFFICES ASSUME NEW x \in Calls', x # 1
               PROVE  x - 1 \in Calls /\ stack'[x].mod = stack[x - 1].mod
    OBVIOUS
  <2>1. CASE x = 2
    BY <1>1, <2>1
  <2>2. CASE x # 2
    BY <1>1, <2>2
  <2> QED BY <2>1, <2>2
<1>3. c.mod \in Dependencies(m)
  BY <1>0, ImportAt, DependsDirectly
<1>4. i \in Nat /\ i >= 1 /\ j \in Nat /\ j # 1
  BY <1>1 DEF Calls
<1>5. j - 1 \in Calls /\ e = stack[j - 1].mod
  BY <1>2, <1>4
<1>6. CASE i = 1
  <2>1. d = c.mod
    BY <1>1, <1>6
  <2>2. CASE j = 2
    BY <1>1, <1>3, <2>1, <2>2, DependenciesKept
  <2>3. CASE j # 2
    <3>1. 1 < j - 1
      BY <1>4, <2>3
    <3>2. m \in Dependencies(e)
      BY <1>1, <1>5, <3>1 DEF Nested
    <3> QED BY <1>3, <2>1, <3>2, DependsFurther, DependenciesKept
  <2> QED BY <2>2, <2>3
<1>7. CASE i # 1
  <2>1. i - 1 \in Calls /\ d = stack[i - 1].mod /\ i - 1 < j - 1
    BY <1>2, <1>4, <1>7
  <2> QED BY <1>5, <2>1, DependenciesKept DEF Nested
<1> QED BY <1>6, <1>7

LEMMA NestedStep ==
  ASSUME Structure, Nested, [Next]_vars
  PROVE  Nested'
<1>1. CASE UNCHANGED vars
  <2>1. imports' = imports /\ Calls' = Calls /\ stack' = stack
    BY <1>1 DEF vars, Calls
  <2>2. \A m : (Dependencies(m))' = Dependencies(m)
    BY <2>1, DependenciesKept
  <2> QED BY <2>1, <2>2 DEF Nested
<1>2. CASE Start \/ UserMain \/ ProcExit \/ End
  BY <1>2, ProcessSteps DEF Nested
<1>3. CASE InitAgain \/ InitLocal
  BY <1>3, InitReturns, NestedPopped
<1>4. CASE InitFirst
  BY <1>4, InitBegins, NestedMoved
<1>5. CASE ExitAgain
  BY <1>5, ExitReturns, NestedPopped
<1>6. CASE InitImport
  <2>1. PICK dep \in Modules :
          /\ dep = imports[stack[1].mod][stack[1].next]
          /\ Pushes(Call("init", dep, 0), stack[1].next + 1)
    BY <1>6, InitCalls
  <2>2. Call("init", dep, 0).mod = dep
    BY DEF Call
  <2>3. /\ Len(stack) >= 2 /\ stack # << >> /\ stack[1].mod \in Modules /\ imports' = imports
        /\ stack[1].next \in DOMAIN imports[stack[1].mod]
    BY <1>6, InitCalls DEF Frame
  <2> QED BY <2>1, <2>2, <2>3, NestedPushed
<1>7. CASE ExitLocal \/ ExitImport
  <2>1. /\ Len(stack) >= 2 /\ stack # << >> /\ stack[1].mod \in Modules /\ imports' = imports
    BY <1>7, ExitBegins, ExitTurns DEF Frame
  <2>2. CASE Pops
    BY <2>1, <2>2, NestedPopped
  <2>3. CASE ~Pops
    <3>1. PICK k \in DOMAIN imports[stack[1].mod], dep \in Modules :
            dep = imports[stack[1].mod][k] /\ Pushes(Call("exit", dep, 0), k)
      BY <1>7, <2>3, ExitBegins, ExitTurns
    <3>2. Call("exit", dep, 0).mod = dep
      BY DEF Call
    <3> QED BY <2>1, <3>1, <3>2, NestedPushed
  <2> QED BY <2>2, <2>3
<1> QED BY <1>1, <1>2, <1>3, <1>4, <1>5, <1>6, <1>7 DEF Next

LEMMA MainPops ==
  ASSUME Structure, MainDone, Len(stack) >= 2, stack # << >>, Pops, imports' = imports,
         ToSet(inits) \subseteq ToSet(inits'), stack[1].mod \in ToSet(inits')
  PROVE  MainDone'
<1>0. TypeOK /\ Chained
  BY DEF Structure
<1>1. \A i \in Calls' : i + 1 \in Calls /\ i + 1 # 1 /\ stack'[i] = stack[i + 1] /\ i \in Nat
  BY <1>0, CallsPopped
<1>2. ASSUME NEW i \in Calls', NEW f, f = stack'[i], NEW k \in DOMAIN imports[f.mod], k < f.next
      PROVE  imports[f.mod][k] \in ToSet(inits') \/ (i # 1 /\ k = Import(f))
  <2>1. PICK j \in Calls : j = i + 1 /\ j # 1 /\ f = stack[j] /\ j - 1 = i
    BY <1>1, <1>2
  <2>2. imports[f.mod][k] \in ToSet(inits) \/ k = Import(f)
    BY <1>2, <2>1 DEF MainDone
  <2>3. i = 1 /\ k = Import(f) => imports[f.mod][k] = stack[1].mod
    BY <1>0, <2>1 DEF Chained
  <2> QED BY <2>2, <2>3
<1> QED BY <1>2 DEF MainDone, Import

LEMMA OrderedAppend ==
  ASSUME TypeOK, Ordered, NEW m \in Modules, Imports(m) \subseteq ToSet(inits),
         inits' = Append(inits, m), imports' = imports
  PROVE  Ordered'
<1>1. PICK n \in Nat : n = Len(inits) /\ DOMAIN inits = 1 .. n /\ inits \in Seq(Modules)
  BY LenProperties DEF TypeOK
<1>2. /\ inits' \in Seq(Modules) /\ Len(inits') = n + 1 /\ inits'[n + 1] = m
      /\ \A i \in 1 .. n : inits'[i] = inits[i]
  BY <1>1, AppendProperties
<1>3. DOMAIN inits' = 1 .. n + 1
  BY <1>2, LenProperties
<1>4. ASSUME NEW i \in 1 .. n + 1, NEW x, x = inits'[i], NEW d \in Imports(x)
      PROVE  \E j \in 1 .. i - 1 : inits'[j] = d
  <2>1. CASE i \in 1 .. n
    <3>1. x = inits[i]
      BY <1>2, <1>4, <2>1
    <3>2. PICK j \in 1 .. i - 1 : inits[j] = d
      BY <1>1, <1>4, <2>1, <3>1 DEF Ordered
    <3>3. j \in 1 .. n
      BY <2>1
    <3> QED BY <1>2, <3>2, <3>3
  <2>2. CASE i = n + 1
    <3>1. PICK j \in 1 .. n : inits[j] = d
      BY <1>1, <1>2, <1>4, <2>2 DEF ToSet
    <3>2. j \in 1 .. i - 1
      BY <1>1, <2>2
    <3> QED BY <1>2, <3>1, <3>2
  <2> QED BY <1>1, <2>1, <2>2
<1> QED BY <1>3, <1>4, ZenonT(30) DEF Ordered, Imports

(* Inits come after those of the imports: what an init has called is done  *)
(* or, with a cycle only, open below.                                      *)
LEMMA OrderStep ==
  ASSUME SInv, Acyclic, Nested, Ordered, Process("main") => MainDone, [Next]_vars
  PROVE  Ordered' /\ ((Process("main"))' => MainDone')
<1>0. Structure /\ TypeOK /\ Inits /\ Chained
  BY DEF SInv, Structure
<1>1. ASSUME UNCHANGED <<imports, inits>>
      PROVE  Ordered'
  BY <1>1 DEF Ordered, Imports
<1>2. CASE UNCHANGED vars
  BY <1>1, <1>2 DEF vars, MainDone, Process, Calls, Import
<1>3. CASE Start \/ UserMain \/ ProcExit \/ End
  <2>1. UNCHANGED <<imports, inits>> /\ \A i \in Calls' : stack'[i].mod = Main /\ stack'[i].next = 0
    BY <1>0, <1>3, ProcessSteps
  <2>2. \A k \in DOMAIN imports[Main] : ~(k < 0)
    <3>1. DOMAIN imports[Main] \subseteq Nat
      BY <1>0, MainAssumption, ImportLists
    <3> QED BY <3>1
  <2> QED BY <1>1, <2>1, <2>2 DEF MainDone
<1>4. CASE InitAgain \/ InitLocal
  <2>1. /\ Process("main") /\ Len(stack) >= 2 /\ stack # << >> /\ 1 \in Calls /\ Pops
        /\ stack[1].mod \in Modules /\ imports' = imports
    BY <1>0, <1>4, InitReturns DEF Frame
  <2> PICK m \in Modules : m = stack[1].mod
    BY <2>1
  <2>2. /\ initialized = ToSet(inits) \cup OpenMods
        /\ IsInjective(inits) /\ ToSet(inits) \cap OpenMods = {} /\ inits \in Seq(Modules)
    BY <1>0, <2>1 DEF Inits, TypeOK
  <2>3. CASE InitAgain
    <3>1. ~Open(1) /\ m \in initialized /\ inits' = inits
      BY <1>0, <2>3, InitReturns DEF Open, InitAgain
    <3>2. m \notin OpenMods
      BY <1>0, <2>1, <3>1, OpenBelow, NoneTwice
    <3>3. m \in ToSet(inits')
      BY <2>2, <3>1, <3>2
    <3>4. MainDone'
      BY <1>0, <2>1, <3>1, <3>3, MainPops
    <3> QED BY <1>1, <2>1, <3>1, <3>4
  <2>4. CASE InitLocal
    <3>1. stack[1].next = Len(imports[m]) + 1 /\ inits' = Append(inits, m)
      BY <1>0, <2>1, <2>4, InitReturns DEF InitLocal
    <3>2. Len(imports[m]) \in Nat /\ DOMAIN imports[m] = 1 .. Len(imports[m])
      BY <1>0, ImportLists
    <3>3. m \notin ToSet(inits)
      <4>1. Open(1)
        BY <3>1, <3>2 DEF Open
      <4> QED BY <1>0, <2>1, <2>2, <4>1, OpenBelow
    <3>4. ToSet(inits') = ToSet(inits) \cup {m}
      BY <2>2, <3>1, <3>3, AppendNew
    <3>5. MainDone'
      BY <1>0, <2>1, <3>4, MainPops
    <3>6. Imports(m) \subseteq ToSet(inits)
      <4>1. \A k \in DOMAIN imports[m] : k < stack[1].next
        BY <3>1, <3>2
      <4>2. \A k \in DOMAIN imports[m] : imports[m][k] \in ToSet(inits)
        BY <2>1, <4>1 DEF MainDone
      <4> QED BY <4>2 DEF Imports, ToSet
    <3> QED BY <1>0, <2>1, <3>1, <3>5, <3>6, OrderedAppend
  <2> QED BY <1>4, <2>3, <2>4
<1>5. CASE InitFirst
  <2>1. /\ Process("main") /\ stack # << >> /\ 1 \in Calls /\ Moves(1) /\ UNCHANGED <<imports, inits>>
        /\ stack[1].mod \in Modules
    BY <1>0, <1>5, InitBegins DEF Frame
  <2>2. /\ Calls' = Calls /\ \A i \in Calls : i # 1 => stack'[i] = stack[i]
        /\ stack'[1].mod = stack[1].mod /\ stack'[1].next = 1
    BY <1>0, <2>1, CallsMoved DEF SameCall
  <2>3. \A k \in DOMAIN imports[stack[1].mod] : ~(k < 1)
    BY <1>0, <2>1, ImportLists
  <2>4. ASSUME NEW i \in Calls', NEW f, f = stack'[i], NEW k \in DOMAIN imports[f.mod], k < f.next
        PROVE  imports[f.mod][k] \in ToSet(inits) \/ (i # 1 /\ k = Import(f))
    <3>1. i # 1
      BY <2>2, <2>3, <2>4
    <3> QED BY <2>1, <2>2, <2>4, <3>1 DEF MainDone
  <2> QED BY <1>1, <2>1, <2>4 DEF MainDone, Import
<1>6. CASE InitImport
  <2>1. /\ Process("main") /\ Len(stack) >= 2 /\ stack # << >> /\ 1 \in Calls /\ stack[1].fn = "init"
        /\ stack[1].mod \in Modules /\ stack[1].next \in Nat /\ UNCHANGED <<imports, inits>>
    BY <1>0, <1>6, InitCalls DEF Frame
  <2> PICK m \in Modules : m = stack[1].mod
    BY <2>1
  <2> PICK n \in Nat : n = stack[1].next
    BY <2>1
  <2>2. PICK dep \in Modules : Pushes(Call("init", dep, 0), n + 1)
    BY <1>0, <1>6, InitCalls
  <2>3. Call("init", dep, 0).next = 0 /\ Call("init", dep, 0).mod = dep
    BY DEF Call
  <2>4. /\ stack'[1].next = 0 /\ stack'[1].mod = dep
        /\ stack'[2].mod = m /\ stack'[2].next = n + 1 /\ stack'[2].fn = "init"
        /\ \A i \in Calls' : i = 1 \/ i = 2 \/
             (i - 1 \in Calls /\ i - 1 # 1 /\ i > 2 /\ stack'[i] = stack[i - 1])
    BY <1>0, <2>1, <2>2, <2>3, CallsPushed DEF SameCall
  <2>5. DOMAIN imports[m] \subseteq Nat /\ DOMAIN imports[dep] \subseteq Nat
    BY <1>0, ImportLists
  <2>6. ASSUME NEW i \in Calls', NEW f, f = stack'[i], NEW k \in DOMAIN imports[f.mod], k < f.next
        PROVE  imports[f.mod][k] \in ToSet(inits) \/ (i # 1 /\ k = Import(f))
    <3>1. CASE i = 1
      BY <2>4, <2>5, <2>6, <3>1
    <3>2. CASE i = 2
      <4>1. f.mod = m /\ k \in Nat /\ k \in DOMAIN imports[m] /\ k < n + 1 /\ Import(f) = n
        BY <2>4, <2>5, <2>6, <3>2 DEF Import
      <4>2. k < n => imports[m][k] \in ToSet(inits)
        BY <2>1, <4>1 DEF MainDone
      <4>3. k < n \/ k = n
        BY <4>1
      <4> QED BY <3>2, <4>1, <4>2, <4>3
    <3>3. CASE i # 1 /\ i # 2
      <4>1. PICK j \in Calls : f = stack[j]
        BY <2>4, <2>6, <3>3
      <4> QED BY <2>1, <2>6, <3>3, <4>1 DEF MainDone
    <3> QED BY <3>1, <3>2, <3>3
  <2> QED BY <1>1, <2>1, <2>6 DEF MainDone, Import
<1>7. CASE ExitAgain \/ ExitLocal \/ ExitImport
  BY <1>0, <1>1, <1>7, ExitStep
<1> QED BY <1>2, <1>3, <1>4, <1>5, <1>6, <1>7 DEF Next

(* No import of what has exited is open.                                   *)
LEMMA EndDoneStep ==
  ASSUME SInv, SInv', Acyclic, Nested, Done, [Next]_vars, (Process("end"))'
  PROVE  EndDone'
<1>0. Structure /\ Structure' /\ TypeOK /\ Exits /\ (Process("end") => EndDone)
  BY DEF SInv, Structure, Done
<1>1. CASE UNCHANGED vars
  <2>1. stack' = stack /\ exited' = exited /\ imports' = imports
    BY <1>1 DEF vars
  <2>2. Process("end") /\ OpenMods' = OpenMods
    BY <2>1 DEF Process, OpenMods, Calls, Open
  <2>3. EndDone
    BY <1>0, <2>2
  <2> QED BY <2>1, <2>2, <2>3 DEF EndDone, Imports
<1>2. CASE Start \/ UserMain \/ ProcExit \/ End
  BY <1>0, <1>2, ProcessSteps DEF EndDone
<1>3. CASE InitAgain \/ InitFirst \/ InitImport \/ InitLocal
  <2>1. /\ Process("main") /\ Len(stack) >= 2 /\ stack # << >>
        /\ Pops \/ Moves(1) \/ \E c, n : Pushes(c, n)
    BY <1>0, <1>3, InitReturns, InitBegins, InitCalls
  <2>2. ~(Process("end"))'
    BY <1>0, <2>1, SameProcess DEF Process
  <2> QED BY <2>2
<1>4. CASE ExitAgain \/ ExitLocal \/ ExitImport
  <2>1. /\ Process("end") /\ Len(stack) >= 2 /\ stack # << >> /\ 1 \in Calls
        /\ stack[1].mod \in Modules /\ imports' = imports /\ EndDone /\ Leaving
    BY <1>0, <1>4, ExitReturns, ExitBegins, ExitTurns DEF Frame, Exits
  <2> PICK m \in Modules : m = stack[1].mod
    BY <2>1
  <2>2. m \notin Below1 /\ \A d \in Imports(m) : d \notin Below1 \cup {m}
    BY <1>0, <2>1, NoneTwice
  <2>3. ASSUME NEW k \in DOMAIN imports[m], NEW dep, Pushes(Call("exit", dep, 0), k)
        PROVE  OpenMods' = Below1 \cup {m}
    <3>1. k \in Nat /\ k >= 1 /\ Call("exit", dep, 0).next = 0
      BY <1>0, ImportLists DEF Call
    <3> QED BY <1>0, <2>1, <2>3, <3>1, OpenPushed
  <2>4. ASSUME \A d \in exited' \ OpenMods' : d \in exited \ OpenMods \/ Imports(d) \cap OpenMods' = {},
               OpenMods' \subseteq OpenMods \cup {m},
               m \in OpenMods' => m \in OpenMods \/ m \notin exited
        PROVE  EndDone'
    <3>1. \A d \in exited \ OpenMods : Imports(d) \cap OpenMods = {} /\ Imports(d) \subseteq exited
      BY <2>1 DEF EndDone, Leaving
    <3>2. \A d \in exited' \ OpenMods' : Imports(d) \cap OpenMods' = {}
      BY <2>4, <3>1
    <3> QED BY <2>1, <3>2 DEF EndDone, Imports
  <2>5. CASE ExitAgain
    <3>1. Pops /\ ~Open(1) /\ exited' = exited
      BY <1>0, <2>5, ExitReturns DEF Open
    <3>2. OpenMods = Below1 /\ OpenMods' = Below1
      BY <1>0, <2>1, <3>1, OpenBelow, OpenPopped
    <3> QED BY <2>2, <2>4, <3>1, <3>2
  <2>6. CASE ExitLocal
    <3>1. ~Open(1) /\ m \notin exited /\ exited' = exited \cup {m}
      BY <1>0, <2>6, ExitBegins DEF Open
    <3>2. OpenMods = Below1
      BY <1>0, <2>1, <3>1, OpenBelow
    <3>3. CASE imports[m] = << >> /\ Pops
      <4>1. OpenMods' = Below1 /\ Imports(m) = {}
        BY <1>0, <2>1, <3>3, OpenPopped DEF Imports, ToSet
      <4> QED BY <2>4, <3>1, <3>2, <4>1
    <3>4. CASE ~(imports[m] = << >> /\ Pops)
      <4>1. OpenMods' = Below1 \cup {m}
        BY <1>0, <2>3, <2>6, <3>4, ExitBegins
      <4> QED BY <2>4, <3>1, <3>2, <4>1
    <3> QED BY <3>3, <3>4
  <2>7. CASE ExitImport
    <3>1. Open(1) /\ exited' = exited
      BY <1>0, <2>7, ExitTurns DEF Open
    <3>2. OpenMods = Below1 \cup {m}
      BY <1>0, <2>1, <3>1, OpenBelow
    <3>3. CASE Pops
      <4>1. OpenMods' = Below1
        BY <1>0, <2>1, <3>3, OpenPopped
      <4> QED BY <2>2, <2>4, <3>1, <3>2, <4>1
    <3>4. CASE ~Pops
      <4>1. OpenMods' = Below1 \cup {m}
        BY <1>0, <2>3, <2>7, <3>4, ExitTurns
      <4> QED BY <2>4, <3>1, <3>2, <4>1
    <3> QED BY <3>3, <3>4
  <2> QED BY <1>4, <2>5, <2>6, <2>7
<1> QED BY <1>1, <1>2, <1>3, <1>4 DEF Next

(* The contexts below that of a module that has exited are the contexts of *)
(* modules whose pointers were cleared before.                             *)
LEMMA BelowExited ==
  ASSUME SInv, Process("end"), EndDone, NEW dep \in exited \ OpenMods
  PROVE  Contexts!Below(dep) \cap ctx = {}
<1>0. /\ Leaving /\ TypeOK
      /\ \A c \in Contexts!Live : owner[c] \in Modules => c \in Imports(owner[c])
  BY DEF SInv, Structure, Exits, Owned
<1> DEFINE D == exited \ OpenMods
           S == {x \in Contexts!Live : \E p \in D : x \in Imports(p)}
<1>1. \A p \in D : p \in Modules /\ Imports(p) \subseteq D /\ Imports(p) \cap ctx = {}
  BY <1>0 DEF Leaving, EndDone, TypeOK
<1>2. ASSUME NEW x \in Contexts!Live, owner[x] \in S \cup {dep}
      PROVE  x \in S
  <2>1. owner[x] \in D
    BY <1>1, <1>2
  <2> QED BY <1>0, <1>1, <2>1
<1>3. S \in SUBSET Modules /\ Contexts!ClosedBelow(dep, S)
  BY <1>2 DEF Contexts!ClosedBelow, Contexts!Live
<1>4. Contexts!Below(dep) \subseteq S
  BY <1>3 DEF Contexts!Below
<1> QED BY <1>1, <1>4

LEMMA DanglingStep ==
  ASSUME SInv, Acyclic, Nested, Done, NoDanglingContext, [Next]_vars, stack' # << >>
  PROVE  ctx' \subseteq Contexts!Live'
<1>0. Structure /\ TypeOK /\ Exits /\ (Process("end") => EndDone) /\ ctx \subseteq Modules \ System
  BY DEF SInv, Structure, Done, TypeOK
<1>1. CASE UNCHANGED <<ctx, owner>> /\ stack # << >>
  BY <1>1 DEF NoDanglingContext, Contexts!Live
<1>2. ASSUME stack # << >>, NEW c, NEW d \in Modules, Contexts!Alloc(c, d), ctx' = ctx \cup {d}
      PROVE  ctx' \subseteq Contexts!Live'
  BY <1>0, <1>2, AllocDoes DEF NoDanglingContext
<1>3. CASE UNCHANGED vars
  BY <1>1, <1>3 DEF vars
<1>4. CASE Start
  BY <1>1, <1>2, <1>4, MainAssumption DEF Start, Running
<1>5. CASE UserMain
  BY <1>1, <1>5 DEF UserMain, Running
<1>6. CASE ProcExit \/ End
  BY <1>6 DEF ProcExit, End
<1>7. CASE InitAgain \/ InitLocal \/ InitFirst \/ ExitAgain \/ ExitLocal
  BY <1>0, <1>1, <1>7, InitReturns, InitBegins, ExitReturns, ExitBegins
<1>8. CASE InitImport
  BY <1>0, <1>1, <1>2, <1>8, InitCalls
<1>9. CASE ExitImport
  <2>1. /\ Process("end") /\ stack # << >> /\ 1 \in Calls /\ stack[1].mod \in Modules
        /\ stack[1].next \in DOMAIN imports[stack[1].mod] /\ Open(1)
        /\ Drops(imports[stack[1].mod][stack[1].next])
    BY <1>0, <1>9, ExitTurns DEF Frame, Open
  <2> PICK m \in Modules : m = stack[1].mod
    BY <2>1
  <2> PICK dep : dep = imports[m][stack[1].next]
    OBVIOUS
  <2>2. dep \in Imports(m) /\ dep \in Modules
    BY <1>0, <2>1, ImportAt, ImportLists
  <2>3. OpenMods = Below1 \cup {m} /\ Called = {}
    BY <1>0, <2>1, OpenBelow
  <2>4. dep \notin OpenMods
    BY <1>0, <2>1, <2>2, <2>3, NoneTwice
  <2>5. dep \in exited
    <3>1. Leaving
      BY <1>0, <2>1 DEF Exits
    <3> PICK n \in Nat : n = stack[1].next
      BY <1>0, <2>1, OpenBelow
    <3>2. \A k \in DOMAIN imports[m] : k >= n => imports[m][k] \in exited \cup Called
      BY <2>1, <3>1 DEF Leaving
    <3>3. n \in DOMAIN imports[m] /\ n >= n
      BY <2>1
    <3>4. imports[m][n] \in exited \cup Called
      BY <3>2, <3>3
    <3> QED BY <2>3, <3>4
  <2>6. Contexts!Below(dep) \cap ctx = {}
    BY <1>0, <2>1, <2>4, <2>5, BelowExited
  <2>7. ctx \subseteq Contexts!Live
    BY <2>1 DEF NoDanglingContext
  <2>8. CASE dep \in ctx
    <3>1. Contexts!Free(dep) /\ ctx' = ctx \ {dep}
      BY <1>0, <2>1, <2>7, <2>8 DEF Drops
    <3> QED BY <1>0, <2>2, <2>6, <2>7, <3>1, FreeDoes
  <2>9. CASE dep \notin ctx
    <3>1. UNCHANGED <<ctx, owner>>
      BY <2>1, <2>9 DEF Drops
    <3> QED BY <1>1, <2>1, <3>1
  <2> QED BY <2>8, <2>9
<1> QED BY <1>3, <1>4, <1>5, <1>6, <1>7, <1>8, <1>9 DEF Next

-----------------------------------------------------------------------------
LEMMA AcyclicKept ==
  ASSUME [Next]_vars
  PROVE  imports' = imports /\ (Acyclic' <=> Acyclic)
<1>1. imports' = imports
  BY DEF vars, Next, Start, InitAgain, InitFirst, InitImport, InitLocal, UserMain, ProcExit,
         ExitAgain, ExitLocal, ExitImport, End
<1> QED BY <1>1, DependenciesKept DEF Acyclic

LEMMA AcyclicStep == SInv /\ SInv' /\ AInv /\ [Next]_vars => AInv'
<1> SUFFICES ASSUME SInv, SInv', AInv, [Next]_vars, Acyclic'
             PROVE  (Nested /\ Ordered /\ Done /\ NoDanglingContext)'
  BY DEF AInv
<1>1. Acyclic /\ Nested /\ Ordered /\ Done /\ NoDanglingContext
  BY AcyclicKept DEF AInv
<1>2. Nested'
  BY <1>1, NestedStep DEF SInv
<1>3. Ordered' /\ ((Process("main"))' => MainDone')
  BY <1>1, OrderStep DEF Done
<1>4. (Process("end"))' => EndDone'
  BY <1>1, EndDoneStep
<1>5. stack' # << >> => ctx' \subseteq Contexts!Live'
  BY <1>1, DanglingStep
<1> QED BY <1>2, <1>3, <1>4, <1>5 DEF Done, NoDanglingContext

LEMMA AcyclicInit == Init => AInv
<1> SUFFICES ASSUME Init
             PROVE  Nested /\ Ordered /\ Done /\ NoDanglingContext
  BY DEF AInv
<1>1. stack # << >> /\ Len(stack) = 1 /\ stack[1].fn = "start" /\ Calls = {}
  BY DEF Init, Call, Calls
<1>2. ~Process("main") /\ ~Process("end") /\ DOMAIN inits = {} /\ ctx = {}
  BY <1>1 DEF Init, Process
<1> QED BY <1>1, <1>2 DEF Nested, Ordered, Done, NoDanglingContext

(* The walk of the imports, with cycles and without, in every program.     *)
THEOREM LifecycleInductive == Spec => []IInv
<1>1. Init => IInv
  BY LifecycleInit, AcyclicInit DEF IInv
<1>2. IInv /\ [Next]_vars => IInv'
  BY SafetyStep, AcyclicStep DEF IInv
<1> QED BY <1>1, <1>2, PTL DEF Spec

LEMMA OrderedGuarantees ==
  ASSUME TypeOK, Ordered
  PROVE  DependencyGuarantee
<1> SUFFICES ASSUME NEW i \in DOMAIN inits, NEW m, m = inits[i], NEW d \in Dependencies(m)
             PROVE  \E j \in 1 .. i - 1 : inits[j] = d
  BY DEF DependencyGuarantee
<1>1. /\ DOMAIN inits = 1 .. Len(inits) /\ Len(inits) \in Nat
      /\ \A j \in DOMAIN inits : inits[j] \in Modules
  <2>1. inits \in Seq(Modules)
    BY DEF TypeOK
  <2>2. DOMAIN inits = 1 .. Len(inits) /\ Len(inits) \in Nat
    BY <2>1, LenProperties
  <2> QED BY <2>1, <2>2, ElementOfSeq
<1> DEFINE S == {inits[j] : j \in 1 .. i - 1}
<1>2. 1 .. i - 1 \subseteq DOMAIN inits
  BY <1>1
<1>3. S \in SUBSET Modules
  BY <1>1, <1>2
<1>4. Imports(m) \subseteq S
  BY DEF Ordered
<1>5. ASSUME NEW e \in S
      PROVE  Imports(e) \subseteq S
  <2>1. PICK j \in 1 .. i - 1 : e = inits[j]
    OBVIOUS
  <2>2. j \in DOMAIN inits /\ 1 .. j - 1 \subseteq 1 .. i - 1
    BY <1>1, <1>2
  <2> QED BY <2>1, <2>2 DEF Ordered
<1>6. m \in Modules
  BY <1>1
<1>7. d \in S
  BY <1>3, <1>4, <1>5, <1>6, DependsLeast
<1> QED BY <1>7

(* Every init runs once, and in a program without import cycles after the  *)
(* inits of all that its module depends on.                                *)
THEOREM InitsFollowDependencies == Spec => []DependenciesInitialized
<1>1. IInv => DependenciesInitialized
  BY OrderedGuarantees DEF IInv, SInv, AInv, Structure, Inits, DependenciesInitialized
<1> QED BY <1>1, LifecycleInductive, PTL

(* Without import cycles a context pointer that is set is good: no context *)
(* is used or freed after its owner's was.                                 *)
THEOREM ContextsStay == Spec => []NoDanglingContext
<1>1. IInv => NoDanglingContext
  BY DEF IInv, AInv, NoDanglingContext
<1> QED BY <1>1, LifecycleInductive, PTL

-----------------------------------------------------------------------------
(* Where no module is imported twice, the calls of init are a walk of a    *)
(* tree, and of at most one import that leads back to the entry module;    *)
(* the exits walk it backwards.  No cycles need be excluded.               *)
(*                                                                         *)
(* The entry module is at the bottom, and begun once.                      *)
Rooted ==
  /\ Calls # {} => stack[Len(stack) - 1].mod = Main
  /\ \A i \in Calls : Open(i) /\ stack[i].mod = Main => i = Len(stack) - 1
  /\ Len(stack) = 2 /\ ~Open(1) =>
       /\ Process("main") => initialized = {}
       /\ Process("end") => exits = << >>
  /\ (Process("main") /\ Len(stack) = 1) \/ Process("end") =>
       inits # << >> /\ inits[Len(inits)] = Main

(* An open init of m has not come to its import k, or has just called it.  *)
Awaited(m, k) ==
  \E i \in Calls : Open(i) /\ stack[i].mod = m /\
    (k >= stack[i].next \/ (i = 2 /\ ~Open(1) /\ k = stack[2].next - 1))

(* What is initialized was called by a module that imports it. *)
Imported ==
  Process("main") =>
    \A d \in initialized \ {Main} :
      \E m \in initialized : \E k \in DOMAIN imports[m] : imports[m][k] = d /\ ~Awaited(m, k)

LEMMA BottomPopped ==
  ASSUME TypeOK, Len(stack) >= 2, stack # << >>, Pops
  PROVE  /\ Len(stack') = Len(stack) - 1 /\ Len(stack) \in Nat
         /\ Calls' # {} => /\ Len(stack) - 1 \in Calls /\ Len(stack) >= 3
                           /\ stack'[Len(stack') - 1] = stack[Len(stack) - 1]
         /\ Calls' = {} => Len(stack) = 2
         /\ Calls' # {} => 1 \in Calls' /\ 2 \in Calls /\ stack'[1] = stack[2]
<1>1. PICK l \in Nat : l = Len(stack) /\ l >= 2
  BY TopIs
<1>2. Len(stack') = l - 1 /\ \A i \in 1 .. l - 1 : stack'[i] = stack[i + 1]
  BY <1>1 DEF Pops
<1>3. Calls = 1 .. l - 1 /\ Calls' = 1 .. l - 2
  BY <1>1, <1>2 DEF Calls
<1>4. CASE l = 2
  BY <1>1, <1>2, <1>3, <1>4
<1>5. CASE l >= 3
  <2>1. 1 \in 1 .. l - 1 /\ l - 2 \in 1 .. l - 1 /\ (l - 2) + 1 = l - 1 /\ 1 + 1 = 2
    BY <1>5
  <2>2. stack'[1] = stack[2] /\ stack'[l - 2] = stack[l - 1]
    BY <1>2, <2>1
  <2>3. 1 \in Calls' /\ 2 \in Calls /\ l - 1 \in Calls /\ Len(stack') - 1 = l - 2
    BY <1>2, <1>3, <1>5
  <2>4. Calls' # {}
    BY <2>3
  <2> QED BY <1>1, <1>2, <1>5, <2>2, <2>3, <2>4
<1> QED BY <1>1, <1>4, <1>5

LEMMA BottomMoved ==
  ASSUME TypeOK, Len(stack) >= 2, stack # << >>, NEW n, Moves(n)
  PROVE  /\ Len(stack') = Len(stack) /\ Len(stack) \in Nat
         /\ Len(stack) - 1 \in Calls /\ stack'[Len(stack) - 1].mod = stack[Len(stack) - 1].mod
<1>1. PICK l \in Nat : l = Len(stack) /\ l >= 2
  BY TopIs
<1>2. l - 1 \in Calls
  BY <1>1 DEF Calls
<1>3. l - 1 = 1 \/ l - 1 \in 2 .. l
  BY <1>1
<1> QED BY <1>1, <1>2, <1>3 DEF Moves, SameCall

LEMMA BottomPushed ==
  ASSUME TypeOK, Len(stack) >= 2, stack # << >>, NEW c, NEW n, Pushes(c, n)
  PROVE  /\ Len(stack') = Len(stack) + 1 /\ Len(stack) \in Nat
         /\ Len(stack) - 1 \in Calls /\ stack'[Len(stack)].mod = stack[Len(stack) - 1].mod
<1>1. PICK l \in Nat : l = Len(stack) /\ l >= 2
  BY TopIs
<1>2. l - 1 \in Calls
  BY <1>1 DEF Calls
<1>3. l = 2 \/ (l \in 3 .. l + 1)
  BY <1>1
<1>4. CASE l = 2
  BY <1>1, <1>2, <1>4 DEF Pushes, SameCall
<1>5. CASE l \in 3 .. l + 1
  BY <1>1, <1>2, <1>5 DEF Pushes
<1> QED BY <1>3, <1>4, <1>5

LEMMA CallerBelow ==
  ASSUME TypeOK, Len(stack) >= 2, stack # << >>, Len(stack) - 1 # 1
  PROVE  2 \in Calls
<1>1. PICK l \in Nat : l = Len(stack) /\ l >= 2 /\ l - 1 # 1
  BY TopIs
<1>2. 2 \in 1 .. l - 1
  BY <1>1
<1> QED BY <1>1, <1>2 DEF Calls

LEMMA RootedPops ==
  ASSUME Structure, Len(stack) >= 2, stack # << >>, Pops, Rooted,
         (Process("main") /\ Len(stack) = 2) \/ Process("end") =>
           inits' # << >> /\ inits'[Len(inits')] = Main
  PROVE  Rooted'
<1>0. TypeOK
  BY DEF Structure
<1>1. /\ Len(stack') = Len(stack) - 1 /\ Len(stack) \in Nat
      /\ Calls' # {} => /\ Len(stack) - 1 \in Calls /\ Len(stack) >= 3
                        /\ stack'[Len(stack') - 1] = stack[Len(stack) - 1]
      /\ Calls' # {} => 1 \in Calls' /\ 2 \in Calls /\ stack'[1] = stack[2]
  BY <1>0, BottomPopped
<1>2. \A i \in Calls' : i + 1 \in Calls /\ i + 1 # 1 /\ stack'[i] = stack[i + 1] /\ i \in Nat
  BY <1>0, CallsPopped
<1>3. \A i \in Calls' : Open(i)'
  BY <1>2, OpenBelow DEF Open
<1>4. Calls' # {} => stack'[Len(stack') - 1].mod = Main
  BY <1>1 DEF Rooted
<1>5. ASSUME NEW i \in Calls', stack'[i].mod = Main
      PROVE  i = Len(stack') - 1
  <2>1. i + 1 = Len(stack) - 1
    BY <1>2, <1>5, OpenBelow DEF Rooted
  <2> QED BY <1>1, <1>2, <2>1
<1>6. Len(stack') = 2 => Open(1)'
  <2>1. Len(stack') = 2 => 1 \in Calls'
    BY DEF Calls
  <2> QED BY <1>3, <2>1
<1>7. (Process("main")' /\ Len(stack') = 1) \/ Process("end")' =>
         inits' # << >> /\ inits'[Len(inits')] = Main
  <2>1. \A fn : Process(fn)' <=> Process(fn)
    BY <1>0, SameProcess
  <2>2. \A l \in Nat : l - 1 = 1 => l = 2
    OBVIOUS
  <2>3. Len(stack') = 1 => Len(stack) = 2
    BY <1>1, <2>2, Zenon
  <2> QED BY <2>1, <2>3, Zenon
<1> QED BY <1>4, <1>5, <1>6, <1>7 DEF Rooted

LEMMA RootedPushes ==
  ASSUME Structure, Len(stack) >= 2, stack # << >>, Rooted,
         NEW c, NEW n \in Nat, Pushes(c, n), c.next = 0,
         ~Open(1) => Len(stack) = 2 \/ stack[1].mod # Main,
         inits' = inits
  PROVE  Rooted'
<1>0. TypeOK
  BY DEF Structure
<1>1. /\ Len(stack') = Len(stack) + 1 /\ Len(stack) \in Nat
      /\ Len(stack) - 1 \in Calls /\ stack'[Len(stack)].mod = stack[Len(stack) - 1].mod
  BY <1>0, BottomPushed
<1>2. /\ 1 \in Calls' /\ stack'[1] = c
      /\ 2 \in Calls' /\ SameCall(stack'[2], stack[1]) /\ stack'[2].next = n
      /\ \A i \in Calls' : i = 1 \/ i = 2 \/
           (i - 1 \in Calls /\ i - 1 # 1 /\ (i - 1) - 1 \in Calls /\ i > 2 /\ stack'[i] = stack[i - 1])
      /\ 1 \in Calls
      /\ \A i \in Calls' : i \in Nat
  BY <1>0, CallsPushed
<1>3. stack'[Len(stack') - 1].mod = Main
  BY <1>1 DEF Rooted
<1>4. ASSUME NEW i \in Calls', Open(i)', stack'[i].mod = Main
      PROVE  i = Len(stack') - 1
  <2>1. i # 1
    BY <1>2, <1>4 DEF Open
  <2>2. CASE i = 2
    <3>1. stack[1].mod = Main
      BY <1>2, <1>4, <2>2 DEF SameCall
    <3>2. Len(stack) = 2 \/ 1 = Len(stack) - 1
      BY <1>2, <3>1 DEF Rooted
    <3> QED BY <1>1, <2>2, <3>2
  <2>3. CASE i # 2
    <3>1. i - 1 = Len(stack) - 1
      BY <1>2, <1>4, <2>1, <2>3, OpenBelow DEF Rooted
    <3> QED BY <1>1, <1>2, <3>1
  <2> QED BY <2>2, <2>3
<1>5. Len(stack') # 1 /\ Len(stack') # 2
  BY <1>1
<1>6. Process("end")' => inits' # << >> /\ inits'[Len(inits')] = Main
  <2>1. Process("end")' => Process("end")
    BY <1>0, SameProcess
  <2> QED BY <2>1 DEF Rooted
<1> QED BY <1>3, <1>4, <1>5, <1>6 DEF Rooted

LEMMA RootedStep ==
  ASSUME SInv, SInv', Rooted, [Next]_vars
  PROVE  Rooted'
<1>0. Structure /\ TypeOK /\ Inits /\ Exits
  BY DEF SInv, Structure
<1>1. CASE UNCHANGED vars
  BY <1>1 DEF vars, Rooted, Calls, Open, Process
<1>2. CASE Start \/ UserMain \/ ProcExit \/ End
  <2>1. /\ UNCHANGED <<initialized, inits, exits>>
        /\ \A i \in Calls' : i = 1 /\ stack'[1].mod = Main /\ stack'[1].next = 0
        /\ Start => Process("start")
        /\ UserMain => Process("main")
        /\ (Process("main"))' => Start
        /\ (Process("end"))' => UserMain
    BY <1>0, <1>2, ProcessSteps
  <2>2. CASE stack' = << >>
    <3>1. Calls' = {} /\ Len(stack') = 0 /\ \A fn : ~Process(fn)'
      BY <2>2, NoCalls
    <3> QED BY <3>1 DEF Rooted
  <2>3. CASE stack' # << >>
    <3>1. \E fn \in {"init", "exit"} : \E p \in {"main", "end"} :
            stack' = <<Call(fn, Main, 0), Call(p, Main, 0)>>
      BY <1>2, <2>3 DEF Start, UserMain, ProcExit, End
    <3>2. Len(stack') = 2
      BY <3>1
    <3>3. stack'[1].mod = Main
      BY <3>1 DEF Call
    <3>4. \A i \in Calls' : ~Open(i)'
      BY <2>1 DEF Open
    <3>5. (Process("main"))' => initialized' = {}
      BY <1>0, <2>1 DEF Inits
    <3>6. (Process("end"))' => exits' = << >> /\ inits' # << >> /\ inits'[Len(inits')] = Main
      BY <1>0, <1>2, <2>1, ProcessSteps DEF Exits, Rooted
    <3> QED BY <3>2, <3>3, <3>4, <3>5, <3>6 DEF Rooted
  <2> QED BY <2>2, <2>3
<1>3. CASE InitAgain \/ InitLocal
  <2>1. /\ Process("main") /\ Len(stack) >= 2 /\ stack # << >> /\ 1 \in Calls /\ Pops
        /\ stack[1] \in Frame
        /\ InitAgain => stack[1].next = 0 /\ stack[1].mod \in initialized
    BY <1>0, <1>3, InitReturns
  <2>2. ASSUME Len(stack) = 2
        PROVE  inits' # << >> /\ inits'[Len(inits')] = Main
    <3>1. stack[1].mod = Main
      BY <2>1, <2>2 DEF Rooted
    <3>2. ~InitAgain
      BY <2>1, <2>2 DEF Rooted, Open
    <3>3. inits' = Append(inits, Main)
      BY <1>0, <1>3, <3>1, <3>2, InitReturns DEF InitLocal
    <3>4. inits \in Seq(Modules) /\ Main \in Modules
      BY <1>0, MainAssumption DEF TypeOK
    <3> QED BY <3>3, <3>4, AppendProperties
  <2>3. ~Process("end")
    BY <2>1 DEF Process
  <2> QED BY <1>0, <2>1, <2>2, <2>3, RootedPops
<1>4. CASE InitFirst
  <2>1. /\ Process("main") /\ Len(stack) >= 2 /\ stack # << >> /\ 1 \in Calls /\ Moves(1)
        /\ stack[1].mod \notin initialized
        /\ UNCHANGED <<imports, inits, exits>>
    BY <1>0, <1>4, InitBegins
  <2>2. /\ Len(stack') = Len(stack) /\ Len(stack) \in Nat
        /\ Len(stack) - 1 \in Calls /\ stack'[Len(stack) - 1].mod = stack[Len(stack) - 1].mod
    BY <1>0, <2>1, BottomMoved
  <2>3. /\ Calls' = Calls /\ \A i \in Calls : i # 1 => stack'[i] = stack[i]
        /\ stack'[1].mod = stack[1].mod /\ stack'[1].next = 1
    BY <1>0, <2>1, CallsMoved DEF SameCall
  <2>4. stack'[Len(stack') - 1].mod = Main
    BY <2>2 DEF Rooted
  <2>5. ASSUME NEW i \in Calls, stack'[i].mod = Main
        PROVE  i = Len(stack) - 1
    <3>1. CASE i # 1
      BY <2>3, <2>5, <3>1, OpenBelow, <1>0 DEF Rooted
    <3>2. CASE i = 1 /\ 1 # Len(stack) - 1
      <4>1. stack[Len(stack) - 1].mod \in OpenMods
        BY <1>0, <2>2, <3>2, OpenBelow DEF OpenMods
      <4>2. Main \in initialized
        BY <1>0, <2>1, <2>2, <4>1 DEF Rooted, Inits
      <4> QED BY <2>1, <2>3, <2>5, <3>2, <4>2
    <3> QED BY <3>1, <3>2
  <2>6. Open(1)' /\ Len(stack') # 1 /\ ~Process("end")'
    BY <1>0, <2>1, <2>2, <2>3, SameProcess, SMTT(30) DEF Open, Process
  <2> QED BY <2>2, <2>3, <2>4, <2>5, <2>6 DEF Rooted
<1>5. CASE InitImport
  <2>1. /\ Process("main") /\ Len(stack) >= 2 /\ stack # << >> /\ 1 \in Calls
        /\ stack[1] \in Frame /\ stack[1].next \in DOMAIN imports[stack[1].mod]
        /\ \E dep \in Modules : Pushes(Call("init", dep, 0), stack[1].next + 1)
        /\ inits' = inits
    BY <1>0, <1>5, InitCalls
  <2>2. stack[1].next >= 1 /\ stack[1].next + 1 \in Nat
    BY <1>0, <2>1, ImportLists DEF Frame
  <2>3. Open(1)
    BY <2>2 DEF Open
  <2>4. \A dep : Call("init", dep, 0).next = 0
    BY DEF Call
  <2> QED BY <1>0, <2>1, <2>2, <2>3, <2>4, RootedPushes
<1>6. CASE ExitAgain \/ ExitLocal \/ ExitImport
  <2>1. /\ Process("end") /\ ~Process("main") /\ Leaving
        /\ Len(stack) >= 2 /\ stack # << >> /\ stack[1] \in Frame
        /\ inits' = inits
    BY <1>0, <1>6, ExitStep, ExitReturns, ExitBegins, ExitTurns DEF Exits
  <2>2. CASE Pops
    BY <1>0, <2>1, <2>2, RootedPops DEF Rooted
  <2>3. CASE ~Pops
    <3>1. ExitLocal \/ ExitImport
      BY <1>0, <1>6, <2>3, ExitReturns
    <3>2. PICK k \in DOMAIN imports[stack[1].mod], dep \in Modules : Pushes(Call("exit", dep, 0), k)
      BY <1>0, <2>3, <3>1, ExitBegins, ExitTurns
    <3>3. k \in Nat /\ Call("exit", dep, 0).next = 0
      BY <1>0, <2>1, ImportLists DEF Frame, Call
    <3>4. ASSUME ~Open(1), Len(stack) # 2
          PROVE  stack[1].mod # Main
      <4>1. ~ExitImport
        BY <1>0, <3>4, ExitTurns DEF Open
      <4>2. stack[1].mod \notin exited
        BY <1>0, <3>1, <4>1, ExitBegins
      <4>3. Len(stack) - 1 \in Calls /\ Len(stack) - 1 # 1
        BY <1>0, <2>1, <3>2, <3>4, BottomPushed
      <4>4. Main \in OpenMods
        BY <1>0, <4>3, OpenBelow DEF Rooted, OpenMods
      <4> QED BY <2>1, <4>2, <4>4 DEF Leaving
    <3> QED BY <1>0, <2>1, <3>2, <3>3, <3>4, RootedPushes
  <2> QED BY <2>2, <2>3
<1> QED BY <1>1, <1>2, <1>3, <1>4, <1>5, <1>6 DEF Next

LEMMA ImportedStep ==
  ASSUME SInv, SInv', Rooted, Imported, [Next]_vars
  PROVE  Imported'
<1>0. Structure /\ TypeOK /\ Chained /\ Inits /\ Inits'
  BY DEF SInv, Structure
<1>1. CASE UNCHANGED vars
  BY <1>1 DEF vars, Imported, Awaited, Calls, Open, Process
<1>2. CASE Start \/ UserMain \/ ProcExit \/ End
  <2>1. UNCHANGED <<imports, initialized>> /\ (Process("main")' => Process("start"))
    BY <1>0, <1>2, ProcessSteps
  <2>2. Process("main")' => initialized' = {}
    BY <1>0, <2>1 DEF Inits
  <2> QED BY <2>2 DEF Imported
<1>3. CASE InitAgain \/ InitLocal
  <2>1. /\ Process("main") /\ Len(stack) >= 2 /\ stack # << >> /\ Pops
        /\ UNCHANGED <<imports, initialized>>
    BY <1>0, <1>3, InitReturns
  <2>2. \A i \in Calls' : i + 1 \in Calls /\ i + 1 # 1 /\ stack'[i] = stack[i + 1]
    BY <1>0, <2>1, CallsPopped
  <2>3. ASSUME NEW m, NEW k, Awaited(m, k)'
        PROVE  Awaited(m, k)
    <3>1. PICK i \in Calls' : Open(i)' /\ stack'[i].mod = m
             /\ (k >= stack'[i].next \/ (i = 2 /\ ~Open(1)' /\ k = stack'[2].next - 1))
      BY <2>3 DEF Awaited
    <3>2. Calls' # {} => 1 \in Calls'
      BY <1>0, <2>1, BottomPopped
    <3>3. Open(1)'
      BY <1>0, <2>2, <3>1, <3>2, OpenBelow DEF Open
    <3>4. i + 1 \in Calls /\ stack[i + 1].mod = m /\ Open(i + 1) /\ k >= stack[i + 1].next
      BY <2>2, <3>1, <3>3 DEF Open
    <3> QED BY <3>4 DEF Awaited
  <2> QED BY <2>1, <2>3 DEF Imported
<1>4. CASE InitFirst
  <2>1. /\ Process("main") /\ Len(stack) >= 2 /\ stack # << >> /\ 1 \in Calls /\ Moves(1)
        /\ stack[1] \in Frame /\ stack[1].fn = "init" /\ stack[1].next = 0
        /\ stack[1].mod \notin initialized
        /\ initialized' = initialized \cup {stack[1].mod}
        /\ imports' = imports
    BY <1>0, <1>4, InitBegins
  <2> PICK x \in Modules : x = stack[1].mod
    BY <2>1 DEF Frame
  <2>2. /\ Calls' = Calls /\ \A i \in Calls : i # 1 => stack'[i] = stack[i]
        /\ stack'[1].mod = x /\ stack'[1].next = 1
    BY <1>0, <2>1, CallsMoved DEF SameCall
  <2>3. Open(1)' /\ ~Open(1)
    BY <2>1, <2>2 DEF Open
  <2>4. /\ \A i, j \in Calls : Open(i) /\ Open(j) /\ stack[i].mod = stack[j].mod => i = j
        /\ OpenMods \subseteq initialized
    BY <1>0, <2>1 DEF Inits
  <2>5. ASSUME NEW m \in initialized, NEW k, Awaited(m, k)'
        PROVE  \E i \in Calls : i # 1 /\ Open(i) /\ stack[i].mod = m /\ k >= stack[i].next
    <3>1. PICK i \in Calls' : Open(i)' /\ stack'[i].mod = m /\ k >= stack'[i].next
      BY <2>3, <2>5 DEF Awaited
    <3>2. i # 1
      BY <2>1, <2>2, <3>1
    <3> QED BY <2>2, <3>1, <3>2 DEF Open
  <2>6. ASSUME NEW d \in initialized, d # Main
        PROVE  \E m \in initialized : \E k \in DOMAIN imports[m] : imports[m][k] = d /\ ~Awaited(m, k)'
    <3>1. PICK m \in initialized : \E k \in DOMAIN imports[m] : imports[m][k] = d /\ ~Awaited(m, k)
      BY <2>1, <2>6 DEF Imported
    <3>2. PICK k \in DOMAIN imports[m] : imports[m][k] = d /\ ~Awaited(m, k)
      BY <3>1
    <3>3. ~Awaited(m, k)'
      BY <2>5, <3>2 DEF Awaited
    <3> QED BY <3>2, <3>3
  <2>7. ASSUME x # Main
        PROVE  \E m \in initialized : \E k \in DOMAIN imports[m] : imports[m][k] = x /\ ~Awaited(m, k)'
    <3>1. Len(stack) - 1 # 1
      BY <2>1, <2>7 DEF Rooted
    <3>2. 2 \in Calls
      BY <1>0, <2>1, <3>1, CallerBelow
    <3>3. PICK m \in Modules : m = stack[2].mod
      BY <1>0, <3>2, OpenBelow
    <3>4. stack[2].fn = "init"
      BY <1>0, <2>1, <3>2, EmptySeq DEF Structure, Shape
    <3>5. PICK k \in DOMAIN imports[m] : k = stack[2].next - 1 /\ imports[m][k] = x
      BY <1>0, <3>2, <3>3, <3>4 DEF Chained, Import
    <3>6. Open(2) /\ m \in initialized
      BY <1>0, <2>4, <3>2, <3>3, OpenBelow DEF OpenMods
    <3>7. ASSUME Awaited(m, k)'
          PROVE  FALSE
      <4>1. PICK i \in Calls : i # 1 /\ Open(i) /\ stack[i].mod = m /\ k >= stack[i].next
        BY <2>5, <3>6, <3>7
      <4>2. i = 2
        BY <2>4, <3>2, <3>3, <3>6, <4>1
      <4>3. stack[2].next \in Nat
        BY <1>0, <3>2, OpenBelow
      <4> QED BY <3>5, <4>1, <4>2, <4>3
    <3> QED BY <3>5, <3>6, <3>7
  <2> QED BY <2>1, <2>6, <2>7 DEF Imported
<1>5. CASE InitImport
  <2>1. /\ Process("main") /\ Len(stack) >= 2 /\ stack # << >> /\ 1 \in Calls
        /\ stack[1] \in Frame /\ stack[1].next \in DOMAIN imports[stack[1].mod]
        /\ \E dep \in Modules : Pushes(Call("init", dep, 0), stack[1].next + 1)
        /\ UNCHANGED <<imports, initialized>>
    BY <1>0, <1>5, InitCalls
  <2>2. PICK c : Pushes(c, stack[1].next + 1) /\ c.next = 0
    BY <2>1 DEF Call
  <2>3. stack[1].next \in Nat /\ stack[1].next >= 1 /\ Open(1)
    BY <1>0, <2>1, ImportLists DEF Frame, Open
  <2>4. /\ 1 \in Calls' /\ stack'[1] = c
        /\ stack'[2].mod = stack[1].mod /\ stack'[2].next = stack[1].next + 1
        /\ \A i \in Calls' : i = 1 \/ i = 2 \/
             (i - 1 \in Calls /\ i - 1 # 1 /\ i > 2 /\ stack'[i] = stack[i - 1])
    BY <1>0, <2>1, <2>2, CallsPushed DEF SameCall
  <2>5. ASSUME NEW m \in initialized, NEW k \in DOMAIN imports[m], Awaited(m, k)'
        PROVE  Awaited(m, k)
    <3>0. k \in Nat
      BY <1>0, ImportLists DEF TypeOK
    <3>1. PICK i \in Calls' : Open(i)' /\ stack'[i].mod = m
             /\ (k >= stack'[i].next \/ (i = 2 /\ k = stack'[2].next - 1))
      BY <2>5 DEF Awaited
    <3>2. i # 1
      BY <2>2, <2>4, <3>1 DEF Open
    <3>3. CASE i = 2
      <4>1. stack[1].mod = m /\ k >= stack[1].next
        BY <2>3, <2>4, <3>0, <3>1, <3>3
      <4> QED BY <2>1, <2>3, <4>1 DEF Awaited
    <3>4. CASE i # 2
      <4>1. i - 1 \in Calls /\ stack[i - 1].mod = m /\ Open(i - 1) /\ k >= stack[i - 1].next
        BY <2>4, <3>1, <3>2, <3>4 DEF Open
      <4> QED BY <4>1 DEF Awaited
    <3> QED BY <3>3, <3>4
  <2> QED BY <2>1, <2>5 DEF Imported
<1>6. CASE ExitAgain \/ ExitLocal \/ ExitImport
  <2>1. ~Process("main")'
    BY <1>0, <1>6, ExitStep
  <2> QED BY <2>1 DEF Imported
<1> QED BY <1>1, <1>2, <1>3, <1>4, <1>5, <1>6 DEF Next

-----------------------------------------------------------------------------
(* mark[m][k] is how many inits had run when m was done with its import k, *)
(* mark[m][0] how many when its init began.                                *)
Marks == [Modules -> [Nat -> Nat]]

(* The inits that ran for the import k of m: none if it is the entry       *)
(* module, which was begun before; else its own is the last of them.       *)
Placed(mark, m, k) ==
  IF imports[m][k] = Main
    THEN mark[m][k] = mark[m][k - 1]
    ELSE /\ mark[m][k] \in DOMAIN inits /\ inits[mark[m][k]] = imports[m][k]
         /\ mark[imports[m][k]][0] = mark[m][k - 1]

(* The same of a module whose own init was the j-th that ran, ...          *)
Settled(mark, j) ==
  \A m \in Modules : m = inits[j] =>
    /\ j = mark[m][Len(imports[m])] + 1
    /\ \A k \in DOMAIN imports[m] : Placed(mark, m, k)

(* ... and of a call of init, up to the import that it waits for.          *)
Passed(mark, i) ==
  \A m \in Modules : m = stack[i].mod =>
    \A k \in DOMAIN imports[m] :
      k < stack[i].next /\ (i = 1 \/ k # stack[i].next - 1) => Placed(mark, m, k)

Entered(mark, i) ==
  i # 1 /\ Open(i - 1) => mark[stack[i - 1].mod][0] = mark[stack[i].mod][stack[i].next - 2]

InitMarks(mark) ==
  /\ \A i \in Calls : Passed(mark, i) /\ Entered(mark, i)
  /\ 1 \in Calls /\ Open(1) => mark[stack[1].mod][stack[1].next - 1] = Len(inits)
  /\ 2 \in Calls /\ ~Open(1) => mark[stack[2].mod][stack[2].next - 2] = Len(inits)

(* How many inits ran that no exit has answered. *)
Left == Len(inits) - Len(exits)

ExitMarks(mark) ==
  /\ 1 \in Calls /\ Open(1) => mark[stack[1].mod][stack[1].next - 1] = Left
  /\ 2 \in Calls /\ ~Open(1) => mark[stack[2].mod][stack[2].next] = Left

Marked(mark) ==
  /\ \A j \in DOMAIN inits : Settled(mark, j)
  /\ Process("main") => InitMarks(mark)
  /\ Process("end") => ExitMarks(mark)

(* The exits so far answer the last inits, in reverse order. *)
Backwards ==
  /\ Len(exits) <= Len(inits)
  /\ \A j \in DOMAIN exits : exits[j] = inits[Len(inits) + 1 - j]

LEMMA PlacedKept ==
  ASSUME imports' = imports, NEW mark, NEW new, NEW m, NEW k,
         Placed(mark, m, k),
         new[m][k] = mark[m][k], new[m][k - 1] = mark[m][k - 1],
         \A d \in ToSet(inits) : new[d][0] = mark[d][0],
         \A j \in DOMAIN inits : j \in DOMAIN inits' /\ inits'[j] = inits[j]
  PROVE  Placed(new, m, k)'
<1>1. CASE imports[m][k] = Main
  BY <1>1 DEF Placed
<1>2. CASE imports[m][k] # Main
  <2>1. imports[m][k] \in ToSet(inits)
    BY <1>2 DEF Placed, ToSet
  <2> QED BY <1>2, <2>1 DEF Placed
<1> QED BY <1>1, <1>2

LEMMA SettledKept ==
  ASSUME imports' = imports, NEW mark, NEW new, NEW j \in DOMAIN inits,
         Settled(mark, j),
         \A d \in ToSet(inits) : new[d] = mark[d],
         \A i \in DOMAIN inits : i \in DOMAIN inits' /\ inits'[i] = inits[i]
  PROVE  Settled(new, j)'
<1> SUFFICES ASSUME NEW m \in Modules, m = inits[j]
             PROVE  /\ j = new[m][Len(imports[m])] + 1
                    /\ \A k \in DOMAIN imports[m] : Placed(new, m, k)'
  BY DEF Settled
<1>1. /\ j = mark[m][Len(imports[m])] + 1
      /\ \A k \in DOMAIN imports[m] : Placed(mark, m, k)
  BY DEF Settled
<1>2. new[m] = mark[m]
  BY DEF ToSet
<1> QED BY <1>1, <1>2, PlacedKept, ZenonT(30)

(* Without shared imports an init that is called again is that of the      *)
(* entry module.                                                           *)
LEMMA AgainIsMain ==
  ASSUME SInv, Rooted, Imported, Unshared, InitAgain
  PROVE  stack[1].mod = Main /\ 2 \in Calls
<1>0. Structure /\ TypeOK /\ Chained /\ Inits
  BY DEF SInv, Structure
<1>1. /\ Process("main") /\ Len(stack) >= 2 /\ stack # << >> /\ 1 \in Calls
      /\ stack[1].next = 0 /\ stack[1].mod \in initialized
  BY <1>0, InitReturns
<1>2. ~Open(1) /\ 1 # 2
  BY <1>1 DEF Open
<1>3. 2 \in Calls
  <2>1. Len(stack) # 2
    BY <1>1, <1>2 DEF Rooted
  <2>2. Len(stack) - 1 # 1
    BY <1>0, <1>1, <2>1, TopIs
  <2> QED BY <1>0, <1>1, <2>2, CallerBelow
<1>4. ASSUME stack[1].mod # Main
      PROVE  FALSE
  <2>1. PICK m \in Modules : m = stack[2].mod
    BY <1>0, <1>3, OpenBelow
  <2>2. stack[2].fn = "init" /\ Open(2)
    BY <1>0, <1>1, <1>2, <1>3, OpenBelow DEF Structure, Shape
  <2>3. PICK p \in DOMAIN imports[m] : p = stack[2].next - 1 /\ imports[m][p] = stack[1].mod
    BY <1>0, <1>3, <2>1, <2>2 DEF Chained, Import
  <2>4. PICK d \in initialized : \E k \in DOMAIN imports[d] :
          imports[d][k] = stack[1].mod /\ ~Awaited(d, k)
    BY <1>1, <1>4 DEF Imported
  <2>5. PICK k \in DOMAIN imports[d] : imports[d][k] = stack[1].mod /\ ~Awaited(d, k)
    BY <2>4
  <2>6. d \in Modules
    BY <1>0 DEF TypeOK
  <2>7. stack[1].mod \in ToSet(imports[d]) /\ stack[1].mod \in ToSet(imports[m])
    BY <2>3, <2>5 DEF ToSet
  <2>8. d = m
    BY <2>1, <2>6, <2>7 DEF Unshared
  <2>9. k = p
    BY <2>1, <2>3, <2>5, <2>8 DEF Unshared, IsInjective
  <2> QED BY <1>2, <1>3, <2>1, <2>2, <2>3, <2>5, <2>8, <2>9 DEF Awaited
<1> QED BY <1>3, <1>4

(* An init begins: its mark 0 is set.                                      *)
LEMMA MarksBegin ==
  ASSUME SInv, InitFirst, NEW mark \in Marks, Marked(mark)
  PROVE  \E new \in Marks : Marked(new)'
<1>0. Structure /\ TypeOK /\ Inits
  BY DEF SInv, Structure
<1>1. /\ Process("main") /\ Len(stack) >= 2 /\ stack # << >> /\ 1 \in Calls /\ Moves(1)
      /\ stack[1] \in Frame /\ stack[1].next = 0 /\ stack[1].mod \notin initialized
      /\ imports' = imports /\ inits' = inits
  BY <1>0, InitBegins
<1> PICK x \in Modules : x = stack[1].mod
  BY <1>1 DEF Frame
<1>2. /\ Calls' = Calls /\ \A i \in Calls : i # 1 => stack'[i] = stack[i]
      /\ stack'[1].mod = x /\ stack'[1].next = 1
  BY <1>0, <1>1, CallsMoved DEF SameCall
<1>3. Open(1)' /\ ~Open(1)
  BY <1>1, <1>2 DEF Open
<1>4. /\ Process("main")' /\ ~Process("end")'
  BY <1>0, <1>1, SameProcess DEF Process
<1> PICK n \in Nat : n = Len(inits)
  BY <1>0, LenProperties DEF TypeOK
<1> DEFINE new == [mark EXCEPT ![x] = [mark[x] EXCEPT ![0] = n]]
<1>5. /\ new \in Marks /\ new[x][0] = n
      /\ \A d \in Modules : d # x => new[d] = mark[d]
  BY DEF Marks
<1> HIDE DEF new
<1>6. /\ ToSet(inits) \subseteq initialized /\ OpenMods \subseteq initialized
      /\ initialized \subseteq Modules
  BY <1>0, <1>1 DEF Inits, TypeOK
<1>7. \A d \in ToSet(inits) : new[d] = mark[d]
  BY <1>1, <1>5, <1>6
<1>8. \A i \in Calls : i # 1 => stack[i].mod \in initialized /\ Open(i)
  BY <1>0, <1>6, OpenBelow DEF OpenMods
<1>9. \A j \in DOMAIN inits' : Settled(new, j)'
  BY <1>1, <1>7, SettledKept DEF Marked
<1>10. ASSUME NEW i \in Calls'
       PROVE  Passed(new, i)' /\ Entered(new, i)'
  <2>1. CASE i = 1
    <3>1. \A k \in DOMAIN imports[x] : ~(k < 1)
      BY <1>0, ImportLists
    <3>2. Passed(new, i)'
      BY <1>1, <1>2, <2>1, <3>1 DEF Passed
    <3> QED BY <2>1, <3>2 DEF Entered
  <2>2. CASE i # 1
    <3> PICK m \in Modules : m = stack[i].mod
      BY <1>0, <1>2, OpenBelow
    <3>1. m \in initialized /\ m # x /\ new[m] = mark[m] /\ stack'[i] = stack[i]
      BY <1>1, <1>2, <1>5, <1>8, <2>2
    <3>2. Passed(mark, i) /\ Entered(mark, i)
      BY <1>1, <1>2 DEF Marked, InitMarks
    <3>3. ASSUME NEW k \in DOMAIN imports[m], k < stack[i].next, k # stack[i].next - 1
          PROVE  Placed(new, m, k)'
      <4>1. Placed(mark, m, k)
        BY <3>2, <3>3 DEF Passed
      <4> QED BY <1>1, <1>7, <3>1, <4>1, PlacedKept
    <3>4. Passed(new, i)'
      BY <1>1, <2>2, <3>1, <3>3 DEF Passed
    <3>5. Entered(new, i)'
      <4>0. stack[i].next \in Nat /\ i \in Nat /\ i >= 1
        BY <1>0, <1>2, OpenBelow DEF Calls
      <4>1. CASE i = 2
        <5>1. mark[m][stack[2].next - 2] = n
          BY <1>1, <1>2, <1>3, <4>1 DEF Marked, InitMarks
        <5> QED BY <1>2, <1>5, <3>1, <4>1, <5>1 DEF Entered
      <4>2. CASE i # 2
        <5>1. i - 1 \in Calls /\ i - 1 # 1
          BY <1>0, <1>1, <1>2, <2>2, <4>0, <4>2, TopIs DEF Calls
        <5>2. stack'[i - 1] = stack[i - 1] /\ stack[i - 1].mod \in initialized /\ Open(i - 1)
          BY <1>2, <1>8, <5>1
        <5>3. new[stack[i - 1].mod] = mark[stack[i - 1].mod]
          BY <1>1, <1>5, <1>6, <5>2
        <5> QED BY <2>2, <3>1, <3>2, <5>2, <5>3 DEF Entered
      <4> QED BY <4>1, <4>2
    <3> QED BY <3>4, <3>5
  <2> QED BY <2>1, <2>2
<1>11. InitMarks(new)'
  BY <1>1, <1>2, <1>3, <1>5, <1>10 DEF InitMarks
<1>12. Marked(new)'
  BY <1>4, <1>9, <1>11 DEF Marked
<1> QED BY <1>5, <1>12

(* An import is called: no mark is set.                                    *)
LEMMA MarksCall ==
  ASSUME SInv, InitImport, NEW mark \in Marks, Marked(mark)
  PROVE  Marked(mark)'
<1>0. Structure /\ TypeOK
  BY DEF SInv, Structure
<1>1. /\ Process("main") /\ Len(stack) >= 2 /\ stack # << >> /\ 1 \in Calls
      /\ stack[1] \in Frame /\ stack[1].next \in DOMAIN imports[stack[1].mod]
      /\ \E dep \in Modules : Pushes(Call("init", dep, 0), stack[1].next + 1)
      /\ imports' = imports /\ inits' = inits
  BY <1>0, InitCalls
<1>2. PICK c : Pushes(c, stack[1].next + 1) /\ c.next = 0
  BY <1>1 DEF Call
<1> PICK x \in Modules : x = stack[1].mod
  BY <1>1 DEF Frame
<1> PICK q \in Nat : q = stack[1].next
  BY <1>1 DEF Frame
<1>3. q >= 1 /\ Open(1)
  BY <1>0, <1>1, ImportLists DEF Open
<1>4. /\ 1 \in Calls' /\ stack'[1] = c
      /\ 2 \in Calls' /\ stack'[2].mod = x /\ stack'[2].next = q + 1
      /\ \A i \in Calls' : i = 1 \/ i = 2 \/
           (i - 1 \in Calls /\ i - 1 # 1 /\ (i - 1) - 1 \in Calls /\ i > 2 /\ stack'[i] = stack[i - 1])
      /\ \A i \in Calls' : i \in Nat
  BY <1>0, <1>1, <1>2, CallsPushed DEF SameCall
<1>5. Process("main")' /\ ~Process("end")'
  BY <1>0, <1>1, <1>2, SameProcess DEF Process
<1>6. ~Open(1)'
  BY <1>2, <1>4 DEF Open
<1>7. \A m, k : Placed(mark, m, k) => Placed(mark, m, k)'
  BY <1>1, PlacedKept
<1>8. \A j \in DOMAIN inits' : Settled(mark, j)'
  BY <1>1, SettledKept DEF Marked
<1>9. /\ \A i \in Calls : Passed(mark, i) /\ Entered(mark, i)
      /\ mark[x][q - 1] = Len(inits)
  BY <1>1, <1>3 DEF Marked, InitMarks
<1>10. ASSUME NEW i \in Calls'
       PROVE  Passed(mark, i)' /\ Entered(mark, i)'
  <2>1. CASE i = 1
    <3>1. \A m \in Modules : \A k \in DOMAIN imports[m] : ~(k < 0)
      BY <1>0, ImportLists
    <3>2. Passed(mark, i)'
      BY <1>1, <1>2, <1>4, <2>1, <3>1 DEF Passed
    <3> QED BY <2>1, <3>2 DEF Entered
  <2>2. CASE i = 2
    <3>1. ASSUME NEW k \in DOMAIN imports[x], k < q + 1, k # (q + 1) - 1
          PROVE  Placed(mark, x, k)'
      <4>1. k < q
        BY <1>0, <3>1, ImportLists
      <4> QED BY <1>1, <1>7, <1>9, <4>1 DEF Passed
    <3>2. Passed(mark, i)'
      BY <1>1, <1>4, <2>2, <3>1 DEF Passed
    <3> QED BY <1>6, <2>2, <3>2 DEF Entered
  <2>3. CASE i # 1 /\ i # 2
    <3>1. /\ i - 1 \in Calls /\ i - 1 # 1 /\ (i - 1) - 1 \in Calls /\ i > 2
          /\ stack'[i] = stack[i - 1] /\ i \in Nat
      BY <1>4, <2>3
    <3>2. Passed(mark, i)'
      BY <1>1, <1>7, <1>9, <2>3, <3>1 DEF Passed
    <3>3. stack'[i - 1].mod = stack[(i - 1) - 1].mod /\ Open((i - 1) - 1)
      <4>1. CASE i = 3
        BY <1>3, <1>4, <4>1
      <4>2. CASE i # 3
        <5>1. i - 1 # 1 /\ i - 1 # 2 /\ (i - 1) - 1 # 1
          BY <3>1, <4>2
        <5>2. i - 1 \in Calls'
          BY <1>0, <1>1, <1>2, <3>1, TopIs, BottomPushed DEF Calls
        <5> QED BY <1>0, <1>4, <3>1, <5>1, <5>2, OpenBelow
      <4> QED BY <4>1, <4>2
    <3>4. Entered(mark, i - 1)
      BY <1>9, <3>1
    <3>5. Entered(mark, i)'
      BY <3>1, <3>3, <3>4 DEF Entered
    <3> QED BY <3>2, <3>5
  <2> QED BY <2>1, <2>2, <2>3
<1>11. mark[x][(q + 1) - 2] = Len(inits)
  <2>1. (q + 1) - 2 = q - 1
    OBVIOUS
  <2> QED BY <1>9, <2>1
<1>12. InitMarks(mark)'
  BY <1>1, <1>4, <1>6, <1>10, <1>11 DEF InitMarks
<1> QED BY <1>5, <1>8, <1>12 DEF Marked

(* An init returns: the mark of the import that its caller awaits is set.  *)
LEMMA MarksReturn ==
  ASSUME SInv, Rooted, Imported, Unshared, InitAgain \/ InitLocal,
         NEW mark \in Marks, Marked(mark)
  PROVE  \E new \in Marks : Marked(new)'
<1>0. Structure /\ TypeOK /\ Inits /\ Chained /\ inits \in Seq(Modules)
  BY DEF SInv, Structure, TypeOK
<1>1. /\ Process("main") /\ Len(stack) >= 2 /\ stack # << >> /\ 1 \in Calls /\ Pops
      /\ stack[1] \in Frame /\ imports' = imports
  BY <1>0, InitReturns
<1>2. Process("main")' /\ ~Process("end")'
  BY <1>0, <1>1, SameProcess DEF Process
<1> PICK x \in Modules : x = stack[1].mod
  BY <1>1 DEF Frame
<1>3. PICK n \in Nat : n = Len(inits) /\ DOMAIN inits = 1 .. n
  BY <1>0, LenProperties
<1>4. /\ \A j \in DOMAIN inits : j \in DOMAIN inits' /\ inits'[j] = inits[j]
      /\ InitAgain => inits' = inits
      /\ InitLocal => /\ inits'[n + 1] = x /\ DOMAIN inits' = 1 .. n + 1 /\ Len(inits') = n + 1
                      /\ stack[1].next = Len(imports[x]) + 1
  <2>1. CASE InitAgain
    <3>1. inits' = inits
      BY <2>1 DEF InitAgain
    <3>2. ~InitLocal
      <4>1. InitLocal => stack[1].next = Len(imports[x]) + 1 /\ stack[1].next = 0
        BY <1>0, <2>1, InitReturns
      <4> QED BY <1>0, <4>1, ImportLists
    <3> QED BY <3>1, <3>2
  <2>2. CASE InitLocal
    <3>1. inits' = Append(inits, x) /\ stack[1].next = Len(imports[x]) + 1
      BY <1>0, <2>2, InitReturns DEF InitLocal
    <3>2. /\ inits' \in Seq(Modules) /\ Len(inits') = n + 1
          /\ \A j \in 1 .. n : inits'[j] = inits[j]
          /\ inits'[n + 1] = x
      BY <1>0, <1>3, <3>1, AppendProperties
    <3>3. DOMAIN inits' = 1 .. n + 1
      BY <3>2, LenProperties
    <3>4. ~InitAgain
      <4>1. InitAgain => stack[1].next = 0
        BY <1>0, InitReturns
      <4> QED BY <1>0, <3>1, <4>1, ImportLists
    <3> QED BY <1>3, <3>1, <3>2, <3>3, <3>4
  <2> QED BY <2>1, <2>2
<1>5. Len(inits') \in Nat
  BY <1>3, <1>4
<1>6. /\ ToSet(inits) \cap OpenMods = {}
      /\ \A i, j \in Calls : Open(i) /\ Open(j) /\ stack[i].mod = stack[j].mod => i = j
      /\ \A i \in Calls : Passed(mark, i) /\ Entered(mark, i)
  BY <1>0, <1>1 DEF Inits, Marked, InitMarks
<1>0a. imports' = imports
  BY <1>1
<1>4a. \A j \in DOMAIN inits : j \in DOMAIN inits' /\ inits'[j] = inits[j]
  BY <1>4
<1>7. ASSUME InitLocal
      PROVE  /\ Open(1) /\ mark[x][Len(imports[x])] = n
             /\ \A k \in DOMAIN imports[x] : Placed(mark, x, k)
             /\ 2 \in Calls => x # Main
  <2>1. Len(imports[x]) \in Nat /\ DOMAIN imports[x] = 1 .. Len(imports[x])
    BY <1>0, ImportLists
  <2>2. Open(1)
    BY <1>4, <1>7, <2>1 DEF Open
  <2>3. mark[x][Len(imports[x])] = n
    <3>1. mark[x][stack[1].next - 1] = n
      BY <1>1, <1>3, <2>2 DEF Marked, InitMarks
    <3>2. stack[1].next - 1 = Len(imports[x])
      BY <1>4, <1>7, <2>1
    <3> QED BY <3>1, <3>2
  <2>4. \A k \in DOMAIN imports[x] : Placed(mark, x, k)
    <3>1. \A k \in DOMAIN imports[x] : k < stack[1].next
      BY <1>4, <1>7, <2>1
    <3> QED BY <1>1, <1>6, <3>1 DEF Passed
  <2>5. 2 \in Calls => x # Main
    <3> SUFFICES ASSUME 2 \in Calls, x = Main
                 PROVE  FALSE
      OBVIOUS
    <3>1. 1 = Len(stack) - 1
      BY <1>1, <2>2 DEF Rooted
    <3>2. PICK l \in Nat : l = Len(stack) /\ 1 = l - 1
      BY <1>0, <1>1, <3>1, TopIs
    <3>3. Calls = 1 .. l - 1
      BY <3>2 DEF Calls
    <3>4. \A j \in Nat : 1 = j - 1 => 2 \notin 1 .. j - 1
      OBVIOUS
    <3> QED BY <3>2, <3>3, <3>4, Zenon
  <2> QED BY <2>2, <2>3, <2>4, <2>5
<1>8. CASE 2 \notin Calls
  <2>1. Calls' = {}
    BY <1>0, <1>1, <1>8, BottomPopped
  <2>2. InitLocal
    BY <1>8, AgainIsMain
  <2>3. \A j \in DOMAIN inits : Settled(mark, j)'
    BY <1>1, <1>4, SettledKept DEF Marked
  <2>4. Settled(mark, n + 1)'
    <3>1. \A k \in DOMAIN imports[x] : Placed(mark, x, k)'
      BY <1>1, <1>4, <1>7, <2>2, PlacedKept
    <3> QED BY <1>1, <1>4, <1>7, <2>2, <3>1 DEF Settled
  <2>5. \A j \in DOMAIN inits' : Settled(mark, j)'
    <3>1. \A j \in 1 .. n + 1 : j \in 1 .. n \/ j = n + 1
      BY <1>3
    <3> QED BY <1>3, <1>4, <2>2, <2>3, <2>4, <3>1
  <2>6. InitMarks(mark)'
    BY <2>1 DEF InitMarks
  <2> QED BY <1>2, <2>5, <2>6 DEF Marked
<1>9. CASE 2 \in Calls
  <2> PICK m \in Modules : m = stack[2].mod
    BY <1>0, <1>9, OpenBelow
  <2>1. stack[2].fn = "init" /\ stack[2].next \in Nat /\ stack[2].next >= 2
    BY <1>0, <1>1, <1>9, OpenBelow DEF Structure, Shape
  <2>2. PICK p \in Nat : p = stack[2].next - 1 /\ p >= 1 /\ stack[2].next = p + 1
    BY <2>1
  <2>3. p \in DOMAIN imports[m] /\ imports[m][p] = x
    <3>1. 2 # 1 /\ 2 - 1 = 1
      OBVIOUS
    <3> QED BY <1>0, <1>9, <2>1, <2>2, <3>1 DEF Chained, Import
  <2>4. Open(2) /\ m \in OpenMods /\ m \notin ToSet(inits)
    BY <1>0, <1>6, <1>9, OpenBelow DEF OpenMods
  <2>5. PICK new \in Marks :
          /\ new[m][p] = Len(inits')
          /\ \A d \in Modules : d # m => new[d] = mark[d]
          /\ \A k \in Nat : k # p => new[m][k] = mark[m][k]
    <3> PICK l \in Nat : l = Len(inits')
      BY <1>5
    <3> DEFINE w == [mark EXCEPT ![m] = [mark[m] EXCEPT ![p] = l]]
    <3>1. /\ w \in Marks /\ w[m][p] = l
          /\ \A d \in Modules : d # m => w[d] = mark[d]
          /\ \A k \in Nat : k # p => w[m][k] = mark[m][k]
      BY DEF Marks
    <3> QED BY <3>1
  <2>6. \A d \in ToSet(inits) : new[d] = mark[d]
    <3>1. ToSet(inits) \subseteq Modules
      BY <1>0, ElementOfSeq, LenProperties DEF ToSet
    <3> QED BY <2>4, <2>5, <3>1
  <2>7. \A d \in Modules : new[d][0] = mark[d][0]
    BY <2>2, <2>5
  <2>8. \A i \in Calls : i # 1 /\ i # 2 => stack[i].mod \in Modules /\ stack[i].mod # m /\ Open(i)
    BY <1>0, <1>6, <1>9, <2>4, OpenBelow
  <2>9. Placed(new, m, p)'
    <3>1. p - 1 \in Nat /\ p - 1 # p
      BY <2>2
    <3>2. new[m][p - 1] = mark[m][p - 1]
      BY <2>5, <3>1
    <3>3. CASE InitAgain
      <4>1. x = Main /\ stack[1].next = 0
        BY <1>0, <3>3, AgainIsMain, InitReturns
      <4>2. mark[m][stack[2].next - 2] = n
        BY <1>1, <1>3, <1>9, <4>1 DEF Marked, InitMarks, Open
      <4>3. stack[2].next - 2 = p - 1 /\ Len(inits') = n
        BY <1>3, <1>4, <2>2, <3>3
      <4>4. imports'[m][p] = Main /\ new[m][p] = new[m][p - 1]
        BY <1>0a, <2>3, <2>5, <3>2, <4>1, <4>2, <4>3
      <4> QED BY <4>4 DEF Placed
    <3>4. CASE InitLocal
      <4>1. mark[x][0] = mark[m][p - 1]
        <5>1. Entered(mark, 2) /\ 2 - 1 = 1 /\ 2 # 1
          BY <1>6, <1>9
        <5>2. stack[2].next - 2 = p - 1
          BY <2>2
        <5> QED BY <1>7, <3>4, <5>1, <5>2 DEF Entered
      <4>2. new[m][p] = n + 1 /\ n + 1 \in DOMAIN inits' /\ inits'[n + 1] = x
        BY <1>3, <1>4, <2>5, <3>4
      <4>3. x # Main
        BY <1>7, <1>9, <3>4
      <4>4. /\ imports'[m][p] = x /\ x # Main
            /\ new[x][0] = new[m][p - 1]
        BY <1>0a, <2>3, <2>7, <3>2, <4>1, <4>3
      <4> QED BY <4>2, <4>4 DEF Placed
    <3> QED BY <3>3, <3>4
  <2>10. \A j \in DOMAIN inits' : Settled(new, j)'
    <3>1. \A j \in DOMAIN inits : Settled(new, j)'
      BY <1>0a, <1>4a, <2>6, SettledKept DEF Marked
    <3>2. CASE InitAgain
      BY <1>4, <3>1, <3>2
    <3>3. CASE InitLocal
      <4>1. x # m
        BY <1>1, <1>6, <1>7, <1>9, <2>4, <3>3
      <4>2. new[x] = mark[x]
        BY <2>5, <4>1
      <4>3. \A k \in DOMAIN imports[x] : Placed(new, x, k)'
        BY <1>0a, <1>4a, <1>7, <2>6, <3>3, <4>2, PlacedKept
      <4>4. Settled(new, n + 1)'
        <5>1. inits'[n + 1] = x /\ n + 1 = new[x][Len(imports[x])] + 1
          BY <1>4, <1>7, <3>3, <4>2
        <5> QED BY <1>0a, <4>3, <5>1 DEF Settled
      <4>5. \A j \in 1 .. n + 1 : j \in 1 .. n \/ j = n + 1
        BY <1>3
      <4> QED BY <1>3, <1>4, <3>1, <3>3, <4>4, <4>5
    <3> QED BY <3>2, <3>3
  <2>11. /\ \A i \in Calls' : i + 1 \in Calls /\ i + 1 # 1 /\ stack'[i] = stack[i + 1]
         /\ \A i \in Calls' : i \in Nat /\ i >= 1
         /\ 1 \in Calls'
    <3>1. Calls' # {}
      <4>1. 2 - 1 \in Calls'
        BY <1>0, <1>1, <1>9, CallsPopped
      <4> QED BY <4>1
    <3> QED BY <1>0, <1>1, <3>1, CallsPopped, BottomPopped
  <2>12. ASSUME NEW i \in Calls'
         PROVE  Passed(new, i)' /\ Entered(new, i)'
    <3>1. CASE i = 1
      <4>1. stack'[1] = stack[2]
        BY <2>11, <3>1
      <4>2. ASSUME NEW k \in DOMAIN imports[m], k < p + 1
            PROVE  Placed(new, m, k)'
        <5>0. k \in Nat /\ k >= 1
          BY <1>0, ImportLists
        <5>1. CASE k = p
          BY <2>9, <5>1
        <5>2. CASE k # p
          <6>1. Placed(mark, m, k)
            BY <1>6, <1>9, <2>2, <4>2, <5>2 DEF Passed
          <6>2. k - 1 \in Nat /\ k - 1 # p
            BY <2>2, <4>2, <5>0
          <6> QED BY <1>0a, <1>4a, <2>5, <2>6, <5>0, <5>2, <6>1, <6>2, PlacedKept
        <5> QED BY <5>1, <5>2
      <4>3. Passed(new, i)'
        BY <1>1, <2>2, <3>1, <4>1, <4>2 DEF Passed
      <4> QED BY <3>1, <4>3 DEF Entered
    <3>2. CASE i # 1
      <4> PICK d \in Modules : d = stack[i + 1].mod
        BY <2>8, <2>11, <3>2
      <4>1. /\ i + 1 \in Calls /\ stack'[i] = stack[i + 1] /\ d # m /\ new[d] = mark[d]
            /\ i + 1 # 1 /\ i + 1 # 2
        BY <2>5, <2>8, <2>11, <3>2
      <4>2. Passed(mark, i + 1) /\ Entered(mark, i + 1)
        BY <1>6, <4>1
      <4>3. ASSUME NEW k \in DOMAIN imports[d], k < stack[i + 1].next, k # stack[i + 1].next - 1
            PROVE  Placed(new, d, k)'
        <5>1. Placed(mark, d, k)
          BY <4>2, <4>3 DEF Passed
        <5> QED BY <1>0a, <1>4a, <2>6, <4>1, <5>1, PlacedKept
      <4>4. Passed(new, i)'
        BY <1>1, <3>2, <4>1, <4>3 DEF Passed
      <4>5. Entered(new, i)'
        <5>1. i - 1 \in Calls' /\ (i - 1) + 1 = i /\ (i + 1) - 1 = i
          BY <1>0, <2>11, <3>2, <1>1, BottomPopped DEF Calls
        <5>2. i \in Calls /\ stack'[i - 1] = stack[i] /\ Open(i)
          BY <1>0, <2>11, <3>2, <5>1, OpenBelow
        <5>3. stack[i].mod \in Modules
          BY <1>0, <5>2, OpenBelow
        <5>4. new[stack[i].mod][0] = mark[stack[i].mod][0]
          BY <2>7, <5>3
        <5>5. mark[stack[i].mod][0] = mark[d][stack[i + 1].next - 2]
          BY <4>1, <4>2, <5>1, <5>2 DEF Entered
        <5>6. new[stack'[i - 1].mod][0] = new[stack'[i].mod][stack'[i].next - 2]
          BY <4>1, <5>2, <5>4, <5>5
        <5> QED BY <5>6 DEF Entered
      <4> QED BY <4>4, <4>5
    <3> QED BY <3>1, <3>2
  <2>13. Open(1)' /\ stack'[1] = stack[2]
    <3>1. stack'[1] = stack[2]
      BY <2>11
    <3> QED BY <2>1, <3>1 DEF Open
  <2>14. new[m][stack[2].next - 1] = Len(inits')
    BY <2>2, <2>5
  <2>15. InitMarks(new)'
    <3>1. new[stack'[1].mod][stack'[1].next - 1] = Len(inits')
      BY <2>13, <2>14
    <3> QED BY <2>12, <2>13, <3>1 DEF InitMarks
  <2>16. Marked(new)'
    BY <1>2, <2>10, <2>15 DEF Marked
  <2> QED BY <2>5, <2>16
<1> QED BY <1>8, <1>9

(* All that an exit is called for has been initialized.                    *)
LEMMA ExitPlaced ==
  ASSUME SInv, Process("end"), NEW mark, Marked(mark), NEW i \in Calls,
         NEW m \in Modules, m = stack[i].mod
  PROVE  \E j \in DOMAIN inits :
           /\ inits[j] = m /\ j = mark[m][Len(imports[m])] + 1
           /\ \A k \in DOMAIN imports[m] : Placed(mark, m, k)
<1>1. m \in ToSet(inits)
  BY DEF SInv, Exits, Leaving, Inits
<1> QED BY <1>1 DEF ToSet, Marked, Settled

(* The call that awaits the exit on top. *)
LEMMA ExitAwaited ==
  ASSUME SInv, Process("end"), stack # << >>, NEW mark, Marked(mark), 2 \in Calls
  PROVE  \E m \in Modules, p \in Nat :
           /\ m = stack[2].mod /\ p = stack[2].next /\ Open(2)
           /\ imports[m][p] = stack[1].mod /\ Placed(mark, m, p)
<1>0. Structure /\ TypeOK /\ Chained
  BY DEF SInv, Structure
<1>1. PICK m \in Modules : m = stack[2].mod
  BY <1>0, OpenBelow
<1>2. stack[2].fn = "exit" /\ Open(2) /\ stack[2].next \in Nat
  <2>1. ~Process("main") /\ 2 # 1
    BY DEF Process
  <2> QED BY <1>0, <2>1, OpenBelow DEF Structure, Shape
<1>3. PICK p \in DOMAIN imports[m] : p = stack[2].next /\ imports[m][p] = stack[1].mod
  <2>1. 2 # 1 /\ 2 - 1 = 1
    OBVIOUS
  <2> QED BY <1>0, <1>1, <1>2, <2>1 DEF Chained, Import
<1>4. Placed(mark, m, p)
  BY <1>1, ExitPlaced
<1> QED BY <1>1, <1>2, <1>3, <1>4

LEMMA ExitMarksPop ==
  ASSUME SInv, Len(stack) >= 2, stack # << >>, Pops, NEW mark,
         2 \in Calls => mark[stack[2].mod][stack[2].next - 1] = Left'
  PROVE  ExitMarks(mark)'
<1>0. Structure /\ TypeOK
  BY DEF SInv, Structure
<1>1. CASE Calls' = {}
  BY <1>1 DEF ExitMarks
<1>2. CASE Calls' # {}
  <2>1. 2 \in Calls /\ stack'[1] = stack[2] /\ 2 # 1
    BY <1>0, <1>2, BottomPopped
  <2>2. Open(1)'
    BY <1>0, <2>1, OpenBelow DEF Open
  <2> QED BY <2>1, <2>2 DEF ExitMarks
<1> QED BY <1>1, <1>2

LEMMA ExitMarksPush ==
  ASSUME SInv, Len(stack) >= 2, stack # << >>, NEW mark,
         NEW c, NEW k, Pushes(c, k), c.next = 0, mark[stack[1].mod][k] = Left'
  PROVE  ExitMarks(mark)'
<1>1. stack'[1] = c /\ stack'[2].mod = stack[1].mod /\ stack'[2].next = k
  BY CallsPushed DEF SInv, Structure, SameCall
<1>2. ~Open(1)'
  BY <1>1 DEF Open
<1> QED BY <1>1, <1>2 DEF ExitMarks

(* An exit is of the module whose init is the last that none has answered. *)
LEMMA ExitsAnswer ==
  ASSUME SInv, Rooted, Backwards, NEW mark, Marked(mark), ExitLocal
  PROVE  Left \in DOMAIN inits /\ inits[Left] = stack[1].mod
<1>0. Structure /\ TypeOK /\ Exits
  BY DEF SInv, Structure
<1>1. /\ Process("end") /\ Len(stack) >= 2 /\ stack # << >> /\ 1 \in Calls
      /\ stack[1].next = 0 /\ stack[1].mod \notin exited
  BY <1>0, ExitBegins
<1>2. ~Open(1)
  BY <1>1 DEF Open
<1>3. PICK n \in Nat : n = Len(inits) /\ DOMAIN inits = 1 .. n /\ inits # << >> /\ inits[n] = Main
  BY <1>0, <1>1, LenProperties DEF TypeOK, Rooted
<1>4. n >= 1
  BY <1>0, <1>3, EmptySeq DEF TypeOK
<1>5. CASE 2 \in Calls
  <2>1. PICK m \in Modules, p \in Nat :
          /\ m = stack[2].mod /\ p = stack[2].next /\ Open(2)
          /\ imports[m][p] = stack[1].mod /\ Placed(mark, m, p)
    BY <1>1, <1>5, ExitAwaited
  <2>2. mark[m][p] = Left
    BY <1>1, <1>2, <1>5, <2>1 DEF Marked, ExitMarks
  <2>3. Len(stack) - 1 \in Calls /\ Len(stack) - 1 # 1
    <3>1. PICK l \in Nat : l = Len(stack) /\ l >= 2
      BY <1>0, <1>1, TopIs
    <3>2. 2 \in 1 .. l - 1
      BY <1>5, <3>1 DEF Calls
    <3>3. l - 1 \in 1 .. l - 1 /\ l - 1 # 1
      BY <3>1, <3>2
    <3> QED BY <3>1, <3>3 DEF Calls
  <2>4. Main \in OpenMods
    BY <1>0, <2>3, OpenBelow DEF Rooted, OpenMods
  <2>5. stack[1].mod # Main
    BY <1>0, <1>1, <2>4 DEF Exits, Leaving
  <2> QED BY <2>1, <2>2, <2>5 DEF Placed
<1>6. CASE 2 \notin Calls
  <2>1. Len(stack) - 1 = 1
    BY <1>0, <1>1, <1>6, CallerBelow
  <2>2. Len(stack) = 2
    BY <1>0, <1>1, <2>1, TopIs
  <2>3. exits = << >> /\ stack[1].mod = Main
    BY <1>1, <1>2, <2>1, <2>2 DEF Rooted
  <2>4. Left = n
    BY <1>3, <2>3 DEF Left
  <2> QED BY <1>3, <1>4, <2>3, <2>4
<1> QED BY <1>5, <1>6

LEMMA MarksExit ==
  ASSUME SInv, Rooted, Backwards, NEW mark \in Marks, Marked(mark),
         ExitAgain \/ ExitLocal \/ ExitImport
  PROVE  Marked(mark)' /\ Backwards'
<1>0. Structure /\ TypeOK /\ Exits /\ inits \in Seq(Modules) /\ exits \in Seq(Modules)
  BY DEF SInv, Structure, TypeOK
<1>1. /\ Process("end") /\ Len(stack) >= 2 /\ stack # << >> /\ 1 \in Calls
      /\ stack[1] \in Frame
  BY <1>0, ExitReturns, ExitBegins, ExitTurns
<1>2. /\ imports' = imports /\ inits' = inits
      /\ Process("end")' /\ ~Process("main")'
  BY <1>0, ExitStep
<1> PICK x \in Modules : x = stack[1].mod
  BY <1>1 DEF Frame
<1>3. PICK n \in Nat, e \in Nat :
        /\ n = Len(inits) /\ e = Len(exits)
        /\ DOMAIN inits = 1 .. n /\ DOMAIN exits = 1 .. e
        /\ Left = n - e /\ e <= n
  BY <1>0, LenProperties DEF Left, Backwards
<1>4. \A j \in DOMAIN inits' : Settled(mark, j)'
  BY <1>2, SettledKept DEF Marked
<1>5. PICK j \in DOMAIN inits :
        /\ inits[j] = x /\ j = mark[x][Len(imports[x])] + 1
        /\ \A k \in DOMAIN imports[x] : Placed(mark, x, k)
  BY <1>1, ExitPlaced
<1>6. IsInjective(inits) /\ exited = ToSet(exits)
  BY DEF SInv, Inits, Exits
<1>7. ExitMarks(mark)' /\ Backwards'
  <2>1. CASE ExitAgain
    <3>1. Pops /\ stack[1].next = 0 /\ x \in exited /\ exits' = exits
      BY <1>0, <2>1, ExitReturns
    <3>2. ~Open(1) /\ Left' = Left
      BY <1>2, <3>1 DEF Open, Left
    <3>3. ASSUME 2 \in Calls
          PROVE  mark[stack[2].mod][stack[2].next - 1] = Left
      <4>1. PICK m \in Modules, p \in Nat :
              /\ m = stack[2].mod /\ p = stack[2].next /\ Open(2)
              /\ imports[m][p] = x /\ Placed(mark, m, p)
        BY <1>1, <3>3, ExitAwaited
      <4>2. mark[m][p] = Left
        BY <1>1, <3>2, <3>3, <4>1 DEF Marked, ExitMarks
      <4>3. x = Main
        <5> SUFFICES ASSUME x # Main
                     PROVE  FALSE
          OBVIOUS
        <5>1. Left \in 1 .. n /\ inits[Left] = x
          BY <1>3, <4>1, <4>2 DEF Placed
        <5>2. PICK i \in 1 .. e : exits[i] = x
          BY <1>3, <1>6, <3>1 DEF ToSet
        <5>3. inits[n + 1 - i] = x /\ n + 1 - i \in 1 .. n /\ n + 1 - i # n - e
          BY <1>3, <5>2 DEF Backwards
        <5> QED BY <1>3, <1>6, <5>1, <5>3 DEF IsInjective
      <4> QED BY <4>1, <4>2, <4>3 DEF Placed
    <3>4. Backwards'
      BY <1>2, <3>1 DEF Backwards
    <3> QED BY <1>1, <3>1, <3>2, <3>3, <3>4, ExitMarksPop
  <2>2. CASE ExitLocal
    <3>1. /\ exits' = Append(exits, x) /\ stack[1].next = 0
          /\ \/ imports[x] = << >> /\ Pops
             \/ \E k \in DOMAIN imports[x] : \E dep \in Modules :
                  k = Len(imports[x]) /\ Pushes(Call("exit", dep, 0), k)
      BY <1>0, <2>2, ExitBegins
    <3>2. Left \in 1 .. n /\ inits[Left] = x
      BY <1>3, <2>2, ExitsAnswer
    <3>3. /\ Len(exits') = e + 1 /\ exits'[e + 1] = x /\ DOMAIN exits' = 1 .. e + 1
          /\ \A i \in 1 .. e : exits'[i] = exits[i]
      <4>1. /\ exits' \in Seq(Modules) /\ Len(exits') = e + 1
            /\ \A i \in 1 .. e : exits'[i] = exits[i]
            /\ exits'[e + 1] = x
        BY <1>0, <1>3, <3>1, AppendProperties
      <4> QED BY <4>1, LenProperties
    <3>4. Left' = n - (e + 1)
      BY <1>2, <1>3, <3>3 DEF Left
    <3>5. j = n - e
      BY <1>3, <1>5, <1>6, <3>2 DEF IsInjective
    <3>6. mark[x][Len(imports[x])] = Left'
      <4>1. Len(imports[x]) \in Nat /\ mark[x][Len(imports[x])] \in Nat
        BY <1>0, ImportLists DEF Marks
      <4> QED BY <1>3, <1>5, <3>4, <3>5, <4>1, SMTT(30)
    <3>7. Backwards'
      <4>1. \A i \in 1 .. e + 1 : i \in 1 .. e \/ i = e + 1
        BY <1>3
      <4>2. n + 1 - (e + 1) = n - e
        BY <1>3
      <4>3. \A i \in 1 .. e : exits[i] = inits[n + 1 - i]
        BY <1>3 DEF Backwards
      <4>4. \A i \in 1 .. e + 1 : exits'[i] = inits[n + 1 - i]
        BY <1>3, <3>2, <3>3, <4>1, <4>2, <4>3
      <4>5. e + 1 <= n
        BY <1>3, <3>2
      <4> QED BY <1>2, <1>3, <3>3, <4>4, <4>5 DEF Backwards
    <3>8. CASE imports[x] = << >> /\ Pops
      <4>1. mark[x][0] = Left'
        BY <3>6, <3>8
      <4>2. ASSUME 2 \in Calls
            PROVE  mark[stack[2].mod][stack[2].next - 1] = Left'
        <5>1. PICK m \in Modules, p \in Nat :
                /\ m = stack[2].mod /\ p = stack[2].next /\ Open(2)
                /\ imports[m][p] = x /\ Placed(mark, m, p)
          BY <1>1, <4>2, ExitAwaited
        <5>2. x # Main
          <6>1. Len(stack) - 1 \in Calls /\ Len(stack) - 1 # 1
            <7>1. PICK l \in Nat : l = Len(stack) /\ l >= 2
              BY <1>0, <1>1, TopIs
            <7>2. 2 \in 1 .. l - 1
              BY <4>2, <7>1 DEF Calls
            <7>3. l - 1 \in 1 .. l - 1 /\ l - 1 # 1
              BY <7>1, <7>2
            <7> QED BY <7>1, <7>3 DEF Calls
          <6>2. Main \in OpenMods
            BY <1>0, <6>1, OpenBelow DEF Rooted, OpenMods
          <6>3. Main \in exited
            BY <1>0, <1>1, <6>2 DEF Exits, Leaving
          <6> QED BY <1>0, <2>2, <6>3, ExitBegins
        <5> QED BY <4>1, <5>1, <5>2 DEF Placed
      <4> QED BY <1>1, <3>7, <3>8, <4>2, ExitMarksPop
    <3>9. ASSUME NEW k \in DOMAIN imports[x], NEW dep \in Modules,
                 k = Len(imports[x]), Pushes(Call("exit", dep, 0), k)
          PROVE  ExitMarks(mark)'
      <4>1. Call("exit", dep, 0).next = 0
        BY DEF Call
      <4> QED BY <1>1, <3>6, <3>9, <4>1, ExitMarksPush
    <3> QED BY <3>1, <3>7, <3>8, <3>9
  <2>3. CASE ExitImport
    <3>1. /\ stack[1].next \in DOMAIN imports[x] /\ stack[1].next >= 1 /\ exits' = exits
          /\ \/ stack[1].next = 1 /\ Pops
             \/ \E k \in DOMAIN imports[x] : \E dep \in Modules :
                  k = stack[1].next - 1 /\ Pushes(Call("exit", dep, 0), k)
      BY <1>0, <2>3, ExitTurns
    <3>2. Open(1) /\ Left' = Left /\ Backwards'
      BY <1>2, <3>1 DEF Open, Left, Backwards
    <3>3. mark[x][stack[1].next - 1] = Left'
      BY <1>1, <3>2 DEF Marked, ExitMarks
    <3>4. CASE stack[1].next = 1 /\ Pops
      <4>1. mark[x][0] = Left'
        BY <3>3, <3>4
      <4>2. ASSUME 2 \in Calls
            PROVE  mark[stack[2].mod][stack[2].next - 1] = Left'
        <5>1. PICK m \in Modules, p \in Nat :
                /\ m = stack[2].mod /\ p = stack[2].next /\ Open(2)
                /\ imports[m][p] = x /\ Placed(mark, m, p)
          BY <1>1, <4>2, ExitAwaited
        <5>2. Len(stack) - 1 # 1
          <6>1. PICK l \in Nat : l = Len(stack) /\ l >= 2
            BY <1>0, <1>1, TopIs
          <6>2. 2 \in 1 .. l - 1
            BY <4>2, <6>1 DEF Calls
          <6> QED BY <6>1, <6>2
        <5>3. x # Main
          BY <1>1, <3>2, <5>2 DEF Rooted
        <5> QED BY <4>1, <5>1, <5>3 DEF Placed
      <4> QED BY <1>1, <3>2, <3>4, <4>2, ExitMarksPop
    <3>5. ASSUME NEW k \in DOMAIN imports[x], NEW dep \in Modules,
                 k = stack[1].next - 1, Pushes(Call("exit", dep, 0), k)
          PROVE  ExitMarks(mark)'
      <4>1. Call("exit", dep, 0).next = 0
        BY DEF Call
      <4> QED BY <1>1, <3>3, <3>5, <4>1, ExitMarksPush
    <3> QED BY <3>1, <3>2, <3>4, <3>5
  <2> QED BY <2>1, <2>2, <2>3
<1> QED BY <1>2, <1>4, <1>7 DEF Marked

(* The walk of the exits answers that of the inits.                        *)
Answers == Unshared => Backwards /\ \E mark \in Marks : Marked(mark)

ExitsInv == SInv /\ Rooted /\ Imported /\ Answers

LEMMA UnsharedKept ==
  ASSUME imports' = imports
  PROVE  Unshared' <=> Unshared
BY DEF Unshared

LEMMA AnswersStep ==
  ASSUME SInv, SInv', Rooted, Imported, Answers, [Next]_vars
  PROVE  Answers'
<1>0. Structure /\ TypeOK /\ Inits /\ Exits
  BY DEF SInv, Structure
<1>1. imports' = imports
  BY DEF Next, vars, Start, InitAgain, InitFirst, InitImport, InitLocal, UserMain,
         ProcExit, ExitAgain, ExitLocal, ExitImport, End
<1> SUFFICES ASSUME Unshared
             PROVE  Backwards' /\ \E new \in Marks : Marked(new)'
  BY <1>1, UnsharedKept DEF Answers
<1>2. PICK mark \in Marks : Marked(mark)
  BY DEF Answers
<1>3. Backwards
  BY DEF Answers
<1>4. CASE UNCHANGED vars
  <2>1. Backwards' /\ Marked(mark)'
    BY <1>2, <1>3, <1>4 DEF vars, Backwards, Marked, Settled, Placed, InitMarks, ExitMarks,
       Passed, Entered, Left, Calls, Open, Process
  <2> QED BY <2>1
<1>5. CASE Start \/ UserMain \/ ProcExit \/ End
  <2>1. /\ UNCHANGED <<imports, inits, exits>>
        /\ \A i \in Calls' : i = 1 /\ stack'[1].mod = Main /\ stack'[1].next = 0
    BY <1>0, <1>5, ProcessSteps
  <2>2. 2 \notin Calls' /\ (1 \in Calls' => ~Open(1)')
    BY <2>1 DEF Open
  <2>3. \A j \in DOMAIN inits' : Settled(mark, j)'
    BY <1>2, <2>1, SettledKept DEF Marked
  <2>4. ASSUME NEW i \in Calls'
        PROVE  Passed(mark, i)' /\ Entered(mark, i)'
    <3>1. \A m \in Modules : \A k \in DOMAIN imports[m] : ~(k < 0)
      BY <1>0, ImportLists
    <3>2. Passed(mark, i)'
      BY <2>1, <3>1 DEF Passed
    <3> QED BY <2>1, <3>2 DEF Entered
  <2>5. Marked(mark)'
    BY <2>2, <2>3, <2>4 DEF Marked, InitMarks, ExitMarks
  <2> QED BY <1>3, <2>1, <2>5 DEF Backwards
<1>6. CASE InitAgain \/ InitFirst \/ InitImport \/ InitLocal
  <2>1. /\ exits' = exits /\ Process("main") /\ inits \in Seq(Modules)
        /\ exits = << >>
    BY <1>0, <1>6, InitReturns, InitBegins, InitCalls DEF Exits, TypeOK
  <2>2. inits' \in Seq(Modules) /\ DOMAIN exits' = {} /\ Len(exits') = 0
    BY <2>1 DEF SInv, Structure, TypeOK
  <2>3. Backwards'
    BY <2>2, LenProperties DEF Backwards
  <2>4. \E new \in Marks : Marked(new)'
    BY <1>2, <1>6, MarksReturn, MarksBegin, MarksCall
  <2> QED BY <2>3, <2>4
<1>7. CASE ExitAgain \/ ExitLocal \/ ExitImport
  BY <1>2, <1>3, <1>7, MarksExit
<1> QED BY <1>4, <1>5, <1>6, <1>7 DEF Next

LEMMA ExitsInit == Init => ExitsInv
<1> SUFFICES ASSUME Init
             PROVE  ExitsInv
  OBVIOUS
<1>1. SInv
  BY LifecycleInit
<1>2. /\ stack # << >> /\ Len(stack) = 1 /\ stack[1].fn = "start" /\ Calls = {}
  BY DEF Init, Call, Calls
<1>3. ~Process("main") /\ ~Process("end") /\ DOMAIN inits = {} /\ DOMAIN exits = {}
      /\ Len(inits) = 0 /\ Len(exits) = 0
  BY <1>2 DEF Init, Process
<1>4. [m \in Modules |-> [k \in Nat |-> 0]] \in Marks
  BY DEF Marks
<1> QED BY <1>1, <1>2, <1>3, <1>4 DEF ExitsInv, Rooted, Imported, Answers, Backwards, Marked

LEMMA BackwardsIsPrefix ==
  ASSUME TypeOK, Backwards
  PROVE  IsPrefix(exits, Reverse(inits))
<1>1. PICK n \in Nat, e \in Nat :
        /\ n = Len(inits) /\ e = Len(exits) /\ e <= n
        /\ DOMAIN inits = 1 .. n /\ DOMAIN exits = 1 .. e
  BY LenProperties DEF TypeOK, Backwards
<1>2. inits \in Seq(Modules) /\ exits \in Seq(Modules)
  BY DEF TypeOK
<1> PICK r : r = Reverse(inits)
  OBVIOUS
<1>3. r = [i \in 1 .. n |-> inits[(n - i) + 1]]
  BY <1>1 DEF Reverse
<1>4. \A i \in 1 .. n : (n - i) + 1 \in 1 .. n /\ (n - i) + 1 = n + 1 - i
  BY <1>1
<1>5. r \in Seq(Modules) /\ Len(r) = n
  <2>1. \A i \in 1 .. n : inits[(n - i) + 1] \in Modules
    BY <1>1, <1>2, <1>4, ElementOfSeq
  <2> QED BY <1>3, <2>1
<1>6. /\ SubSeq(exits, 1, e) \in Seq(Modules) /\ Len(SubSeq(exits, 1, e)) = e
      /\ \A i \in 1 .. e : SubSeq(exits, 1, e)[i] = exits[i]
  <2>1. \A i \in 1 .. e : exits[i] \in Modules /\ 1 + i - 1 = i
    BY <1>1, <1>2, ElementOfSeq
  <2>2. e - 1 + 1 = e /\ (1 <= e \/ e = 0) /\ 1 \in Int /\ e \in Int
    BY <1>1
  <2> QED BY <2>1, <2>2, SubSeqProperties
<1>7. /\ SubSeq(r, 1, e) \in Seq(Modules) /\ Len(SubSeq(r, 1, e)) = e
      /\ \A i \in 1 .. e : SubSeq(r, 1, e)[i] = r[i]
  <2>1. \A i \in 1 .. e : i \in 1 .. n /\ 1 + i - 1 = i
    BY <1>1
  <2>2. \A i \in 1 .. e : r[i] \in Modules
    BY <1>5, <2>1, ElementOfSeq
  <2>3. e - 1 + 1 = e /\ (1 <= e \/ e = 0) /\ 1 \in Int /\ e \in Int
    BY <1>1
  <2> QED BY <2>1, <2>2, <2>3, SubSeqProperties
<1>8. \A i \in 1 .. e : exits[i] = r[i]
  <2>1. \A i \in 1 .. e : i \in 1 .. n /\ exits[i] = inits[n + 1 - i]
    BY <1>1 DEF Backwards
  <2> QED BY <1>3, <1>4, <2>1
<1>9. SubSeq(exits, 1, e) = SubSeq(r, 1, e)
  BY <1>6, <1>7, <1>8, SeqEqual
<1> QED BY <1>1, <1>5, <1>9 DEF IsPrefix

(* Where no module is imported twice, exits come in the exact reverse      *)
(* order of the inits, import cycles through the entry module included.    *)
THEOREM ExitsReverse == Spec => []UnsharedExitsReverse
<1>1. ExitsInv /\ [Next]_vars => ExitsInv'
  BY SafetyStep, RootedStep, ImportedStep, AnswersStep DEF ExitsInv
<1>2. ExitsInv => UnsharedExitsReverse
  BY BackwardsIsPrefix DEF ExitsInv, SInv, Structure, Answers, UnsharedExitsReverse
<1> QED BY <1>1, <1>2, ExitsInit, PTL DEF Spec
=============================================================================
