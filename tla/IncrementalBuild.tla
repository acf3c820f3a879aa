-------------------------- MODULE IncrementalBuild --------------------------
(***************************************************************************)
(* `come build` and `come genc` (src/src/core/come_compiler.c): a file is  *)
(* parsed, its imports are compiled, and then it is transpiled to C if it  *)
(* or the compiler is newer than the cached C file, and compiled if one of *)
(* them is newer than the object file; at the end the objects are linked.  *)
(* "Newer" compares modification times in seconds.                         *)
(*                                                                         *)
(* compile_file calls itself for every import; its calls are a stack here. *)
(* The user saves files and installs compilers at any moment, a build can  *)
(* be interrupted at any step, and time passes.                            *)
(***************************************************************************)
EXTENDS Integers, Sequences, SequencesExt

CONSTANTS
  Files,      \* the source files
  Main,       \* the entry file
  Projects,   \* the import lists considered: a set of [Files -> Seq(Files)]
  Object,     \* the object file of each source file
  Enums,      \* how many enum values, which carry on from those generated
              \* before, the C of each source file has
  MaxSaves,   \* bound, in each project, on how many saves and installs there are
  MaxTime     \* bound on the clock, in seconds, likewise

ASSUME FilesAssumption == Main \in Files /\ Projects \subseteq [Files -> Seq(Files)]
ASSUME EnumsAssumption == Enums \in [Files -> Nat]
ASSUME BoundsAssumption ==
  MaxSaves \in [Projects -> Nat] /\ MaxTime \in [Projects -> Nat \ {0}]

(* An object file is named after the base name of its source file: sources *)
(* of one name in two directories share it.  It is assumed that none do.   *)
ASSUME ObjectAssumption == IsInjective(Object) /\ DOMAIN Object = Files

VARIABLES
  imports,   \* the import lists of this project
  clock,     \* the time, in seconds
  saves,     \* how many times a file or the compiler was replaced: it names
             \* the texts and the compilers in the order they were made in
  source,    \* source[f]: [text, fault, mtime]
  compiler,  \* the compiler: [version, mtime]
  ccache,    \* ccache[f]: the C file of f, [text, version, first, state,
             \* mtime]: first is its first enum value
  object,    \* object[o]: the object file o, likewise
  stack,     \* the running calls of compile_file, the innermost first
  visited,   \* g_visited_files, with the source each of them was parsed from
  objects,   \* g_object_files
  counter,   \* enum_counter: the next enum value that is generated
  mode       \* "idle", "build" or "genc" (with -o)

files == <<source, compiler, ccache, object>>
build == <<stack, visited, objects, counter, mode>>
vars == <<imports, clock, saves, files, build>>

(* A file that does not exist has modification time 0. *)
Missing == [text |-> 0, version |-> 0, first |-> 0, state |-> "missing", mtime |-> 0]

-----------------------------------------------------------------------------
Init ==
  /\ imports \in Projects
  /\ clock = 1 /\ saves = 0
  /\ source = [f \in Files |-> [text |-> 0, fault |-> "none", mtime |-> 1]]
  /\ compiler = [version |-> 0, mtime |-> 1]
  /\ ccache = [f \in Files |-> Missing]
  /\ object = [o \in {Object[f] : f \in Files} |-> Missing]
  /\ stack = << >> /\ visited = << >> /\ objects = << >>
  /\ counter = 0 /\ mode = "idle"

Tick ==
  /\ clock < MaxTime[imports]
  /\ clock' = clock + 1
  /\ UNCHANGED <<imports, saves, files, build>>

(* The user saves a text that codegen rejects, or one that it does not.    *)
(* The parser rejects none: it reports what it does not expect and goes on.*)
Save(f, fault) ==
  /\ saves < MaxSaves[imports]
  /\ saves' = saves + 1
  /\ source' = [source EXCEPT ![f] =
                  [text |-> saves + 1, fault |-> fault, mtime |-> clock]]
  /\ UNCHANGED <<imports, clock, compiler, ccache, object, build>>

(* A file is removed, between two builds. *)
Delete(f) ==
  /\ mode = "idle" /\ saves < MaxSaves[imports] /\ source[f].fault # "absent"
  /\ saves' = saves + 1
  /\ source' = [source EXCEPT ![f] =
                  [text |-> saves + 1, fault |-> "absent", mtime |-> 0]]
  /\ UNCHANGED <<imports, clock, compiler, ccache, object, build>>

(* A new compiler is installed, between two builds. *)
Install ==
  /\ mode = "idle" /\ saves < MaxSaves[imports]
  /\ saves' = saves + 1
  /\ compiler' = [version |-> saves + 1, mtime |-> clock]
  /\ UNCHANGED <<imports, clock, source, ccache, object, build>>

-----------------------------------------------------------------------------
Frame(f, stage, next) == [file |-> f, stage |-> stage, next |-> next]

Top == Head(stack)

At(stage) == stack # << >> /\ Top.stage = stage

Goto(stage, next) == stack' = <<Frame(Top.file, stage, next)>> \o Tail(stack)

(* The process ends, and what it knew is gone. *)
Exit == /\ stack' = << >> /\ visited' = << >> /\ objects' = << >>
        /\ counter' = 0 /\ mode' = "idle"

(* main(): the command line is read. *)
Start(m) ==
  /\ mode = "idle"
  /\ mode' = m
  /\ stack' = <<Frame(Main, "enter", 0)>>
  /\ UNCHANGED <<imports, clock, saves, files, visited, objects, counter>>

(* compile_file is called: a file that was visited is left alone, another  *)
(* is parsed; if it cannot be opened, the process ends.                    *)
Enter ==
  /\ At("enter")
  /\ LET f == Top.file
     IN \/ /\ f \in DOMAIN visited
           /\ stack' = Tail(stack)
           /\ UNCHANGED <<visited, objects, counter, mode>>
        \/ /\ f \notin DOMAIN visited /\ source[f].fault = "absent"
           /\ Exit
        \/ /\ f \notin DOMAIN visited /\ source[f].fault # "absent"
           /\ visited' = [g \in DOMAIN visited \cup {f} |->
                            IF g = f THEN source[f] ELSE visited[g]]
           /\ Goto("imports", 1)
           /\ UNCHANGED <<objects, counter, mode>>
  /\ UNCHANGED <<imports, clock, saves, files>>

(* Mutant of Import: the same import is compiled again and again. *)
ImportStuck ==
  /\ At("imports")
  /\ LET list == imports[Top.file]
         i == Top.next
     IN \/ /\ i \in DOMAIN list /\ source[list[i]].fault = "absent"
           /\ Exit
        \/ /\ i \in DOMAIN list /\ source[list[i]].fault # "absent"
           /\ stack' = <<Frame(list[i], "enter", 0)>> \o stack
           /\ UNCHANGED <<visited, objects, counter, mode>>
        \/ /\ i \notin DOMAIN list
           /\ Goto("check", 0)
           /\ UNCHANGED <<visited, objects, counter, mode>>
  /\ UNCHANGED <<imports, clock, saves, files>>

(* The imports are compiled, each of them by a call; one that is not found *)
(* ends the process.                                                       *)
Import ==
  /\ At("imports")
  /\ LET list == imports[Top.file]
         i == Top.next
     IN \/ /\ i \in DOMAIN list /\ source[list[i]].fault = "absent"
           /\ Exit
        \/ /\ i \in DOMAIN list /\ source[list[i]].fault # "absent"
           /\ stack' = <<Frame(list[i], "enter", 0),
                         Frame(Top.file, "imports", i + 1)>> \o Tail(stack)
           /\ UNCHANGED <<visited, objects, counter, mode>>
        \/ /\ i \notin DOMAIN list
           /\ Goto("check", 0)
           /\ UNCHANGED <<visited, objects, counter, mode>>
  /\ UNCHANGED <<imports, clock, saves, files>>

(* In genc the C of the entry file goes where -o says: it is written       *)
(* whatever the times are, and neither compiled nor linked.                *)
Forced == mode = "genc" /\ Top.file = Main

(* Mutant of NeedTranspile: files of the same second are not trusted. *)
NeedTranspileEqual(f) ==
  \/ source[f].mtime >= ccache[f].mtime
  \/ compiler.mtime > ccache[f].mtime

NeedTranspile(f) ==
  \/ source[f].mtime > ccache[f].mtime
  \/ compiler.mtime > ccache[f].mtime

(* Mutant of NeedCompile: a C file newer than its object is not seen. *)
NeedCompileBySource(f) ==
  LET t == object[Object[f]].mtime
  IN NeedTranspile(f) \/ source[f].mtime > t \/ compiler.mtime > t \/ t = 0

NeedCompile(f) ==
  LET t == object[Object[f]].mtime
  IN \/ NeedTranspile(f)
     \/ ccache[f].mtime > t \/ source[f].mtime > t \/ compiler.mtime > t
     \/ t = 0

(* The call returns, and the object is one to link. *)
Return(f) ==
  /\ objects' = <<Object[f]>> \o objects
  /\ stack' = Tail(stack)

(* Mutant of Check: an object that is up to date is not linked. *)
CheckSkips ==
  /\ At("check")
  /\ LET f == Top.file
     IN \/ /\ Forced \/ NeedTranspile(f)
           /\ Goto("transpile", 0)
        \/ /\ ~Forced /\ ~NeedTranspile(f) /\ NeedCompile(f)
           /\ Goto("compile", 0)
        \/ /\ ~Forced /\ ~NeedCompile(f)
           /\ stack' = Tail(stack)
  /\ UNCHANGED <<imports, clock, saves, files, visited, objects, counter, mode>>

(* The modification times are read. *)
Check ==
  /\ At("check")
  /\ LET f == Top.file
     IN \/ /\ Forced \/ NeedTranspile(f)
           /\ Goto("transpile", 0)
           /\ UNCHANGED objects
        \/ /\ ~Forced /\ ~NeedTranspile(f) /\ NeedCompile(f)
           /\ Goto("compile", 0)
           /\ UNCHANGED objects
        \/ /\ ~Forced /\ ~NeedCompile(f)
           /\ Return(f)
  /\ UNCHANGED <<imports, clock, saves, files, visited, counter, mode>>

(* The C file that codegen makes of the parsed text, all of it or, when it *)
(* is interrupted, some of it.                                             *)
CFile(f, state) == [text |-> visited[f].text, version |-> compiler.version,
                    first |-> IF Enums[f] = 0 THEN 0 ELSE counter,
                    state |-> state, mtime |-> clock]

(* generate_c_from_ast writes the C file as it goes: a text it rejects has *)
(* its C file too, without what was rejected, and the process ends.        *)
Transpile ==
  /\ At("transpile")
  /\ LET f == Top.file
         fault == visited[f].fault
     IN /\ ccache' = IF Forced THEN ccache
                     ELSE [ccache EXCEPT ![f] =
                             CFile(f, IF fault = "none" THEN "whole" ELSE "rejected")]
        /\ \/ /\ fault # "none"
              /\ Exit
           \/ /\ fault = "none"
              /\ counter' = counter + Enums[f]
              /\ IF Forced THEN stack' = Tail(stack) ELSE Goto("compile", 0)
              /\ UNCHANGED <<visited, objects, mode>>
  /\ UNCHANGED <<imports, clock, saves, source, compiler, object>>

(* gcc -c; when it fails the object file is as it was or removed, and the  *)
(* process ends.  Any C file may be one that gcc accepts.                  *)
Compile ==
  /\ At("compile")
  /\ LET f == Top.file
     IN \/ /\ object' = [object EXCEPT ![Object[f]] = [ccache[f] EXCEPT !.mtime = clock]]
           /\ Return(f)
           /\ UNCHANGED <<visited, counter, mode>>
        \/ /\ \/ object' = [object EXCEPT ![Object[f]] = Missing]
              \/ UNCHANGED object
           /\ Exit
  /\ UNCHANGED <<imports, clock, saves, source, compiler, ccache>>

(* The last call of compile_file has returned: the objects are linked, or  *)
(* genc has finished; the process ends.                                    *)
Finish ==
  /\ mode # "idle" /\ stack = << >>
  /\ Exit
  /\ UNCHANGED <<imports, clock, saves, files>>

(* The build is interrupted, perhaps while it writes a file. *)
Interrupt ==
  /\ mode # "idle"
  /\ Exit
  /\ \/ UNCHANGED <<ccache, object>>
     \/ /\ At("transpile") /\ ~Forced
        /\ ccache' = [ccache EXCEPT ![Top.file] = CFile(Top.file, "partial")]
        /\ UNCHANGED object
     \/ /\ At("compile")
        /\ object' = [object EXCEPT ![Object[Top.file]] = Missing]
        /\ UNCHANGED ccache
  /\ UNCHANGED <<imports, clock, saves, source, compiler>>

Running == Enter \/ Import \/ Check \/ Transpile \/ Compile \/ Finish

Next ==
  \/ Running \/ Interrupt
  \/ Tick \/ Install
  \/ \E f \in Files : Delete(f) \/ \E fault \in {"none", "types"} : Save(f, fault)
  \/ \E m \in {"build", "genc"} : Start(m)

(* A build that is not interrupted goes on. *)
Spec == Init /\ [][Next]_vars /\ WF_vars(Running)

-----------------------------------------------------------------------------
Stages == {"enter", "imports", "check", "transpile", "compile"}

Source == [text : 0 .. saves, mtime : 0 .. clock, fault : {"none", "types", "absent"}]

Generated == [text : Nat, version : Nat, first : Nat, mtime : Nat,
              state : {"missing", "whole", "rejected", "partial"}]

TypeOK ==
  /\ imports \in Projects
  /\ clock \in 1 .. MaxTime[imports] /\ saves \in 0 .. MaxSaves[imports]
  /\ source \in [Files -> Source]
  /\ compiler \in [version : 0 .. saves, mtime : 1 .. clock]
  /\ ccache \in [Files -> Generated]
  /\ object \in [{Object[f] : f \in Files} -> Generated]
  /\ stack \in Seq([file : Files, next : Nat, stage : Stages])
  /\ DOMAIN visited \subseteq Files /\ visited \in [DOMAIN visited -> Source]
  /\ objects \in Seq({Object[f] : f \in Files})
  /\ counter \in Nat
  /\ mode \in {"idle", "build", "genc"}

Linking == mode = "build" /\ stack = << >>

(* The files the entry file needs: the least set that has it and the       *)
(* imports of its members.                                                 *)
Needed ==
  {f \in Files :
     \A S \in SUBSET Files :
       Main \in S /\ (\A g \in S : ToSet(imports[g]) \subseteq S) => f \in S}

(* What is linked is every file that the entry file needs, each once,      *)
(* whether files are imported twice or import each other.                  *)
EachLinkedOnce ==
  Linking => /\ DOMAIN visited = Needed
             /\ IsInjective(objects)
             /\ ToSet(objects) = {Object[f] : f \in Needed}

MadeFrom(g, f) == /\ g.text = visited[f].text
                  /\ g.version = compiler.version
                  /\ g.state = "whole"

(* What is linked was made from the text that this build has parsed, by    *)
(* this compiler, in spite of every failed, interrupted or overtaken build *)
(* before: unless the cached C file is one of those that a failed or       *)
(* interrupted transpilation leaves, or a file was made in the second in   *)
(* which, or from a text parsed before, what it is made from was replaced. *)
StaleOnlyIfTimesLie ==
  Linking => \A f \in DOMAIN visited :
    LET c == ccache[f]
        o == object[Object[f]]
    IN \/ MadeFrom(o, f)
       \/ c.state # "whole"
       \/ /\ ~MadeFrom(c, f)
          /\ c.mtime >= visited[f].mtime /\ c.mtime >= compiler.mtime
       \/ MadeFrom(c, f) /\ o.mtime = c.mtime

(* A text is not transpiled twice by one compiler, however many builds     *)
(* there are and however they end, unless the first time failed or the     *)
(* file is saved while it is built.                                        *)
NoNeedlessTranspile ==
  [][\A f \in Files :
       ccache'[f] # ccache[f] /\ source[f] = visited[f] => ~MadeFrom(ccache[f], f)]_vars

(* A program that codegen rejects is never linked. *)
RejectedNeverLinked ==
  Linking => \A f \in DOMAIN visited : object[Object[f]].state # "rejected"

(* The first enum value of f when nothing is cached: the files before it   *)
(* are those whose calls return before.                                    *)
CleanFirst(f) ==
  LET before == {g \in DOMAIN visited :
                   \E i, j \in DOMAIN objects :
                     i < j /\ objects[i] = Object[f] /\ objects[j] = Object[g]}
  IN IF Enums[f] = 0 THEN 0 ELSE FoldFunctionOnSet(+, 0, Enums, before)

(* A build that finds files in the cache, all of them made from what they  *)
(* should be made from, links the program that a build that finds none     *)
(* would: the values of its enums are the same.                            *)
CacheKeepsValues ==
  Linking /\ (\A f \in DOMAIN visited : MadeFrom(object[Object[f]], f))
    => \A f \in DOMAIN visited : object[Object[f]].first = CleanFirst(f)

(* A build that is not interrupted ends, also one of files that import     *)
(* each other.                                                             *)
BuildEnds == (mode # "idle") ~> (mode = "idle")
=============================================================================
