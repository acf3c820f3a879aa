-------------------------- MODULE ModuleLifecycle ---------------------------
(***************************************************************************)
(* The life of the modules of a Come program: the C that codegen emits     *)
(* around the user's code (src/src/core/codegen.c).  The emitted main()    *)
(* makes the context of the entry module, calls its init, the user's main, *)
(* its exit, and frees the context.  The init of a module gives every      *)
(* imported local module a context, as a child of its own, and calls its   *)
(* init, in the order of the imports, before its own init_local; the exit  *)
(* of a module runs its exit_local and then, in the reverse order, the     *)
(* exit of every import, whose context it frees.  Static flags let each    *)
(* run once.                                                               *)
(*                                                                         *)
(* The calls are a stack; a step is a call, a return, or one turn of the   *)
(* unrolled list of imports.  The contexts are blocks of module Ownership, *)
(* one for each module.                                                    *)
(***************************************************************************)
EXTENDS Naturals, Sequences, SequencesExt, FiniteSets

CONSTANTS
  Modules,    \* the modules of the program
  Main,       \* the entry module
  System,     \* the system modules, which have no context
  Programs,   \* the import lists considered: a set of [Modules -> Seq(Modules)]
  NULL,       \* a context pointer that is not set, or the root context
  Dead,       \* the owner of a context that is not allocated
  MayRunOut   \* TRUE if a context may not be had

ASSUME MainAssumption == Main \in Modules \ System
ASSUME NamesAssumption == NULL # Dead /\ {NULL, Dead} \cap Modules = {}
ASSUME ProgramsAssumption == Programs \subseteq [Modules -> Seq(Modules)]

VARIABLES
  imports,      \* the import lists of this program
  initialized,  \* the modules whose static flag initialized is set
  exited,       \* the modules whose static flag exited is set
  ctx,          \* the modules M whose come_M__ctx is not NULL
  owner,        \* the ownership of the contexts
  stack,        \* the running calls, the innermost first
  inits,        \* the modules whose init_local has run, in order
  exits         \* the modules whose exit_local has run, in order

vars == <<imports, initialized, exited, ctx, owner, stack, inits, exits>>

Contexts == INSTANCE Ownership WITH Blocks <- Modules, Root <- NULL,
                                    parent <- owner

Call(fn, mod, next) == [fn |-> fn, mod |-> mod, next |-> next]

-----------------------------------------------------------------------------
Init ==
  /\ imports \in Programs
  /\ initialized = {} /\ exited = {} /\ ctx = {}
  /\ owner = [d \in Modules |-> Dead]
  /\ stack = <<Call("start", Main, 0)>>
  /\ inits = << >> /\ exits = << >>

Top == Head(stack)

Running(fn) == stack # << >> /\ Top.fn = fn

(* The running call goes on at next. *)
Advance(next) == <<[Top EXCEPT !.next = next]>> \o Tail(stack)

(* main(): COME_CTX = mem_talloc_new_ctx(NULL), then the chain of inits;   *)
(* without a context the program ends at once.                             *)
Start ==
  /\ Running("start")
  /\ \/ /\ ctx' = ctx \cup {Main}
        /\ Contexts!Alloc(NULL, Main)
        /\ stack' = <<Call("init", Main, 0), Call("main", Main, 0)>>
     \/ /\ MayRunOut
        /\ stack' = << >>
        /\ UNCHANGED <<ctx, owner>>
  /\ UNCHANGED <<imports, initialized, exited, inits, exits>>

(* come_M__init() of a module that is initialized, or being initialized,   *)
(* returns.                                                                *)
InitAgain ==
  /\ Running("init") /\ Top.next = 0
  /\ Top.mod \in initialized
  /\ stack' = Tail(stack)
  /\ UNCHANGED <<imports, initialized, exited, ctx, owner, inits, exits>>

(* come_M__init() called for the first time sets the flag. *)
InitFirst ==
  /\ Running("init") /\ Top.next = 0
  /\ Top.mod \notin initialized
  /\ initialized' = initialized \cup {Top.mod}
  /\ stack' = Advance(1)
  /\ UNCHANGED <<imports, exited, ctx, owner, inits, exits>>

(* Mutants of InitImport: an import is skipped; system modules are given   *)
(* contexts too.                                                           *)
InitImportSkips ==
  /\ Running("init") /\ Top.next \in DOMAIN imports[Top.mod]
  /\ LET dep == imports[Top.mod][Top.next]
     IN /\ dep \notin System \cup ctx
        /\ Contexts!Alloc(NULL, dep)
        /\ ctx' = ctx \cup {dep}
        /\ stack' = <<Call("init", dep, 0)>> \o Advance(Top.next + 2)
  /\ UNCHANGED <<imports, initialized, exited, inits, exits>>

InitImportSystem ==
  /\ Running("init") /\ Top.next \in DOMAIN imports[Top.mod]
  /\ LET dep == imports[Top.mod][Top.next]
     IN /\ dep \notin ctx
        /\ Contexts!Alloc(NULL, dep)
        /\ ctx' = ctx \cup {dep}
        /\ stack' = <<Call("init", dep, 0)>> \o Advance(Top.next + 1)
  /\ UNCHANGED <<imports, initialized, exited, inits, exits>>

(* One import of the running init: a local module that has no context gets *)
(* one below COME_CTX, and its init is called.                             *)
InitImport ==
  /\ Running("init") /\ Top.next \in DOMAIN imports[Top.mod]
  /\ LET dep == imports[Top.mod][Top.next]
         here == IF Top.mod \in ctx THEN Top.mod ELSE NULL
     IN /\ \/ /\ dep \notin System \cup ctx
              /\ Contexts!Alloc(here, dep)
              /\ ctx' = ctx \cup {dep}
           \/ /\ dep \in System \cup ctx \/ MayRunOut
              /\ UNCHANGED <<ctx, owner>>
        /\ stack' = <<Call("init", dep, 0)>> \o Advance(Top.next + 1)
  /\ UNCHANGED <<imports, initialized, exited, inits, exits>>

(* After its imports, the module's own init. *)
InitLocal ==
  /\ Running("init") /\ Top.next = Len(imports[Top.mod]) + 1
  /\ inits' = Append(inits, Top.mod)
  /\ stack' = Tail(stack)
  /\ UNCHANGED <<imports, initialized, exited, ctx, owner, exits>>

(* The user's main runs and returns, and the chain of exits begins. *)
UserMain ==
  /\ Running("main")
  /\ stack' = <<Call("exit", Main, 0), Call("end", Main, 0)>>
  /\ UNCHANGED <<imports, initialized, exited, ctx, owner, inits, exits>>

(* The user's main ends the process: std.proc.exit() is exit(), and no one *)
(* registers the chain of exits with atexit.                               *)
ProcExit ==
  /\ Running("main")
  /\ stack' = << >>
  /\ UNCHANGED <<imports, initialized, exited, ctx, owner, inits, exits>>

(* come_M__exit() of a module that has exited, or is exiting, returns. *)
ExitAgain ==
  /\ Running("exit") /\ Top.next = 0
  /\ Top.mod \in exited
  /\ stack' = Tail(stack)
  /\ UNCHANGED <<imports, initialized, exited, ctx, owner, inits, exits>>

(* Mutant of ExitLocal: the imports exit in the order they are listed in. *)
ExitLocalForward ==
  /\ Running("exit") /\ Top.next = 0
  /\ Top.mod \notin exited
  /\ exited' = exited \cup {Top.mod}
  /\ exits' = Append(exits, Top.mod)
  /\ stack' = [i \in DOMAIN imports[Top.mod] |->
                  Call("exit", imports[Top.mod][i], 0)] \o Tail(stack)
  /\ UNCHANGED <<imports, initialized, ctx, owner, inits>>

(* The module's own exit comes first. *)
ExitLocal ==
  /\ Running("exit") /\ Top.next = 0
  /\ Top.mod \notin exited
  /\ exited' = exited \cup {Top.mod}
  /\ exits' = Append(exits, Top.mod)
  /\ stack' = IF imports[Top.mod] = << >>
                THEN Tail(stack)
                ELSE <<Call("exit", Last(imports[Top.mod]), 0)>>
                       \o Advance(Len(imports[Top.mod]))
  /\ UNCHANGED <<imports, initialized, ctx, owner, inits>>

(* Mutants of ExitImport: the pointer to the freed context is not cleared; *)
(* the import before it is never reached.                                  *)
ExitImportDangling ==
  /\ Running("exit") /\ Top.next \in DOMAIN imports[Top.mod]
  /\ LET dep == imports[Top.mod][Top.next]
     IN IF dep \in ctx /\ dep \in Contexts!Live THEN Contexts!Free(dep)
                                                 ELSE UNCHANGED owner
  /\ stack' = IF Top.next = 1
                THEN Tail(stack)
                ELSE <<Call("exit", imports[Top.mod][Top.next - 1], 0)>>
                       \o Advance(Top.next - 1)
  /\ UNCHANGED <<imports, initialized, exited, ctx, inits, exits>>

ExitImportStuck ==
  /\ Running("exit") /\ Top.next \in DOMAIN imports[Top.mod]
  /\ stack' = <<Call("exit", imports[Top.mod][Top.next], 0)>> \o stack
  /\ UNCHANGED <<imports, initialized, exited, ctx, owner, inits, exits>>

(* An import's exit has returned: its context is freed with all contexts   *)
(* below it, its pointer is cleared, and the import before it is next.     *)
(* Freeing a context that is gone already is an error of the program, that *)
(* shows as NoDanglingContext and leaves the other contexts alone.         *)
ExitImport ==
  /\ Running("exit") /\ Top.next \in DOMAIN imports[Top.mod]
  /\ LET dep == imports[Top.mod][Top.next]
     IN /\ ctx' = ctx \ {dep}
        /\ IF dep \in ctx \ System /\ dep \in Contexts!Live
             THEN Contexts!Free(dep)
             ELSE UNCHANGED owner
  /\ stack' = IF Top.next = 1
                THEN Tail(stack)
                ELSE <<Call("exit", imports[Top.mod][Top.next - 1], 0)>>
                       \o Advance(Top.next - 1)
  /\ UNCHANGED <<imports, initialized, exited, inits, exits>>

(* Mutant of End: the entry module's context is not freed. *)
EndUnfreed ==
  /\ Running("end")
  /\ stack' = << >>
  /\ UNCHANGED <<imports, initialized, exited, ctx, owner, inits, exits>>

(* The end of main(): mem_talloc_free(COME_CTX), and the process ends. *)
End ==
  /\ Running("end")
  /\ IF Main \in ctx /\ Main \in Contexts!Live THEN Contexts!Free(Main)
                                                ELSE UNCHANGED owner
  /\ stack' = << >>
  /\ UNCHANGED <<imports, initialized, exited, ctx, inits, exits>>

Next == \/ Start
        \/ InitAgain \/ InitFirst \/ InitImport \/ InitLocal
        \/ UserMain \/ ProcExit
        \/ ExitAgain \/ ExitLocal \/ ExitImport
        \/ End

(* The process runs until it ends; the user's main may run for ever. *)
Spec == Init /\ [][Next]_vars /\ WF_vars(Next /\ ~Running("main"))

-----------------------------------------------------------------------------
TypeOK ==
  /\ imports \in Programs
  /\ initialized \subseteq Modules /\ exited \subseteq Modules
  /\ ctx \subseteq Modules \ System
  /\ Contexts!TypeOK
  /\ stack \in Seq([fn : {"start", "init", "main", "exit", "end"},
                    mod : Modules, next : Nat])
  /\ inits \in Seq(Modules) /\ exits \in Seq(Modules)

(* What a module imports, directly or not: the least set that has its      *)
(* imports and theirs.                                                     *)
Dependencies(mod) ==
  LET closed(S) == /\ ToSet(imports[mod]) \subseteq S
                   /\ \A d \in S : ToSet(imports[d]) \subseteq S
  IN {d \in Modules : \A S \in SUBSET Modules : closed(S) => d \in S}

(* No module imports itself through others. *)
Acyclic == \A d \in Modules : d \notin Dependencies(d)

(* A module's dependencies have been initialized, to the end of their own  *)
(* init, when its init runs: the rule as it is documented.                 *)
DependencyGuarantee ==
  \A i \in DOMAIN inits :
    \A d \in Dependencies(inits[i]) : \E j \in 1 .. i - 1 : inits[j] = d

(* It is kept by the programs without import cycles, however modules are   *)
(* shared; and in none does an init run twice.                             *)
DependenciesInitialized == IsInjective(inits) /\ (Acyclic => DependencyGuarantee)

(* A context pointer that is set points to a context that is there: an     *)
(* allocation in it or its mem_talloc_free meets no freed memory.  Modules *)
(* that import each other free a context and then, below it, their own.    *)
NoDanglingContext == Acyclic /\ stack # << >> => ctx \subseteq Contexts!Live

(* No module is imported twice, by two others or by one. *)
Unshared ==
  /\ \A d, e \in Modules : d # e => ToSet(imports[d]) \cap ToSet(imports[e]) = {}
  /\ \A d \in Modules : IsInjective(imports[d])

(* Modules are finalized in the exact reverse order of initialization, as  *)
(* it is documented, so that without cycles every module finds its         *)
(* dependencies at its exit: in the programs in which no module is         *)
(* imported twice, whatever the contexts that could not be had.            *)
UnsharedExitsReverse == Unshared => IsPrefix(exits, Reverse(inits))

(* A program whose main returned leaves nothing: when the process has      *)
(* ended every initialized module has exited, once, and no context is left.*)
NothingLeft ==
  /\ IsInjective(exits)
  /\ stack = << >> /\ exits # << >> => ToSet(exits) = ToSet(inits) /\ Contexts!Live = {}

(* Once the user's main has returned, the process ends: in particular the  *)
(* calls among modules that import each other do.                          *)
Ends == (exits # << >>) ~> (stack = << >>)
=============================================================================
