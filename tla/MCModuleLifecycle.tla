-------------------------- MODULE MCModuleLifecycle -------------------------
(***************************************************************************)
(* Every program of four modules, by the shape of its imports and the      *)
(* order of each import list.  Modules are numbers and 0 is the entry      *)
(* module; the modules of a program without import cycles can be numbered  *)
(* so that a module imports higher numbers only.                           *)
(***************************************************************************)
EXTENDS ModuleLifecycle

Lists(S) ==
  {s \in UNION {[1 .. n -> S] : n \in 0 .. Cardinality(S)} : IsInjective(s)}

MCModules == 0 .. 3

AcyclicPrograms ==
  {<<p0, p1, p2>> : p0 \in Lists(1 .. 3), p1 \in Lists(2 .. 3), p2 \in Lists({3})}

Program(p) == [d \in MCModules |-> IF d = 3 THEN << >> ELSE p[d + 1]]

MCAcyclic == {Program(p) : p \in AcyclicPrograms}

(* Two modules that import each other, or the entry module. *)
MCCyclic ==
  {Program(<<p0, p1, <<1>> >>) : p0 \in Lists({1, 2}), p1 \in {<<2>>, <<2, 3>>}}
    \cup {Program(<<p0, <<0>>, << >> >>) : p0 \in Lists({1, 2})}

(* An import list may have a module twice: nothing looks. *)
MCRepeated ==
  {Program(<<p0, p1, << >> >>) : p0 \in {<<1, 2, 1>>, <<2, 2, 1>>}, p1 \in Lists({2, 3})}

MCPrograms == MCAcyclic \cup MCCyclic \cup MCRepeated
=============================================================================
