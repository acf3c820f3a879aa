------------------------- MODULE MCIncrementalBuild -------------------------
(***************************************************************************)
(* Projects of three files: a file imported twice, a chain, and files that *)
(* import each other and the entry file.                                   *)
(***************************************************************************)
EXTENDS IncrementalBuild, TLC

MCFiles == 0 .. 2
MCObject == [f \in MCFiles |-> f]

Diamond == 0 :> <<1, 2>> @@ 1 :> <<2>> @@ 2 :> << >>
Cycle == 0 :> <<1>> @@ 1 :> <<2>> @@ 2 :> <<1, 0>>
Single == 0 :> << >> @@ 1 :> << >> @@ 2 :> << >>

MCProjects == {Single, Diamond, Cycle}

(* One file is saved twice over three seconds; the files of the larger     *)
(* projects once over two.                                                 *)
MCMaxSaves == Single :> 2 @@ Diamond :> 1 @@ Cycle :> 1
MCMaxTime == Single :> 3 @@ Diamond :> 2 @@ Cycle :> 2

(* Two files have enum values that carry on. *)
TwoEnums == 0 :> 1 @@ 1 :> 0 @@ 2 :> 1
=============================================================================
