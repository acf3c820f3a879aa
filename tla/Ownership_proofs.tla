-------------------------- MODULE Ownership_proofs --------------------------
(***************************************************************************)
(* The ownership tree, for every set of addresses: owners are live,        *)
(* everything hangs below the root, and nothing owns itself.               *)
(*                                                                         *)
(* Below(r) is the least set closed under "owned by", so every step about  *)
(* it has one of two shapes: Below is itself closed (BelowClosed), and to  *)
(* show that it is inside a set one shows that the set is closed           *)
(* (BelowLeast).                                                           *)
(***************************************************************************)
EXTENDS Ownership, TLAPS

(* What a block below r, or r itself, owns is below r. *)
LEMMA BelowClosed ==
  ASSUME NEW r
  PROVE  ClosedBelow(r, Below(r))
<1> SUFFICES ASSUME NEW d \in Live, parent[d] \in Below(r) \cup {r},
                    NEW S \in SUBSET Blocks, ClosedBelow(r, S)
             PROVE  d \in S
  BY DEF ClosedBelow, Below
<1>1. parent[d] \in S \cup {r}
  BY DEF Below
<1> QED BY <1>1 DEF ClosedBelow

(* Below(r) is inside every closed set. *)
LEMMA BelowLeast ==
  ASSUME NEW r, NEW S \in SUBSET Blocks, ClosedBelow(r, S)
  PROVE  Below(r) \subseteq S
BY DEF Below

-----------------------------------------------------------------------------
LEMMA TypeStep == TypeOK /\ [Next]_parent => TypeOK'
<1> SUFFICES ASSUME TypeOK, [Next]_parent
             PROVE  TypeOK'
  OBVIOUS
<1> USE DEF TypeOK
<1>1. CASE UNCHANGED parent
  BY <1>1
<1>2. CASE Shutdown
  BY <1>2 DEF Shutdown
<1>3. ASSUME NEW b \in Blocks, Free(b)
      PROVE  TypeOK'
  BY <1>3 DEF Free
<1>4. ASSUME NEW b \in Blocks, NEW c \in Blocks \cup {Root}, Alloc(c, b)
      PROVE  TypeOK'
  BY <1>4 DEF Alloc
<1>5. ASSUME NEW b \in Blocks, NEW c \in Blocks \cup {Root}, Steal(c, b)
      PROVE  TypeOK'
  BY <1>5 DEF Steal
<1>6. ASSUME NEW b \in Blocks, NEW n \in Blocks, Realloc(b, n)
      PROVE  TypeOK'
  BY <1>6 DEF Realloc
<1> QED BY <1>1, <1>2, <1>3, <1>4, <1>5, <1>6 DEF Next

(* Every address holds no block or one with an owner: src/mem/talloc.c. *)
THEOREM TypeCorrect == Spec => []TypeOK
<1>1. Init => TypeOK
  BY DEF Init, TypeOK
<1> QED BY <1>1, TypeStep, PTL DEF Spec

-----------------------------------------------------------------------------
(***************************************************************************)
(* The inductive invariant.  That owners are live is not inductive alone:  *)
(* a block that owned itself would be left owned by its old address when   *)
(* it moves.  AllBelowRoot excludes it.                                    *)
(***************************************************************************)
IInv == TypeOK /\ OwnerIsLive /\ AllBelowRoot

(* What is below the root does not own itself, however long the way. *)
LEMMA BelowRootNoCycle ==
  ASSUME TypeOK, AllBelowRoot
  PROVE  NoCycle
<1> DEFINE Sound == {c \in Live : c \notin Below(c)}
<1>1. Sound \in SUBSET Blocks
  BY DEF Live
<1>2. ASSUME NEW d \in Live, parent[d] \in Sound \cup {Root}
      PROVE  d \notin Below(d)
  <2>1. d \in Blocks
    BY DEF Live
  <2>2. CASE parent[d] = Root
    <3>1. ClosedBelow(d, Blocks \ {d})
      BY <2>1, <2>2, BlocksAssumption DEF ClosedBelow, Live
    <3> QED BY <3>1, BelowLeast
  <2>3. CASE parent[d] \in Sound /\ parent[d] = d
    BY <2>3
  <2>4. CASE parent[d] \in Sound /\ parent[d] # d
    <3> DEFINE p == parent[d]
    <3>1. p \in Live /\ p \notin Below(p) /\ p # d
      BY <2>4
    <3>2. d \in Below(p)
      BY BelowClosed DEF ClosedBelow
    <3>3. ClosedBelow(d, Below(p))
      BY <3>2, BelowClosed DEF ClosedBelow
    <3>4. Below(d) \subseteq Below(p)
      BY <3>3, BelowLeast DEF Below, Live
    <3>5. p \notin Below(d)
      BY <3>1, <3>4
    <3>6. ClosedBelow(d, Below(d) \ {d})
      BY <3>1, <3>5, BelowClosed DEF ClosedBelow
    <3>7. Below(d) \subseteq Below(d) \ {d}
      BY <3>6, BelowLeast DEF Below, Live
    <3> QED BY <3>7
  <2> QED BY <1>2, <2>2, <2>3, <2>4
<1>3. ClosedBelow(Root, Sound)
  BY <1>2 DEF ClosedBelow
<1>4. Live \subseteq Sound
  BY <1>1, <1>3, BelowLeast DEF AllBelowRoot
<1> QED BY <1>4 DEF NoCycle

LEMMA NotOwnOwner ==
  ASSUME TypeOK, AllBelowRoot, NEW b \in Live
  PROVE  parent[b] # b
<1> SUFFICES ASSUME parent[b] = b
             PROVE  FALSE
  OBVIOUS
<1>1. b \in Below(b)
  BY BelowClosed DEF ClosedBelow
<1> QED BY <1>1, BelowRootNoCycle DEF NoCycle

-----------------------------------------------------------------------------
LEMMA OwnerStep == IInv /\ [Next]_parent => OwnerIsLive'
<1> SUFFICES ASSUME TypeOK, OwnerIsLive, AllBelowRoot, [Next]_parent,
                    NEW d \in Live'
             PROVE  parent'[d] \in Live' \cup {Root}
  BY DEF IInv, OwnerIsLive, Owners
<1> USE BlocksAssumption DEF TypeOK, OwnerIsLive, Owners, Live
<1>1. CASE UNCHANGED parent
  BY <1>1
<1>2. CASE Shutdown
  <2>1. d \in Live /\ d \notin Below(Root) /\ parent'[d] = parent[d]
    BY <1>2 DEF Shutdown
  <2>2. parent[d] \notin Below(Root) \cup {Root}
    BY <2>1, BelowClosed DEF ClosedBelow
  <2> QED BY <2>1, <2>2, <1>2 DEF Shutdown
<1>3. ASSUME NEW b \in Blocks, Free(b)
      PROVE  parent'[d] \in Live' \cup {Root}
  <2>1. d \in Live /\ d # b /\ d \notin Below(b) /\ parent'[d] = parent[d]
    BY <1>3 DEF Free
  <2>2. parent[d] \notin Below(b) \cup {b}
    BY <2>1, BelowClosed DEF ClosedBelow
  <2> QED BY <2>1, <2>2, <1>3 DEF Free
<1>4. ASSUME NEW b \in Blocks, NEW c \in Blocks \cup {Root}, Alloc(c, b)
      PROVE  parent'[d] \in Live' \cup {Root}
  BY <1>4 DEF Alloc
<1>5. ASSUME NEW b \in Blocks, NEW c \in Blocks \cup {Root}, Steal(c, b)
      PROVE  parent'[d] \in Live' \cup {Root}
  BY <1>5 DEF Steal
<1>6. ASSUME NEW b \in Blocks, NEW n \in Blocks, Realloc(b, n)
      PROVE  parent'[d] \in Live' \cup {Root}
  BY <1>6, NotOwnOwner DEF Realloc
<1> QED BY <1>1, <1>2, <1>3, <1>4, <1>5, <1>6 DEF Next

(* A set closed below the root after a step gives one closed before it;    *)
(* each case builds that set and applies BelowLeast to it.                 *)
LEMMA RootStep == IInv /\ [Next]_parent => AllBelowRoot'
<1> SUFFICES ASSUME TypeOK, OwnerIsLive, AllBelowRoot, [Next]_parent,
                    NEW S \in SUBSET Blocks, ClosedBelow(Root, S)'
             PROVE  Live' \subseteq S
  BY DEF IInv, AllBelowRoot, Below
<1>0. ASSUME NEW T \in SUBSET Blocks, ClosedBelow(Root, T)
      PROVE  Live \subseteq T
  BY <1>0, BelowLeast DEF AllBelowRoot
<1> USE BlocksAssumption DEF TypeOK
<1>1. CASE UNCHANGED parent
  BY <1>0, <1>1 DEF ClosedBelow, Live
<1>2. CASE Shutdown
  BY <1>2 DEF Shutdown, AllBelowRoot, Live
<1>3. ASSUME NEW b \in Blocks, Free(b)
      PROVE  Live' \subseteq S
  <2> DEFINE T == S \cup Below(b) \cup {b}
  <2>1. ASSUME NEW d \in Live, parent[d] \in T \cup {Root}
        PROVE  d \in T
    <3>1. CASE parent[d] \in Below(b) \cup {b}
      BY <3>1, BelowClosed DEF ClosedBelow
    <3>2. CASE parent[d] \in S \cup {Root} /\ d \notin Below(b) \cup {b}
      <4>1. d \in Live' /\ parent'[d] = parent[d]
        BY <1>3, <3>2 DEF Free, Live
      <4> QED BY <3>2, <4>1 DEF ClosedBelow
    <3> QED BY <2>1, <3>1, <3>2
  <2>2. T \in SUBSET Blocks
    BY DEF Below, Live
  <2>3. Live \subseteq T
    BY <1>0, <2>1, <2>2 DEF ClosedBelow
  <2> QED BY <1>3, <2>3 DEF Free, Live
<1>4. ASSUME NEW b \in Blocks, NEW c \in Blocks \cup {Root}, Alloc(c, b)
      PROVE  Live' \subseteq S
  <2> DEFINE T == S \ {b}
  <2>1. ClosedBelow(Root, T)
    BY <1>4 DEF Alloc, ClosedBelow, Live
  <2>2. Live \subseteq T
    BY <1>0, <2>1
  <2>3. b \in S
    BY <1>4, <2>2 DEF Alloc, ClosedBelow, Live, Owners
  <2> QED BY <1>4, <2>2, <2>3 DEF Alloc, Live
<1>5. ASSUME NEW b \in Blocks, NEW c \in Blocks \cup {Root}, Steal(c, b)
      PROVE  Live' \subseteq S
  <2>1. PICK U \in SUBSET Blocks : ClosedBelow(b, U) /\ (c # Root => c \notin U)
    <3>1. CASE c = Root
      BY <3>1 DEF ClosedBelow, Live
    <3>2. CASE c # Root
      BY <1>5, <3>2 DEF Steal, Below, Owners
    <3> QED BY <3>1, <3>2
  <2> DEFINE T == S \cup U \cup {b}
  <2>2. ClosedBelow(Root, T)
    BY <1>5, <2>1 DEF Steal, ClosedBelow, Live
  <2>3. c \in S \cup {Root}
    BY <1>0, <1>5, <2>1, <2>2 DEF Steal, Owners, Live
  <2>4. b \in S
    BY <1>5, <2>3 DEF Steal, ClosedBelow, Live, Owners
  <2>5. ClosedBelow(Root, S)
    BY <1>5, <2>4 DEF Steal, ClosedBelow, Live
  <2>6. Live' = Live
    BY <1>5 DEF Steal, Live, Owners
  <2> QED BY <1>0, <2>5, <2>6
<1>6. ASSUME NEW b \in Blocks, NEW n \in Blocks, Realloc(b, n)
      PROVE  Live' \subseteq S
  <2>0. parent[b] # b /\ b \in Live
    BY <1>6, NotOwnOwner DEF Realloc
  <2>1. CASE n = b
    <3>1. parent' = parent
      BY <1>6, <2>1 DEF Realloc
    <3> QED BY <1>0, <3>1 DEF ClosedBelow, Live
  <2>2. CASE n # b
    <3> DEFINE T == (S \ {b, n}) \cup (IF n \in S THEN {b} ELSE {})
    <3>1. n \in Live' /\ parent'[n] = parent[b]
      BY <1>6 DEF Realloc, Live
    <3>2. ASSUME NEW d \in Live, d # b
          PROVE  /\ d # n /\ d \in Live'
                 /\ parent'[d] = IF parent[d] = b THEN n ELSE parent[d]
      BY <1>6, <2>2, <3>2 DEF Realloc, Live
    <3>3. ASSUME NEW d \in Live, parent[d] \in T \cup {Root}
          PROVE  d \in T
      BY <2>0, <3>1, <3>2, <3>3 DEF ClosedBelow
    <3>4. Live \subseteq T
      <4>1. T \in SUBSET Blocks
        OBVIOUS
      <4>2. ClosedBelow(Root, T)
        BY <3>3 DEF ClosedBelow
      <4> QED BY <1>0, <4>1, <4>2
    <3>5. n \in S
      BY <2>0, <3>4
    <3> QED BY <1>6, <3>4, <3>5 DEF Realloc, Live
  <2> QED BY <2>1, <2>2
<1> QED BY <1>1, <1>2, <1>3, <1>4, <1>5, <1>6 DEF Next

-----------------------------------------------------------------------------
(* The calls of talloc.c keep the three parts of IInv together. *)
THEOREM Inductive == Spec => []IInv
<1>1. Init => IInv
  BY DEF Init, IInv, TypeOK, OwnerIsLive, AllBelowRoot, Live
<1>2. IInv /\ [Next]_parent => IInv'
  BY TypeStep, OwnerStep, RootStep DEF IInv
<1> QED BY <1>1, <1>2, PTL DEF Spec

(* No block is owned by an address that was freed, so none is adopted by a *)
(* later block at that address (mem_talloc_free, mem_talloc_realloc).      *)
THEOREM OwnersLive == Spec => []OwnerIsLive
BY Inductive, PTL DEF IInv

(* Everything allocated is freed with the root at the latest               *)
(* (mem_talloc_module_shutdown), whatever was stolen, moved or freed.      *)
THEOREM RootOwnsAll == Spec => []AllBelowRoot
BY Inductive, PTL DEF IInv

(* No block ever owns itself through others, so mem_talloc_free walks a    *)
(* tree.                                                                   *)
THEOREM OwnershipAcyclic == Spec => []NoCycle
<1>1. IInv => NoCycle
  BY BelowRootNoCycle DEF IInv
<1> QED BY <1>1, Inductive, PTL
=============================================================================
