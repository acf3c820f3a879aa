---------------------------- MODULE Arrays_proofs ---------------------------
(***************************************************************************)
(* Arrays over the ownership tree, for every set of addresses and          *)
(* variables.                                                              *)
(*                                                                         *)
(* That items are live is not inductive alone: nothing in it says why a    *)
(* string outlives the slices that have its address.  It does because the  *)
(* slices are below the list that owns the string (Beneath), which no call *)
(* changes: strings own nothing and are never stolen, and only arrays that *)
(* no other array owns are.                                                *)
(***************************************************************************)
EXTENDS Arrays, Ownership_proofs, SequenceTheorems

Item == Blocks \cup {Null, Unset} \cup Nat

Header == [kind : {"none", "int", "list", "string"}, items : Seq(Item), count : Nat]

Object == {o \in Header : o.count <= Len(o.items)}

LEMMA ArrayObject ==
  ASSUME NEW kind \in {"none", "int", "list", "string"}, NEW s \in Seq(Item)
  PROVE  /\ Array(kind, s) \in Object /\ Array(kind, s).kind = kind
         /\ Array(kind, s).items = s
<1>1. Len(s) \in Nat
  BY LenProperties
<1>2. Array(kind, s) \in Header
  BY <1>1 DEF Array, Header
<1> QED BY <1>1, <1>2 DEF Array, Object

LEMMA NothingObject == Nothing \in Object
<1>1. << >> \in Seq(Item)
  OBVIOUS
<1> QED BY <1>1, ArrayObject DEF Nothing

(* What is at the addresses, and where the variables point. *)
Typed ==
  /\ obj \in [Blocks -> Object]
  /\ \A b \in Live : obj[b].kind # "none"
  /\ var \in [Vars -> Blocks \cup {Null, Dangling}]
  /\ \A v \in Vars : var[v] \in Blocks => var[v] \in Live

(* Arrays own, strings are owned. *)
Owned ==
  /\ \A b \in Live : parent[b] = Root \/ IsArray(parent[b])
  /\ \A b \in Live : obj[b].kind = "string" => IsArray(parent[b])

(* A list is the owner of its strings or below it. *)
Beneath ==
  \A b \in Live : obj[b].kind = "list" =>
    \A i \in DOMAIN obj[b].items :
      LET s == obj[b].items[i]
      IN s = Null \/ /\ s \in Live /\ obj[s].kind = "string"
                     /\ b = parent[s] \/ b \in Below(parent[s])

AInv == IInv /\ Typed /\ Owned /\ (~MayPart => Beneath)

-----------------------------------------------------------------------------
(* What the calls on blocks leave below a block. *)
LEMMA BelowClosedNext ==
  ASSUME NEW r
  PROVE  ClosedBelow(r, Below(r))'
<1> SUFFICES ASSUME NEW d \in Live', parent'[d] \in Below(r)' \cup {r},
                    NEW S \in SUBSET Blocks, ClosedBelow(r, S)'
             PROVE  d \in S
  BY DEF ClosedBelow, Below
<1>1. parent'[d] \in S \cup {r}
  BY DEF Below
<1> QED BY <1>1 DEF ClosedBelow

LEMMA GrowBelow ==
  ASSUME \A e \in Live : e \in Live' /\ parent'[e] = parent[e], NEW r, NEW d \in Below(r)
  PROVE  (d \in Below(r))'
<1> SUFFICES ASSUME NEW S \in SUBSET Blocks, ClosedBelow(r, S)'
             PROVE  d \in S
  BY DEF Below
<1>1. ClosedBelow(r, S)
  BY DEF ClosedBelow
<1> QED BY <1>1 DEF Below

LEMMA StealBelow ==
  ASSUME TypeOK, NEW b \in Blocks, NEW c, Steal(c, b), parent[b] = Root,
         NEW r, r # Root, NEW d \in Below(r)
  PROVE  (d \in Below(r))'
<1> USE BlocksAssumption
<1> SUFFICES ASSUME NEW S \in SUBSET Blocks, ClosedBelow(r, S)'
             PROVE  d \in S /\ d \in Live'
  <2>1. \E S \in SUBSET Blocks : ClosedBelow(r, S)'
    BY DEF ClosedBelow, Live
  <2> QED BY <2>1 DEF Below
<1>1. Live' = Live /\ \A e \in Live : e # b => parent'[e] = parent[e]
  BY DEF TypeOK, Steal, Live, Owners
<1>2. ClosedBelow(r, S)
  BY <1>1 DEF ClosedBelow
<1> QED BY <1>1, <1>2 DEF Below

LEMMA FreeBelow ==
  ASSUME TypeOK, NEW b \in Blocks, Free(b), NEW r, NEW d \in Below(r), d \in Live'
  PROVE  (d \in Below(r))'
<1> DEFINE gone == {b} \cup Below(b)
<1> SUFFICES ASSUME NEW S \in SUBSET Blocks, ClosedBelow(r, S)'
             PROVE  d \in S
  BY DEF Below
<1>1. \A e \in Live : e \in gone \/ (parent'[e] = parent[e] /\ e \in Live')
  BY DEF TypeOK, Free, Live
<1>2. d \notin gone
  BY DEF Free, Live
<1>3. ASSUME NEW e \in Live, parent[e] \in S \cup gone \cup {r}
      PROVE  e \in S \cup gone
  <2>1. CASE parent[e] \in gone
    BY <2>1, BelowClosed DEF ClosedBelow
  <2>2. CASE parent[e] \in S \cup {r}
    BY <1>1, <2>2 DEF ClosedBelow
  <2> QED BY <1>3, <2>1, <2>2
<1>4. ClosedBelow(r, S \cup gone) /\ gone \in SUBSET Blocks
  BY <1>3 DEF ClosedBelow, Below, Live
<1> QED BY <1>2, <1>4 DEF Below

LEMMA ReallocBelow ==
  ASSUME TypeOK, AllBelowRoot, NEW b \in Blocks, NEW n \in Blocks, Realloc(b, n),
         NEW r, NEW d \in Below(r), NEW e, NEW q,
         e = (IF d = b THEN n ELSE d), q = (IF r = b THEN n ELSE r)
  PROVE  (e \in Below(q))'
<1> USE BlocksAssumption
<1> DEFINE mv(x) == IF x = b THEN n ELSE x
<1>1. ASSUME NEW x \in Live
      PROVE  mv(x) \in Live' /\ parent'[mv(x)] = mv(parent[x])
  <2>1. parent[b] # b /\ b \in Live
    BY NotOwnOwner DEF Realloc
  <2> QED BY <2>1 DEF TypeOK, Realloc, Live
<1> SUFFICES ASSUME NEW S \in SUBSET Blocks, ClosedBelow(q, S)'
             PROVE  e \in S
  <2>1. e \in Live'
    BY <1>1 DEF Below
  <2> QED BY <2>1 DEF Below
<1> DEFINE T == {x \in Live : mv(x) \in S}
<1>2. ASSUME NEW x \in Live, parent[x] \in T \cup {r}
      PROVE  x \in T
  <2>1. mv(parent[x]) \in S \cup {q}
    BY <1>2
  <2> QED BY <1>1, <2>1 DEF ClosedBelow
<1>3. ClosedBelow(r, T) /\ T \in SUBSET Blocks
  BY <1>2 DEF ClosedBelow, Live
<1>4. d \in T
  BY <1>3 DEF Below
<1> QED BY <1>4

-----------------------------------------------------------------------------
(* The calls on arrays are calls on blocks; a list and its string are two. *)
LEMMA NewListOwners ==
  ASSUME IInv, NEW v \in Vars, NEW b \in Blocks, NEW s \in Blocks, NewList(v, b, s)
  PROVE  IInv'
<1> USE BlocksAssumption
<1>0. /\ TypeOK /\ OwnerIsLive /\ AllBelowRoot /\ b \notin Live /\ s \notin Live /\ s # b
      /\ parent' = [parent EXCEPT ![b] = Root, ![s] = b]
  BY DEF IInv, NewList
<1>1. /\ \A d \in Live : d # b /\ d # s /\ parent'[d] = parent[d]
      /\ parent'[b] = Root /\ parent'[s] = b /\ parent' \in [Blocks -> Blocks \cup {Root, Dead}]
      /\ Live' = Live \cup {b, s}
  BY <1>0 DEF TypeOK, Live
<1>2. OwnerIsLive'
  <2> SUFFICES ASSUME NEW d \in Live'
               PROVE  parent'[d] \in Live' \cup {Root}
    BY DEF OwnerIsLive, Owners
  <2>1. d \in Live => parent[d] \in Live \cup {Root}
    BY <1>0 DEF OwnerIsLive, Owners
  <2> QED BY <1>1, <2>1
<1>3. ASSUME NEW S \in SUBSET Blocks, ClosedBelow(Root, S)'
      PROVE  Live' \subseteq S
  <2>1. ClosedBelow(Root, S)
    BY <1>1, <1>3 DEF ClosedBelow
  <2>2. Live \subseteq S
    BY <1>0, <2>1, BelowLeast DEF AllBelowRoot
  <2> QED BY <1>1, <1>3, <2>2 DEF ClosedBelow
<1> QED BY <1>1, <1>2, <1>3 DEF IInv, TypeOK, AllBelowRoot, Below

LEMMA OwnersStep == IInv /\ [ArraysNext]_arrays => IInv'
<1> SUFFICES ASSUME IInv, [ArraysNext]_arrays
             PROVE  IInv'
  OBVIOUS
<1> USE BlocksAssumption
<1>1. [Next]_parent => IInv'
  BY TypeStep, OwnerStep, RootStep DEF IInv
<1>2. CASE UNCHANGED arrays
  BY <1>1, <1>2 DEF arrays
<1>3. CASE End
  BY <1>1, <1>3 DEF End, Next
<1>4. ASSUME NEW v \in Vars, FreeArray(v) \/ OutOfMemory(v)
      PROVE  IInv'
  BY <1>1, <1>4 DEF FreeArray, OutOfMemory, IsArray, Live, Next
<1>5. ASSUME NEW v \in Vars, NEW w \in Vars, Assign(v, w) \/ Chown(v, w)
      PROVE  IInv'
  BY <1>1, <1>5 DEF Assign, Chown, IsArray, Live, Next
<1>6. ASSUME NEW v \in Vars, NEW b \in Blocks, NEW n,
             Resize(v, b, n) \/ ResizeNull(v, b, n)
      PROVE  IInv'
  BY <1>1, <1>6 DEF Resize, ResizeNull, IsArray, Live, Next
<1>7. ASSUME NEW v \in Vars, NEW w \in Vars, NEW b \in Blocks, NEW n, NEW end,
             Slice(v, w, b, n, end) \/ SliceNull(v, w, b) \/ NewInts(v, b, n)
      PROVE  IInv'
  BY <1>1, <1>7 DEF Slice, SliceNull, NewInts, IsArray, Live, Next
<1>8. ASSUME NEW v \in Vars, NEW b \in Blocks, NEW s \in Blocks, NewList(v, b, s)
      PROVE  IInv'
  BY <1>8, NewListOwners
<1> QED BY <1>2, <1>3, <1>4, <1>5, <1>6, <1>7, <1>8 DEF ArraysNext

LEMMA InitOwners == Init => IInv
BY DEF Init, IInv, TypeOK, OwnerIsLive, AllBelowRoot, Live

(* Ownership keeps its promises under everything that arrays do.           *)
THEOREM ArraysOwnership == ArraysSpec => []IInv
<1>1. ArraysInit => IInv
  BY InitOwners DEF ArraysInit
<1> QED BY <1>1, OwnersStep, PTL DEF ArraysSpec

(* No array, slice or string is owned by an address that was freed.        *)
THEOREM ArraysOwnersLive == ArraysSpec => []OwnerIsLive
BY ArraysOwnership, PTL DEF IInv

(* Every array, slice and string is freed with the root at the latest.     *)
THEOREM ArraysBelowRoot == ArraysSpec => []AllBelowRoot
BY ArraysOwnership, PTL DEF IInv

-----------------------------------------------------------------------------
(* What Beneath says of the list b and an item s of it. *)
Item1(b, s) ==
  s = Null \/ /\ s \in Live /\ obj[s].kind = "string"
              /\ b = parent[s] \/ b \in Below(parent[s])

LEMMA BeneathItems ==
  Beneath <=> \A b \in Live : obj[b].kind = "list" =>
                \A i \in DOMAIN obj[b].items : Item1(b, obj[b].items[i])
BY DEF Beneath, Item1

(* The owner of a string is a block that is there. *)
LEMMA StringOwner ==
  ASSUME IInv, Typed, Owned, NEW s \in Live, obj[s].kind = "string"
  PROVE  parent[s] \in Live /\ parent[s] # Root /\ parent[s] # Dead
BY BlocksAssumption DEF Owned, IsArray, Live

(* A new array b, which c owns, with items that c could have. *)
LEMMA NewArray ==
  ASSUME AInv, IInv', NEW v \in Vars, NEW b \in Blocks, NEW c, Alloc(c, b),
         c = Root \/ IsArray(c),
         NEW o \in Object, o.kind \in {"int", "list"},
         o.kind = "list" /\ ~MayPart => \A i \in DOMAIN o.items : Item1(c, o.items[i]),
         obj' = Placed({b}, o), var' = Repointed({v}, b, {})
  PROVE  AInv'
<1> USE BlocksAssumption, PointersAssumption
<1>1. /\ TypeOK /\ Typed /\ Owned /\ (~MayPart => Beneath) /\ IInv
      /\ b \notin Live /\ Live' = Live \cup {b} /\ parent'[b] = c /\ c # Dead
      /\ \A d \in Live : d # b /\ parent'[d] = parent[d]
  BY DEF AInv, IInv, TypeOK, Alloc, Live, Owners
<1>2. /\ obj' \in [Blocks -> Object] /\ obj'[b] = o
      /\ \A d \in Live : obj'[d] = obj[d]
  BY <1>1, NothingObject DEF Placed, Typed, Live
<1>3. Typed'
  <2>1. var' \in [Vars -> Blocks \cup {Null, Dangling}]
    BY <1>1 DEF Typed, Repointed
  <2>2. \A w \in Vars : var'[w] \in Blocks => var'[w] \in Live'
    BY <1>1 DEF Typed, Repointed
  <2> QED BY <1>1, <1>2, <2>1, <2>2 DEF Typed
<1>4. \A d \in Live : IsArray(d) => IsArray(d)'
  BY <1>1, <1>2 DEF IsArray
<1>5. Owned'
  <2>1. ASSUME NEW d \in Live', NEW p, p = parent'[d]
        PROVE  /\ p = Root \/ IsArray(p)'
               /\ obj'[d].kind = "string" => IsArray(p)'
    <3>1. CASE d = b
      BY <1>1, <1>2, <1>4, <2>1, <3>1 DEF IsArray
    <3>2. CASE d # b
      BY <1>1, <1>2, <1>4, <2>1, <3>2 DEF Owned, IsArray
    <3> QED BY <3>1, <3>2
  <2> QED BY <2>1 DEF Owned
<1>6. ASSUME NEW d \in Live, NEW s, s # Null, Item1(d, s)
      PROVE  /\ s \in Live' /\ obj'[s].kind = "string" /\ parent'[s] = parent[s]
             /\ d = parent[s] \/ (d \in Below(parent[s]))'
  <2>1. PICK p : p = parent[s]
    OBVIOUS
  <2>2. s \in Live /\ obj[s].kind = "string" /\ (d = p \/ d \in Below(p))
    BY <1>6, <2>1 DEF Item1
  <2>3. d \in Below(p) => (d \in Below(p))'
    BY <1>1, GrowBelow
  <2>4. p = parent'[s]
    BY <1>1, <2>1, <2>2
  <2> QED BY <1>1, <1>2, <2>1, <2>2, <2>3, <2>4
<1>7. ~MayPart => Beneath'
  <2> SUFFICES ASSUME ~MayPart, NEW d \in Live', obj'[d].kind = "list", NEW i \in DOMAIN obj'[d].items,
                      NEW s, s = obj'[d].items[i], s # Null
               PROVE  /\ s \in Live' /\ obj'[s].kind = "string"
                      /\ d = parent'[s] \/ (d \in Below(parent[s]))'
    BY DEF Beneath
  <2>1. CASE d # b
    <3>1. d \in Live /\ Item1(d, s)
      BY <1>1, <1>2, <2>1, BeneathItems
    <3> QED BY <1>6, <3>1
  <2>2. CASE d = b
    <3>1. Item1(c, s)
      BY <1>2, <2>2
    <3>2. c \in Live
      BY <1>1, <3>1, StringOwner DEF Item1, IsArray, Below, Live
    <3>3. PICK p : p = parent[s]
      OBVIOUS
    <3>4. /\ s \in Live' /\ obj'[s].kind = "string" /\ parent'[s] = p
          /\ c = p \/ (c \in Below(p))'
      BY <1>6, <3>1, <3>2, <3>3
    <3>5. (d \in Below(p))'
      BY <1>1, <2>2, <3>4, BelowClosedNext DEF ClosedBelow
    <3> QED BY <3>4, <3>5
  <2> QED BY <2>1, <2>2
<1> QED BY <1>3, <1>5, <1>7 DEF AInv

(* A list of one string, which it owns. *)
LEMMA NewListStep ==
  ASSUME AInv, IInv', NEW v \in Vars, NEW b \in Blocks, NEW s \in Blocks, NewList(v, b, s)
  PROVE  AInv'
<1> USE BlocksAssumption, PointersAssumption, BoundsAssumption
<1> DEFINE q == [i \in 1 .. MaxItems |-> s]
           o == Array("list", q)
           t == Array("string", << >>)
<1>1. /\ TypeOK /\ Typed /\ Owned /\ (~MayPart => Beneath) /\ IInv /\ b # s
      /\ b \notin Live /\ s \notin Live /\ Live' = Live \cup {b, s}
      /\ parent'[b] = Root /\ parent'[s] = b
      /\ \A d \in Live : d # b /\ d # s /\ parent'[d] = parent[d]
      /\ obj' = [Placed({b}, o) EXCEPT ![s] = t] /\ var' = Repointed({v}, b, {})
  BY DEF AInv, IInv, TypeOK, NewList, Live
<1>2. /\ o \in Object /\ t \in Object /\ o.kind = "list" /\ t.kind = "string"
      /\ \A i \in DOMAIN o.items : o.items[i] = s
  <2>1. q \in Seq(Item) /\ \A i \in DOMAIN q : q[i] = s
    BY DEF Item
  <2>2. << >> \in Seq(Item)
    OBVIOUS
  <2> HIDE DEF q
  <2>3. o \in Object /\ o.kind = "list" /\ o.items = q
    BY <2>1, ArrayObject
  <2>4. t \in Object /\ t.kind = "string" /\ t.items = << >>
    BY <2>2, ArrayObject
  <2> QED BY <2>1, <2>3, <2>4
<1> HIDE DEF o, t, q
<1>3. /\ obj' \in [Blocks -> Object] /\ obj'[b] = o /\ obj'[s] = t
      /\ \A d \in Live : obj'[d] = obj[d]
  <2> DEFINE P == Placed({b}, o)
  <2>1. Nothing \in Object
    BY NothingObject
  <2>2. P \in [Blocks -> Object]
    BY <1>1, <1>2, <2>1 DEF Placed, Typed
  <2>3. P[b] = o /\ \A d \in Live : P[d] = obj[d]
    BY <1>1 DEF Placed, Live
  <2> HIDE DEF P
  <2>4. obj' = [P EXCEPT ![s] = t]
    BY <1>1 DEF P
  <2>5. obj' \in [Blocks -> Object] /\ obj'[s] = t
    BY <1>2, <2>2, <2>4
  <2>6. \A d \in Blocks : d # s => obj'[d] = P[d]
    BY <2>2, <2>4
  <2>7. Live \subseteq Blocks /\ s \notin Live /\ b # s
    BY <1>1 DEF Live
  <2> QED BY <2>3, <2>5, <2>6, <2>7
<1>4. Typed'
  <2>1. var' \in [Vars -> Blocks \cup {Null, Dangling}]
    BY <1>1 DEF Typed, Repointed
  <2>2. \A w \in Vars : var'[w] \in Blocks => var'[w] \in Live'
    BY <1>1 DEF Typed, Repointed
  <2>3. \A d \in Live' : obj'[d].kind # "none"
    <3>1. \A d \in Live : obj'[d].kind # "none"
      BY <1>1, <1>3 DEF Typed
    <3>2. obj'[b].kind # "none" /\ obj'[s].kind # "none"
      BY <1>2, <1>3
    <3> QED BY <1>1, <3>1, <3>2
  <2> QED BY <1>3, <2>1, <2>2, <2>3 DEF Typed
<1>5. \A d \in Live : IsArray(d) => IsArray(d)'
  BY <1>1, <1>3 DEF IsArray
<1>6. IsArray(b)'
  BY <1>1, <1>2, <1>3 DEF IsArray
<1>7. Owned'
  <2>1. ASSUME NEW d \in Live', NEW p, p = parent'[d]
        PROVE  /\ p = Root \/ IsArray(p)'
               /\ obj'[d].kind = "string" => IsArray(p)'
    <3>1. CASE d = b
      BY <1>1, <1>2, <1>3, <2>1, <3>1
    <3>2. CASE d = s
      BY <1>1, <1>6, <2>1, <3>2
    <3>3. CASE d # b /\ d # s
      BY <1>1, <1>3, <1>5, <2>1, <3>3, ZenonT(30) DEF Owned, IsArray
    <3> QED BY <3>1, <3>2, <3>3
  <2> QED BY <2>1 DEF Owned
<1>8. ~MayPart => Beneath'
  <2> SUFFICES ASSUME ~MayPart, NEW d \in Live', obj'[d].kind = "list", NEW i \in DOMAIN obj'[d].items,
                      NEW x, x = obj'[d].items[i], x # Null
               PROVE  /\ x \in Live' /\ obj'[x].kind = "string"
                      /\ d = parent'[x] \/ (d \in Below(parent[x]))'
    BY DEF Beneath
  <2>1. CASE d = b
    <3>1. x = s
      BY <1>2, <1>3, <2>1
    <3> QED BY <1>1, <1>2, <1>3, <2>1, <3>1
  <2>2. CASE d = s
    BY <1>2, <1>3, <2>2
  <2>3. CASE d # b /\ d # s
    <3>1. d \in Live /\ Item1(d, x)
      BY <1>1, <1>3, <2>3, BeneathItems
    <3>2. PICK p : p = parent[x]
      OBVIOUS
    <3>3. x \in Live /\ obj[x].kind = "string" /\ (d = p \/ d \in Below(p))
      BY <3>1, <3>2 DEF Item1
    <3>4. d \in Below(p) => (d \in Below(p))'
      BY <1>1, GrowBelow
    <3>5. parent'[x] = p /\ x \in Live' /\ obj'[x].kind = "string"
      <4>1. x \in Live
        BY <3>3
      <4>2. parent'[x] = parent[x]
        BY <1>1, <4>1
      <4>3. x \in Live'
        BY <1>1, <4>1
      <4>4. obj'[x] = obj[x]
        BY <1>3, <4>1
      <4> QED BY <3>2, <3>3, <4>2, <4>3, <4>4
    <3>6. d = p \/ (d \in Below(p))'
      BY <3>3, <3>4
    <3> QED BY <3>5, <3>6
  <2> QED BY <2>1, <2>2, <2>3
<1> QED BY <1>4, <1>7, <1>8 DEF AInv

(* v.free(): what is freed owns no live string, and has all of its own. *)
LEMMA FreeStep ==
  ASSUME AInv, IInv', NEW g \in Blocks, IsArray(g), Free(g),
         obj' = Placed({}, Nothing),
         var' = Repointed({}, Null, {b \in Live : parent'[b] = Dead})
  PROVE  AInv'
<1> USE BlocksAssumption, PointersAssumption
<1> DEFINE gone == {g} \cup Below(g)
<1>1. /\ TypeOK /\ Typed /\ Owned /\ (~MayPart => Beneath) /\ IInv
      /\ Live' = Live \ gone /\ \A d \in Live' : parent'[d] = parent[d]
      /\ \A d \in Live : parent[d] \in gone => d \in gone
  <2>1. Live' = Live \ gone /\ \A d \in Live' : parent'[d] = parent[d]
    BY DEF AInv, IInv, TypeOK, Free, Live
  <2>2. \A d \in Live : parent[d] \in gone => d \in gone
    BY BelowClosed DEF ClosedBelow
  <2> QED BY <2>1, <2>2 DEF AInv, IInv
<1> HIDE DEF gone
<1>2. obj' \in [Blocks -> Object] /\ \A d \in Live' : obj'[d] = obj[d]
  BY <1>1, NothingObject DEF Placed, Typed, Live
<1>3. Typed'
  <2>1. var' \in [Vars -> Blocks \cup {Null, Dangling}]
    BY <1>1 DEF Typed, Repointed
  <2>2. \A w \in Vars : var'[w] \in Blocks => var'[w] \in Live'
    BY <1>1 DEF Typed, Repointed, Live
  <2> QED BY <1>1, <1>2, <2>1, <2>2 DEF Typed
<1>4. Owned'
  <2>1. ASSUME NEW d \in Live', NEW p, p = parent'[d]
        PROVE  /\ p = Root \/ IsArray(p)'
               /\ obj'[d].kind = "string" => IsArray(p)'
    <3>1. d \in Live /\ p = parent[d] /\ obj'[d] = obj[d] /\ p \notin gone
      BY <1>1, <1>2, <2>1
    <3>2. p \in Live => p \in Live' /\ obj'[p] = obj[p]
      BY <1>1, <1>2, <3>1
    <3> QED BY <1>1, <3>1, <3>2 DEF Owned, IsArray
  <2> QED BY <2>1 DEF Owned
<1>5. ~MayPart => Beneath'
  <2> SUFFICES ASSUME ~MayPart, NEW d \in Live', obj'[d].kind = "list", NEW i \in DOMAIN obj'[d].items,
                      NEW x, x = obj'[d].items[i], x # Null
               PROVE  /\ x \in Live' /\ obj'[x].kind = "string"
                      /\ d = parent'[x] \/ (d \in Below(parent[x]))'
    BY DEF Beneath
  <2>1. d \in Live /\ d \notin gone /\ Item1(d, x)
    BY <1>1, <1>2, BeneathItems
  <2>2. PICK p : p = parent[x]
    OBVIOUS
  <2>3. x \in Live /\ obj[x].kind = "string" /\ (d = p \/ d \in Below(p))
    BY <2>1, <2>2 DEF Item1
  <2>4. p \notin gone
    <3>1. CASE d = p
      BY <2>1, <3>1
    <3>2. CASE d \in Below(p) /\ p \in gone
      <4>1. ClosedBelow(p, gone) /\ gone \in SUBSET Blocks
        BY <1>1, <3>2 DEF ClosedBelow, gone, Below, Live
      <4> QED BY <2>1, <3>2, <4>1 DEF Below
    <3> QED BY <2>3, <3>1, <3>2
  <2>5. x \notin gone
    <3>1. x # g
      BY <2>3 DEF IsArray
    <3>2. x \in Below(g) => parent[x] \in gone
      <4>1. CASE x \in Below(g) /\ p \notin gone
        <5>1. ClosedBelow(g, Below(g) \ {x})
          <6> SUFFICES ASSUME NEW e \in Live, parent[e] \in (Below(g) \ {x}) \cup {g}
                       PROVE  e \in Below(g) \ {x}
            BY DEF ClosedBelow
          <6>1. e \in Below(g)
            BY BelowClosed DEF ClosedBelow
          <6>2. e # x
            BY <2>2, <4>1 DEF gone
          <6> QED BY <6>1, <6>2
        <5>2. Below(g) \subseteq Below(g) \ {x}
          BY <5>1, BelowLeast DEF Below, Live
        <5> QED BY <4>1, <5>2
      <4> QED BY <2>2, <4>1
    <3> QED BY <2>2, <2>4, <3>1, <3>2 DEF gone
  <2>6. x \in Live' /\ parent'[x] = p /\ obj'[x] = obj[x]
    BY <1>1, <1>2, <2>2, <2>3, <2>5
  <2>7. d \in Below(p) => (d \in Below(p))'
    BY <1>1, FreeBelow
  <2> QED BY <2>3, <2>6, <2>7
<1> QED BY <1>3, <1>4, <1>5 DEF AInv

(* The items of a resized array are old ones or blank. *)
LEMMA ResizedItems ==
  ASSUME NEW o \in Object, NEW n \in Nat
  PROVE  LET r == Resized(o, n)
         IN /\ r \in Object /\ r.kind = o.kind
            /\ \A i \in DOMAIN r.items :
                 \/ r.items[i] = Blank(o.kind)
                 \/ i \in DOMAIN o.items /\ r.items[i] = o.items[i]
            /\ \A i \in DOMAIN r.items :
                 i \in DOMAIN o.items => r.items[i] = o.items[i]
<1> DEFINE q == [i \in 1 .. n |-> IF i <= Len(o.items) THEN o.items[i] ELSE Blank(o.kind)]
<1>1. o.items \in Seq(Item) /\ Blank(o.kind) \in Item /\ o.kind \in {"none", "int", "list", "string"}
  BY DEF Object, Header, Item, Blank
<1>2. DOMAIN o.items = 1 .. Len(o.items) /\ Len(o.items) \in Nat
  BY <1>1, LenProperties
<1>3. DOMAIN q = 1 .. n /\ \A i \in 1 .. n :
        q[i] = IF i <= Len(o.items) THEN o.items[i] ELSE Blank(o.kind)
  OBVIOUS
<1>4. \A i \in 1 .. n : i <= Len(o.items) => o.items[i] \in Item
  BY <1>1, <1>2, ElementOfSeq
<1>5. q \in Seq(Item)
  <2>1. q \in [1 .. n -> Item]
    BY <1>1, <1>4
  <2> QED BY <2>1, SeqDef
<1>6. Resized(o, n) = Array(o.kind, q)
  BY DEF Resized
<1> HIDE DEF q
<1>7. Resized(o, n) \in Object /\ Resized(o, n).kind = o.kind /\ Resized(o, n).items = q
  BY <1>1, <1>5, <1>6, ArrayObject
<1> QED BY <1>2, <1>3, <1>7

(* The array a is at b now, with items it had or blank ones. *)
LEMMA MoveStep ==
  ASSUME AInv, IInv', NEW v \in Vars, NEW a \in Blocks, a = var[v], IsArray(a),
         NEW b \in Blocks, Realloc(a, b),
         NEW o \in Object, o.kind = obj[a].kind,
         \A i \in DOMAIN o.items :
           \/ o.items[i] = Blank(o.kind)
           \/ i \in DOMAIN obj[a].items /\ o.items[i] = obj[a].items[i],
         obj' = Placed({b}, o),
         var' = Repointed({v}, b, IF b = a THEN {} ELSE {a})
  PROVE  AInv'
<1> USE BlocksAssumption, PointersAssumption
<1> DEFINE mv(x) == IF x = a THEN b ELSE x
<1>1. /\ TypeOK /\ Typed /\ Owned /\ (~MayPart => Beneath) /\ IInv /\ AllBelowRoot
      /\ a \in Live /\ (b = a \/ b \notin Live) /\ parent[a] # a
  BY NotOwnOwner DEF AInv, IInv, Realloc
<1>2. /\ Live' = {mv(x) : x \in Live}
      /\ \A x \in Live : mv(x) \in Live' /\ parent'[mv(x)] = mv(parent[x])
  BY <1>1 DEF TypeOK, Realloc, Live
<1>3. /\ obj' \in [Blocks -> Object] /\ obj'[b] = o
      /\ \A d \in Live : d # a => d # b /\ obj'[d] = obj[d]
  <2>1. Nothing \in Object
    BY NothingObject
  <2>2. \A d \in Live : d # a => d # b /\ parent'[d] # Dead
    BY <1>1, <1>2 DEF Live
  <2> QED BY <1>1, <2>1, <2>2 DEF Placed, Typed, Live
<1>4. \A d \in Live : obj'[mv(d)].kind = obj[d].kind
  BY <1>3
<1> HIDE DEF mv
<1>5. \A d \in Live : IsArray(d) => IsArray(mv(d))'
  BY <1>2, <1>4 DEF IsArray
<1>6. Typed'
  <2>1. var' \in [Vars -> Blocks \cup {Null, Dangling}]
    BY <1>1 DEF Typed, Repointed
  <2>2. \A w \in Vars : var'[w] \in Blocks => var'[w] \in Live'
    <3> SUFFICES ASSUME NEW w \in Vars, var'[w] \in Blocks
                 PROVE  var'[w] \in Live'
      OBVIOUS
    <3>1. b \in Live'
      BY <1>1, <1>2 DEF mv
    <3>2. CASE w = v \/ var[w] = a
      BY <3>1, <3>2, <1>1 DEF Repointed
    <3>3. CASE w # v /\ var[w] # a
      BY <3>3, <1>1, <1>2 DEF Repointed, Typed, mv
    <3> QED BY <3>2, <3>3
  <2>3. ASSUME NEW d \in Live'
        PROVE  obj'[d].kind # "none"
    <3>1. PICK x \in Live : d = mv(x)
      BY <1>2
    <3>2. obj[x].kind # "none"
      BY <1>1 DEF Typed
    <3> QED BY <1>4, <3>1, <3>2
  <2> QED BY <1>3, <2>1, <2>2, <2>3 DEF Typed
<1>7. Owned'
  <2>1. ASSUME NEW x \in Live, NEW p, p = parent'[mv(x)]
        PROVE  /\ p = Root \/ IsArray(p)'
               /\ obj'[mv(x)].kind = "string" => IsArray(p)'
    <3>1. p = mv(parent[x]) /\ obj'[mv(x)].kind = obj[x].kind
      BY <1>2, <1>4, <2>1
    <3>2. parent[x] = Root => p = Root
      BY <3>1 DEF mv
    <3>3. IsArray(parent[x]) => IsArray(p)'
      BY <1>5, <3>1 DEF IsArray
    <3> QED BY <1>1, <3>1, <3>2, <3>3 DEF Owned
  <2> QED BY <1>2, <2>1 DEF Owned
<1>8. ~MayPart => Beneath'
  <2> SUFFICES ASSUME ~MayPart, NEW e \in Live', obj'[e].kind = "list", NEW i \in DOMAIN obj'[e].items,
                      NEW s, s = obj'[e].items[i], s # Null
               PROVE  /\ s \in Live' /\ obj'[s].kind = "string"
                      /\ e = parent'[s] \/ (e \in Below(parent[s]))'
    BY DEF Beneath
  <2>1. PICK d \in Live : e = mv(d)
    BY <1>2
  <2>2. Item1(d, s)
    <3>1. CASE d = a
      <4>1. obj[a].kind = "list" /\ o.items[i] = s /\ i \in DOMAIN o.items /\ s # Blank(o.kind)
        BY <1>3, <2>1, <3>1 DEF mv, Blank
      <4> QED BY <1>1, <3>1, <4>1, BeneathItems
    <3>2. CASE d # a
      BY <1>1, <1>3, <2>1, <3>2, BeneathItems DEF mv
    <3> QED BY <3>1, <3>2
  <2>3. PICK p : p = parent[s]
    OBVIOUS
  <2>4. s \in Live /\ obj[s].kind = "string" /\ (d = p \/ d \in Below(p))
    BY <2>2, <2>3 DEF Item1
  <2>5. s # a /\ mv(s) = s
    BY <2>4 DEF IsArray, mv
  <2>6. PICK q : q = mv(p)
    OBVIOUS
  <2>7. s \in Live' /\ obj'[s].kind = "string" /\ parent'[s] = q
    BY <1>2, <1>4, <2>3, <2>4, <2>5, <2>6
  <2>8. d \in Below(p) => (e \in Below(q))'
    BY <1>1, <2>1, <2>6, ReallocBelow DEF mv
  <2> QED BY <2>1, <2>4, <2>6, <2>7, <2>8
<1> QED BY <1>6, <1>7, <1>8 DEF AInv

(* The array that v is now owned by has none of its strings above it.     *)
LEMMA ChownStep ==
  ASSUME AInv, IInv',
         NEW v \in Vars, NEW w \in Vars, Chown(v, w)
  PROVE  AInv'
<1> USE BlocksAssumption, PointersAssumption
<1> PICK b \in Blocks : b = var[v]
  BY DEF Chown, IsArray, Live
<1> PICK c : c = var[w]
  OBVIOUS
<1>1. /\ TypeOK /\ Typed /\ Owned /\ (~MayPart => Beneath) /\ IInv
      /\ Steal(c, b) /\ IsArray(b) /\ IsArray(c) /\ (~MayPart => parent[b] = Root)
      /\ obj' = obj /\ var' = var
  BY DEF AInv, IInv, Chown, Owned, IsArray
<1>2. /\ Live' = Live /\ parent'[b] = c
      /\ \A e \in Live : e # b => parent'[e] = parent[e]
  BY <1>1 DEF TypeOK, Steal, Live, Owners
<1>3. \A d \in Live : IsArray(d) <=> IsArray(d)'
  BY <1>1, <1>2 DEF IsArray
<1>4. Typed'
  BY <1>1, <1>2 DEF Typed
<1>5. Owned'
  <2>1. ASSUME NEW d \in Live', NEW p, p = parent'[d]
        PROVE  /\ p = Root \/ IsArray(p)'
               /\ obj'[d].kind = "string" => IsArray(p)'
    <3>1. CASE d = b
      BY <1>1, <1>2, <1>3, <2>1, <3>1 DEF IsArray
    <3>2. CASE d # b
      BY <1>1, <1>2, <1>3, <2>1, <3>2 DEF Owned, IsArray
    <3> QED BY <3>1, <3>2
  <2> QED BY <2>1 DEF Owned
<1>6. ~MayPart => Beneath'
  <2> SUFFICES ASSUME ~MayPart, NEW d \in Live', obj'[d].kind = "list", NEW i \in DOMAIN obj'[d].items,
                      NEW s, s = obj'[d].items[i], s # Null
               PROVE  /\ s \in Live' /\ obj'[s].kind = "string"
                      /\ d = parent'[s] \/ (d \in Below(parent[s]))'
    BY DEF Beneath
  <2>1. Item1(d, s)
    BY <1>1, <1>2, BeneathItems
  <2>2. PICK p : p = parent[s]
    OBVIOUS
  <2>3. s \in Live /\ obj[s].kind = "string" /\ (d = p \/ d \in Below(p))
    BY <2>1, <2>2 DEF Item1
  <2>4. p # Root
    BY <1>1, <2>2, <2>3, StringOwner
  <2>5. s # b /\ parent'[s] = p
    BY <1>1, <1>2, <2>2, <2>3 DEF IsArray
  <2>6. d \in Below(p) => (d \in Below(p))'
    BY <1>1, <2>4, StealBelow
  <2> QED BY <1>1, <1>2, <2>3, <2>5, <2>6
<1> QED BY <1>4, <1>5, <1>6 DEF AInv

(* The items of a slice are items of the array. *)
LEMMA CutItems ==
  ASSUME NEW o \in Object, NEW start \in Nat, NEW end \in Nat
  PROVE  /\ Cut(o, start, end) \in Object /\ Cut(o, start, end).kind = o.kind
         /\ \A i \in DOMAIN Cut(o, start, end).items :
              \E j \in DOMAIN o.items : Cut(o, start, end).items[i] = o.items[j]
<1> PICK s : s = o.items
  OBVIOUS
<1>0. /\ s \in Seq(Item) /\ DOMAIN s = 1 .. Len(s) /\ Len(s) \in Nat
      /\ o.count \in Nat /\ o.count <= Len(s) /\ o.kind \in {"none", "int", "list", "string"}
  BY LenProperties DEF Object, Header
<1>1. ASSUME NEW q \in Seq(Item), Cut(o, start, end) = Array(o.kind, q),
             \A i \in DOMAIN q : \E j \in DOMAIN s : q[i] = s[j]
      PROVE  /\ Cut(o, start, end) \in Object /\ Cut(o, start, end).kind = o.kind
             /\ \A i \in DOMAIN Cut(o, start, end).items :
                  \E j \in DOMAIN o.items : Cut(o, start, end).items[i] = o.items[j]
  BY <1>0, <1>1, ArrayObject
<1>2. CASE start >= o.count \/ start >= end
  <2> DEFINE q == << >>
  <2>1. Cut(o, start, end) = Array(o.kind, q)
    BY <1>2 DEF Cut
  <2>2. q \in Seq(Item) /\ DOMAIN q = {}
    OBVIOUS
  <2> HIDE DEF q
  <2> QED BY <1>1, <2>1, <2>2
<1>3. CASE ~(start >= o.count \/ start >= end)
  <2>1. PICK e : e = IF end > o.count THEN o.count ELSE end
    OBVIOUS
  <2>2. e \in 1 .. Len(s) /\ start + 1 \in 1 .. e
    BY <1>0, <1>3, <2>1
  <2>3. Cut(o, start, end) = Array(o.kind, SubSeq(s, start + 1, e))
    BY <1>3, <2>1 DEF Cut
  <2>4. \A i \in start + 1 .. e : s[i] \in Item
    BY <1>0, <2>2, ElementOfSeq
  <2>5. /\ SubSeq(s, start + 1, e) \in Seq(Item)
        /\ Len(SubSeq(s, start + 1, e)) = e - start
        /\ \A i \in 1 .. e - start : SubSeq(s, start + 1, e)[i] = s[start + i]
    <3>1. start + 1 \in Int /\ e \in Int /\ start + 1 <= e /\ 1 <= start + 1 /\ e <= Len(s)
      BY <1>0, <2>2
    <3>2. e - (start + 1) + 1 = e - start /\ \A i \in 1 .. e - start : (start + 1) + i - 1 = start + i
      BY <3>1
    <3> QED BY <2>4, <3>1, <3>2, SubSeqProperties, SMTT(30)
  <2>6. DOMAIN SubSeq(s, start + 1, e) = 1 .. e - start
    BY <2>5, LenProperties
  <2>7. \A i \in 1 .. e - start : start + i \in DOMAIN s
    BY <1>0, <2>2
  <2>8. PICK q : q = SubSeq(s, start + 1, e)
    OBVIOUS
  <2>9. \A i \in DOMAIN q : \E j \in DOMAIN s : q[i] = s[j]
    BY <2>5, <2>6, <2>7, <2>8
  <2> QED BY <1>1, <2>3, <2>5, <2>8, <2>9
<1> QED BY <1>2, <1>3

(* An item of an array that is not NULL is known to be live.              *)
LEMMA SliceStep ==
  ASSUME AInv, IInv', NEW v \in Vars, NEW w \in Vars, NEW b \in Blocks,
         NEW start \in Nat, NEW end \in Nat, Slice(v, w, b, start, end)
  PROVE  AInv'
<1> PICK c : c = var[w]
  OBVIOUS
<1> PICK o : o = Cut(obj[c], start, end)
  OBVIOUS
<1>1. /\ IsArray(c) /\ c \in Live /\ c \in Blocks /\ Alloc(c, b)
      /\ obj' = Placed({b}, o) /\ var' = Repointed({v}, b, {})
  BY DEF Slice, IsArray, Live
<1>2. obj[c] \in Object
  BY <1>1 DEF AInv, Typed
<1>3. /\ o \in Object /\ o.kind = obj[c].kind
      /\ \A i \in DOMAIN o.items : \E j \in DOMAIN obj[c].items : o.items[i] = obj[c].items[j]
  BY <1>2, CutItems
<1>4. o.kind = "list" /\ ~MayPart => \A i \in DOMAIN o.items : Item1(c, o.items[i])
  <2> SUFFICES ASSUME o.kind = "list", ~MayPart, NEW i \in DOMAIN o.items
               PROVE  Item1(c, o.items[i])
    OBVIOUS
  <2>1. PICK j \in DOMAIN obj[c].items : o.items[i] = obj[c].items[j]
    BY <1>3
  <2>2. obj[c].kind = "list" /\ Beneath
    BY <1>3 DEF AInv
  <2>3. Item1(c, obj[c].items[j])
    BY <1>1, <2>2, BeneathItems
  <2> QED BY <2>1, <2>3
<1> QED BY <1>1, <1>3, <1>4, NewArray DEF IsArray

(* The arrays that are made of nothing: by a declaration, and by resize or *)
(* slice of NULL.                                                          *)
LEMMA NewIntArray ==
  ASSUME AInv, IInv', NEW v \in Vars, NEW b \in Blocks,
         NEW o \in Object, o.kind = "int", Alloc(Root, b),
         obj' = Placed({b}, o), var' = Repointed({v}, b, {})
  PROVE  AInv'
BY NewArray

LEMMA NewIntsStep ==
  ASSUME AInv, IInv', NEW v \in Vars, NEW b \in Blocks, NEW used \in Given, NewInts(v, b, used)
  PROVE  AInv'
<1> USE BoundsAssumption
<1> DEFINE q == [i \in 1 .. MaxItems |-> IF i <= used THEN 0 ELSE Unset]
           o == [kind |-> "int", count |-> used, items |-> q]
<1>1. q \in Seq(Item) /\ Len(q) = MaxItems
  <2>1. q \in [1 .. MaxItems -> Item]
    BY DEF Item
  <2> QED BY <2>1, SeqDef, LenProperties
<1>2. used \in Nat /\ used <= MaxItems
  OBVIOUS
<1> HIDE DEF q
<1>3. o \in Object /\ o.kind = "int"
  BY <1>1, <1>2 DEF Object, Header
<1>4. Alloc(Root, b) /\ obj' = Placed({b}, o) /\ var' = Repointed({v}, b, {})
  BY DEF NewInts, q
<1> QED BY <1>3, <1>4, NewIntArray

LEMMA NewEmptyStep ==
  ASSUME AInv, IInv', NEW v \in Vars, NEW b \in Blocks, NEW n \in 0 .. MaxItems,
         NEW w \in Vars, ResizeNull(v, b, n) \/ SliceNull(v, w, b)
  PROVE  AInv'
<1> USE BoundsAssumption
<1>1. Array("int", << >>) \in Object /\ Array("int", << >>).kind = "int"
  <2>1. << >> \in Seq(Item)
    OBVIOUS
  <2> QED BY <2>1, ArrayObject
<1>2. CASE ResizeNull(v, b, n)
  <2>1. n \in Nat
    OBVIOUS
  <2>2. Resized(Array("int", << >>), n) \in Object /\ Resized(Array("int", << >>), n).kind = "int"
    BY <1>1, <2>1, ResizedItems
  <2> QED BY <1>2, <2>2, NewIntArray DEF ResizeNull
<1>3. CASE SliceNull(v, w, b)
  BY <1>1, <1>3, NewIntArray DEF SliceNull
<1> QED BY <1>2, <1>3

LEMMA ResizeStep ==
  ASSUME AInv, IInv', NEW v \in Vars, NEW b \in Blocks, NEW n \in Nat, Resize(v, b, n)
  PROVE  AInv'
<1> PICK a : a = var[v]
  OBVIOUS
<1> PICK o : o = Resized(obj[a], n)
  OBVIOUS
<1>1. /\ IsArray(a) /\ a \in Blocks /\ Realloc(a, b)
      /\ obj' = Placed({b}, o) /\ var' = Repointed({v}, b, IF b = a THEN {} ELSE {a})
  BY DEF Resize, IsArray, Live
<1>2. obj[a] \in Object
  BY <1>1 DEF AInv, Typed
<1>3. /\ o \in Object /\ o.kind = obj[a].kind
      /\ \A i \in DOMAIN o.items :
           \/ o.items[i] = Blank(o.kind)
           \/ i \in DOMAIN obj[a].items /\ o.items[i] = obj[a].items[i]
  BY <1>2, ResizedItems
<1> QED BY <1>1, <1>3, MoveStep, ZenonT(30)

LEMMA ArraysStep == AInv /\ IInv' /\ [ArraysNext]_arrays => AInv'
<1> SUFFICES ASSUME AInv, IInv', [ArraysNext]_arrays
             PROVE  AInv'
  OBVIOUS
<1> USE BlocksAssumption, PointersAssumption, BoundsAssumption
<1>0. TypeOK /\ Typed /\ Owned /\ IInv /\ (~MayPart => Beneath)
  BY DEF AInv, IInv
<1>1. ASSUME parent' = parent, obj' = obj, var' \in [Vars -> Blocks \cup {Null, Dangling}],
             \A v \in Vars : var'[v] \in Blocks => var'[v] \in Live
      PROVE  AInv'
  <2>1. Live' = Live /\ \A d : (d \in Live) <=> (d \in Live)'
    BY <1>1 DEF Live
  <2>2. Typed'
    BY <1>0, <1>1, <2>1 DEF Typed
  <2>3. Owned'
    BY <1>0, <1>1, <2>1 DEF Owned, IsArray
  <2>4. Beneath => Beneath'
    BY <1>1, <2>1 DEF Beneath, Below, ClosedBelow, Live
  <2> QED BY <1>0, <2>2, <2>3, <2>4 DEF AInv
<1>2. CASE UNCHANGED arrays
  BY <1>0, <1>1, <1>2 DEF arrays, Typed
<1>3. CASE End
  <2>1. Live' = {}
    BY <1>0, <1>3 DEF End, Shutdown, IInv, AllBelowRoot, Live
  <2>2. /\ obj' = [b \in Blocks |-> Nothing]
        /\ var' = [w \in Vars |-> IF var[w] \in Live THEN Dangling ELSE var[w]]
    BY <1>3, <2>1 DEF End, Placed, Repointed, Live
  <2>3. Typed'
    <3>1. Nothing \in Object
      BY NothingObject
    <3>2. var' \in [Vars -> Blocks \cup {Null, Dangling}]
      BY <1>0, <2>2 DEF Typed
    <3>3. \A w \in Vars : var'[w] \notin Blocks
      BY <1>0, <2>2 DEF Typed
    <3> QED BY <2>1, <2>2, <3>1, <3>2, <3>3 DEF Typed
  <2>4. Owned' /\ Beneath'
    BY <2>1 DEF Owned, Beneath
  <2> QED BY <2>3, <2>4 DEF AInv
<1>4. ASSUME NEW v \in Vars, FreeArray(v)
      PROVE  AInv'
  <2>1. PICK g \in Blocks : g = var[v]
    BY <1>4 DEF FreeArray, IsArray, Live
  <2> QED BY <1>4, <2>1, FreeStep DEF FreeArray
<1>5. ASSUME NEW v \in Vars, OutOfMemory(v)
      PROVE  AInv'
  <2>1. parent' = parent /\ obj' = obj /\ var' = Repointed({v}, Null, {})
    BY <1>5 DEF OutOfMemory
  <2> QED BY <1>0, <1>1, <2>1 DEF Typed, Repointed
<1>6. ASSUME NEW v \in Vars, NEW w \in Vars, Assign(v, w)
      PROVE  AInv'
  <2>1. parent' = parent /\ obj' = obj /\ var' = Repointed({v}, var[w], {})
    BY <1>6 DEF Assign
  <2> QED BY <1>0, <1>1, <2>1 DEF Typed, Repointed
<1>7. ASSUME NEW v \in Vars, NEW w \in Vars, Chown(v, w)
      PROVE  AInv'
  BY <1>7, ChownStep
<1>8. ASSUME NEW v \in Vars, NEW b \in Blocks, NEW n \in 0 .. MaxItems, Resize(v, b, n)
      PROVE  AInv'
  BY <1>8, ResizeStep
<1>9. ASSUME NEW v \in Vars, NEW b \in Blocks, NEW w \in Vars, NEW part \in Parts,
             Slice(v, w, b, part[1], part[2])
      PROVE  AInv'
  <2>1. part[1] \in Nat /\ part[2] \in Nat
    OBVIOUS
  <2> QED BY <1>9, <2>1, SliceStep
<1>10. ASSUME NEW v \in Vars, NEW b \in Blocks, NEW used \in Given, NewInts(v, b, used)
       PROVE  AInv'
  BY <1>10, NewIntsStep
<1>12. ASSUME NEW v \in Vars, NEW b \in Blocks, NEW n \in 0 .. MaxItems, NEW w \in Vars,
              ResizeNull(v, b, n) \/ SliceNull(v, w, b)
       PROVE  AInv'
  BY <1>12, NewEmptyStep
<1>11. ASSUME NEW v \in Vars, NEW b \in Blocks, NEW s \in Blocks, NewList(v, b, s)
       PROVE  AInv'
  BY <1>11, NewListStep
<1> QED
  <2>1. 0 \in 0 .. MaxItems
    OBVIOUS
  <2> QED BY <1>2, <1>3, <1>4, <1>5, <1>6, <1>7, <1>8, <1>9, <1>10, <1>11, <1>12, <2>1 DEF ArraysNext

LEMMA ArraysInitially == ArraysInit => AInv
<1> SUFFICES ASSUME ArraysInit
             PROVE  AInv
  OBVIOUS
<1> USE PointersAssumption
<1>1. IInv /\ Live = {}
  BY InitOwners DEF ArraysInit, Init, Live
<1>2. Nothing \in Object
  BY NothingObject
<1>3. Typed
  BY <1>1, <1>2 DEF ArraysInit, Typed
<1> QED BY <1>1, <1>3 DEF AInv, Owned, Beneath

(* Variables point to arrays that are there, arrays own and strings are    *)
(* owned; unless a slice may be given away, lists stay below the owner of  *)
(* their strings.                                                          *)
THEOREM ArraysInductive == ArraysSpec => []AInv
<1>1. AInv /\ [ArraysNext]_arrays => AInv'
  BY OwnersStep, ArraysStep DEF AInv
<1> QED BY <1>1, ArraysInitially, PTL DEF ArraysSpec

(* A list never has the address of a string that was freed, in a program   *)
(* that gives no slice of a list another owner.                            *)
THEOREM ListItemsLive == ASSUME MayPart = FALSE PROVE ArraysSpec => []ItemsLive
<1>1. AInv => ItemsLive
  BY BeneathItems DEF AInv, ItemsLive, Item1
<1> QED BY <1>1, ArraysInductive, PTL

LEMMA ResizeSpares ==
  ASSUME AInv, NEW v \in Vars, NEW b \in Blocks, NEW n \in 0 .. MaxItems, Resize(v, b, n)
  PROVE  /\ var'[v] \in Blocks
         /\ \A i \in DOMAIN obj'[var'[v]].items :
              i \in DOMAIN obj[var[v]].items => obj'[var'[v]].items[i] = obj[var[v]].items[i]
         /\ \A w \in Vars : var[w] \in Blocks \ {var[v]} =>
              /\ var'[w] = var[w]
              /\ obj'[var[w]] = obj[var[w]]
              /\ parent'[var[w]] = (IF parent[var[w]] = var[v] THEN var'[v] ELSE parent[var[w]])
<1> USE BlocksAssumption, PointersAssumption, BoundsAssumption
<1> PICK a : a = var[v]
  OBVIOUS
<1> PICK o : o = Resized(obj[a], n)
  OBVIOUS
<1>1. /\ IsArray(a) /\ a \in Blocks /\ a \in Live /\ Realloc(a, b) /\ Typed /\ TypeOK
      /\ obj' = Placed({b}, o) /\ var' = Repointed({v}, b, IF b = a THEN {} ELSE {a})
  BY DEF Resize, IsArray, Live, AInv, IInv
<1>2. obj[a] \in Object
  BY <1>1 DEF Typed
<1>3. \A i \in DOMAIN o.items : i \in DOMAIN obj[a].items => o.items[i] = obj[a].items[i]
  BY <1>2, ResizedItems
<1>4. var'[v] = b /\ obj'[b] = o
  BY <1>1 DEF Repointed, Placed
<1>5. ASSUME NEW w \in Vars, NEW d \in Blocks, d = var[w], d # a
      PROVE  /\ var'[w] = d /\ obj'[d] = obj[d]
             /\ parent'[d] = (IF parent[d] = a THEN b ELSE parent[d])
  <2>1. d \in Live /\ d # b /\ w # v
    BY <1>1, <1>5 DEF Typed, Realloc
  <2>2. parent'[d] = (IF parent[d] = a THEN b ELSE parent[d])
    BY <1>1, <1>5, <2>1 DEF Realloc
  <2>3. var'[w] = d
    BY <1>1, <1>5, <2>1 DEF Repointed
  <2>4. obj'[d] = obj[d]
    BY <1>1, <2>1, <2>2 DEF Placed, Live
  <2> QED BY <2>2, <2>3, <2>4
<1> QED BY <1>3, <1>4, <1>5

(* A resize moves the array for its own variable only: variables of other  *)
(* arrays, its slices among them, find theirs as they were.                *)
THEOREM ResizeLeavesOthers == ArraysSpec => ResizeSparesOthers
<1>1. AInv /\ [ArraysNext]_arrays =>
        [\A v \in Vars : (obj' # obj /\ \E b \in Blocks, n \in 0 .. MaxItems : Resize(v, b, n)) =>
           /\ var'[v] \in Blocks
           /\ \A i \in DOMAIN obj'[var'[v]].items :
                i \in DOMAIN obj[var[v]].items => obj'[var'[v]].items[i] = obj[var[v]].items[i]
           /\ \A w \in Vars : var[w] \in Blocks \ {var[v]} =>
                /\ var'[w] = var[w]
                /\ obj'[var[w]] = obj[var[w]]
                /\ parent'[var[w]] = (IF parent[var[w]] = var[v] THEN var'[v] ELSE parent[var[w]])]_arrays
  BY ResizeSpares
<1> QED BY <1>1, ArraysInductive, PTL DEF ArraysSpec, ResizeSparesOthers
=============================================================================
