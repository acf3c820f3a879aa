------------------------- MODULE MemRecords_proofs --------------------------
(***************************************************************************)
(* The records of the Windows branch, for every set of addresses.          *)
(*                                                                         *)
(* The proof reuses that of Ownership.  A block without a record is freed  *)
(* by nobody but the program, as one owned by the root is; with that       *)
(* reading (HeldOwner) every call is a step of Ownership, even when the    *)
(* record of a block could not be allocated, so owners that are live and   *)
(* the absence of cycles come from the lemmas there.  What mem_talloc_free *)
(* needs on top is where its running calls are: each is for a block below  *)
(* those it was called from (Branch), and what is left to free is the      *)
(* first of them and what is below it (Doom).                              *)
(***************************************************************************)
EXTENDS MemRecords, SequenceTheorems, WellFoundedInduction, TLAPS

(* A set of numbers that is not empty has a least element. *)
LEMMA MinIsLeast ==
  ASSUME NEW S \in SUBSET Nat, S # {}
  PROVE  Min(S) \in S /\ \A x \in S : Min(S) <= x
<1> DEFINE R == {ss \in Nat \X Nat : ss[1] < ss[2]}
<1>1. IsWellFoundedOn(R, Nat)
  <2>1. OpToRel(<, Nat) = R
    BY Zenon DEF OpToRel
  <2> QED BY <2>1, NatLessThanWellFounded, Zenon
<1> HIDE DEF R
<1>2. PICK x \in S : \A y \in S : ~ (<<y, x>> \in R)
  BY <1>1, WFMin
<1>3. ASSUME NEW y \in S, y < x
      PROVE  FALSE
  <2>1. <<y, x>> \in Nat \X Nat /\ <<y, x>>[1] < <<y, x>>[2]
    BY <1>3
  <2>2. <<y, x>> \in R
    BY <2>1, Zenon DEF R
  <2> QED BY <1>2, <2>2
<1>4. \A y \in S : x <= y
  BY <1>3
<1> QED BY <1>4 DEF Min

(* The least element of a set of one. *)
LEMMA MinOfOne ==
  ASSUME NEW x \in Nat
  PROVE  Min({x}) = x
BY MinIsLeast, {x} # {}

(* The list without the element at position k. *)
LEMMA RemoveAtProperties ==
  ASSUME NEW S, NEW s \in Seq(S), NEW k \in DOMAIN s
  PROVE  /\ RemoveAt(s, k) \in Seq(S)
         /\ Len(RemoveAt(s, k)) = Len(s) - 1
         /\ \A i \in 1 .. Len(s) - 1 :
              RemoveAt(s, k)[i] = IF i < k THEN s[i] ELSE s[i + 1]
<1> DEFINE a == SubSeq(s, 1, k - 1)
           b == SubSeq(s, k + 1, Len(s))
<1>0. k \in 1 .. Len(s) /\ Len(s) \in Nat
  BY LenProperties
<1>1. /\ a \in Seq(S) /\ Len(a) = k - 1
      /\ \A i \in 1 .. k - 1 : a[i] = s[i]
  BY <1>0, SubSeqProperties, ElementOfSeq
<1>2. /\ b \in Seq(S) /\ Len(b) = Len(s) - k
      /\ \A i \in 1 .. Len(s) - k : b[i] = s[k + i]
  BY <1>0, SubSeqProperties, ElementOfSeq
<1>3. RemoveAt(s, k) = a \o b
  BY DEF RemoveAt
<1> HIDE DEF a, b
<1>4. /\ a \o b \in Seq(S) /\ Len(a \o b) = Len(s) - 1
      /\ \A i \in 1 .. Len(s) - 1 :
           (a \o b)[i] = IF i <= k - 1 THEN a[i] ELSE b[i - (k - 1)]
  BY <1>0, <1>1, <1>2, ConcatProperties, SMTT(30)
<1>5. ASSUME NEW i \in 1 .. Len(s) - 1
      PROVE  (a \o b)[i] = IF i < k THEN s[i] ELSE s[i + 1]
  <2>1. CASE i < k
    <3>1. i \in 1 .. k - 1
      BY <1>0, <2>1
    <3> QED BY <1>0, <1>1, <1>4, <2>1, <3>1
  <2>2. CASE ~(i < k)
    <3> DEFINE j == i - (k - 1)
    <3>1. j \in 1 .. Len(s) - k /\ k + j = i + 1 /\ ~(i <= k - 1)
      BY <1>0, <2>2
    <3> HIDE DEF j
    <3>2. (a \o b)[i] = b[j]
      BY <1>4, <3>1 DEF j
    <3> QED BY <1>2, <2>2, <3>1, <3>2
  <2> QED BY <2>1, <2>2
<1> QED BY <1>3, <1>4, <1>5

(* A new head. *)
LEMMA PushProperties ==
  ASSUME NEW S, NEW s \in Seq(S), NEW e \in S
  PROVE  /\ <<e>> \o s \in Seq(S)
         /\ Len(<<e>> \o s) = Len(s) + 1
         /\ (<<e>> \o s)[1] = e
         /\ \A i \in 1 .. Len(s) : (<<e>> \o s)[i + 1] = s[i]
<1>1. <<e>> \in Seq(S) /\ Len(<<e>>) = 1 /\ <<e>>[1] = e
  OBVIOUS
<1>2. Len(s) \in Nat
  BY LenProperties
<1> QED BY <1>1, <1>2, ConcatProperties

-----------------------------------------------------------------------------
Record == [ptr : Blocks, parent : Blocks \cup {NULL}]

(* What the records of list rs say, so that the lemmas hold of the list    *)
(* before a step and of the list after it.                                 *)
Found(rs, p) == {i \in DOMAIN rs : rs[i].ptr = p}
Listed(rs) == {rs[i].ptr : i \in DOMAIN rs}
Once(rs) == \A i, j \in DOMAIN rs : rs[i].ptr = rs[j].ptr => i = j
Parent(rs, p) == IF Found(rs, p) = {} THEN NULL ELSE rs[Min(Found(rs, p))].parent

(* Recorded in rs: p is owned by c. *)
Says(rs, p, c) == \E i \in DOMAIN rs : rs[i] = [ptr |-> p, parent |-> c]

LEMMA ListOfRecords ==
  /\ Tracked = Listed(mem_records)
  /\ \A p : RecordsOf(p) = Found(mem_records, p)
  /\ \A p : ParentOf(p) = Parent(mem_records, p)
BY DEF Tracked, Listed, RecordsOf, Found, ParentOf, Parent

LEMMA ListOfRecordsNext ==
  /\ Tracked' = Listed(mem_records')
  /\ \A p : ParentOf(p)' = Parent(mem_records', p)
BY DEF Tracked, Listed, RecordsOf, Found, ParentOf, Parent

LEMMA FoundOnce ==
  ASSUME NEW rs \in Seq(Record), Once(rs), NEW i \in DOMAIN rs
  PROVE  /\ Found(rs, rs[i].ptr) = {i}
         /\ Min(Found(rs, rs[i].ptr)) = i
         /\ Parent(rs, rs[i].ptr) = rs[i].parent
<1>1. Found(rs, rs[i].ptr) = {i}
  BY DEF Found, Once
<1>2. i \in Nat
  BY LenProperties
<1> QED BY <1>1, <1>2, MinOfOne DEF Parent

(* The owner of a block is what its record says, NULL if there is none. *)
LEMMA ParentSays ==
  ASSUME NEW rs \in Seq(Record), Once(rs), NEW p
  PROVE  /\ \A c : Says(rs, p, c) => p \in Listed(rs) /\ Parent(rs, p) = c
         /\ p \notin Listed(rs) => Parent(rs, p) = NULL
         /\ p \in Listed(rs) => Says(rs, p, Parent(rs, p))
<1>1. ASSUME NEW c, NEW i \in DOMAIN rs, rs[i] = [ptr |-> p, parent |-> c]
      PROVE  p \in Listed(rs) /\ Parent(rs, p) = c
  <2>1. rs[i].ptr = p /\ rs[i].parent = c
    BY <1>1
  <2> QED BY <2>1, FoundOnce DEF Listed
<1>2. ASSUME p \notin Listed(rs)
      PROVE  Parent(rs, p) = NULL
  BY <1>2 DEF Listed, Parent, Found
<1>3. ASSUME NEW i \in DOMAIN rs, rs[i].ptr = p
      PROVE  rs[i] = [ptr |-> p, parent |-> Parent(rs, p)]
  <2>1. rs[i] \in Record
    BY LenProperties, ElementOfSeq
  <2>2. Parent(rs, p) = rs[i].parent
    BY <1>3, FoundOnce
  <2> QED BY <1>3, <2>1, <2>2 DEF Record
<1> QED BY <1>1, <1>2, <1>3 DEF Says, Listed

(* mem_track of a block that has a record. *)
Relabel(rs, k, c) == [rs EXCEPT ![k].parent = c]

LEMMA Relabelled ==
  ASSUME NEW rs \in Seq(Record), Once(rs), NEW k \in DOMAIN rs,
         NEW c \in Blocks \cup {NULL}
  PROVE  /\ Relabel(rs, k, c) \in Seq(Record) /\ Once(Relabel(rs, k, c))
         /\ Listed(Relabel(rs, k, c)) = Listed(rs)
         /\ \A b : Parent(Relabel(rs, k, c), b) = IF b = rs[k].ptr THEN c ELSE Parent(rs, b)
<1> DEFINE e == [rs[k] EXCEPT !.parent = c]
<1> PICK s : s = Relabel(rs, k, c)
  OBVIOUS
<1>1. rs[k] \in Record /\ k \in 1 .. Len(rs) /\ DOMAIN rs = 1 .. Len(rs)
  BY LenProperties, ElementOfSeq
<1>2. e \in Record /\ e = [ptr |-> rs[k].ptr, parent |-> c]
  BY <1>1 DEF Record
<1>3. s = [rs EXCEPT ![k] = e]
  <2>1. [rs EXCEPT ![k].parent = c] = [rs EXCEPT ![k] = e]
    BY <1>1
  <2> QED BY <2>1, Zenon DEF Relabel
<1> HIDE DEF e
<1>4. /\ s \in Seq(Record) /\ DOMAIN s = DOMAIN rs
      /\ \A i \in DOMAIN rs : s[i] = IF i = k THEN e ELSE rs[i]
  BY <1>1, <1>2, <1>3, ExceptSeq, LenProperties
<1>5. \A i \in DOMAIN rs : s[i].ptr = rs[i].ptr
  BY <1>2, <1>4
<1>6. Once(s) /\ Listed(s) = Listed(rs)
  BY <1>4, <1>5 DEF Once, Listed
<1>7. ASSUME NEW b
      PROVE  Parent(s, b) = IF b = rs[k].ptr THEN c ELSE Parent(rs, b)
  <2>1. CASE b = rs[k].ptr
    <3>1. Says(s, b, c)
      BY <1>2, <1>4, <2>1 DEF Says
    <3> QED BY <1>4, <1>6, <2>1, <3>1, ParentSays
  <2>2. CASE b # rs[k].ptr /\ b \in Listed(rs)
    <3>1. Says(s, b, Parent(rs, b))
      BY <1>4, <2>2, ParentSays DEF Says
    <3> QED BY <1>4, <1>6, <2>2, <3>1, ParentSays
  <2>3. CASE b # rs[k].ptr /\ b \notin Listed(rs)
    BY <1>4, <1>6, <2>3, ParentSays
  <2> QED BY <2>1, <2>2, <2>3
<1> QED BY <1>4, <1>6, <1>7

(* mem_track of a block that has none. *)
Push(rs, p, c) == <<[ptr |-> p, parent |-> c]>> \o rs

LEMMA Pushed ==
  ASSUME NEW rs \in Seq(Record), Once(rs), NEW p \in Blocks \ Listed(rs),
         NEW c \in Blocks \cup {NULL}
  PROVE  /\ Push(rs, p, c) \in Seq(Record) /\ Once(Push(rs, p, c))
         /\ Listed(Push(rs, p, c)) = Listed(rs) \cup {p}
         /\ \A b : Parent(Push(rs, p, c), b) = IF b = p THEN c ELSE Parent(rs, b)
<1> DEFINE e == [ptr |-> p, parent |-> c]
           s == Push(rs, p, c)
<1>1. e \in Record /\ Len(rs) \in Nat /\ DOMAIN rs = 1 .. Len(rs)
  BY LenProperties DEF Record
<1>2. /\ s \in Seq(Record) /\ Len(s) = Len(rs) + 1 /\ s[1] = e
      /\ \A i \in 1 .. Len(rs) : s[i + 1] = rs[i]
  BY <1>1, PushProperties DEF Push
<1>3. DOMAIN s = 1 .. Len(rs) + 1
  BY <1>2, LenProperties
<1> HIDE DEF s
<1>4. \A i \in DOMAIN s : i = 1 \/ (i - 1 \in DOMAIN rs /\ s[i] = rs[i - 1])
  BY <1>1, <1>2, <1>3
<1>5. e.ptr = p
  OBVIOUS
<1> HIDE DEF e
<1>6. \A i \in DOMAIN rs : rs[i].ptr # p
  BY DEF Listed
<1>7. Once(s)
  <2> SUFFICES ASSUME NEW i \in DOMAIN s, NEW j \in DOMAIN s, s[i].ptr = s[j].ptr
               PROVE  i = j
    BY DEF Once
  <2>1. i \in Nat /\ j \in Nat
    BY <1>1, <1>3
  <2>2. CASE i # 1 /\ j # 1
    <3>1. i - 1 = j - 1
      BY <1>4, <2>2 DEF Once
    <3> QED BY <2>1, <3>1
  <2>3. CASE i = 1 \/ j = 1
    BY <1>2, <1>4, <1>5, <1>6, <2>3
  <2> QED BY <2>2, <2>3
<1>8. Listed(s) = Listed(rs) \cup {p}
  <2>1. ASSUME NEW i \in DOMAIN s
        PROVE  s[i].ptr \in Listed(rs) \cup {p}
    BY <1>2, <1>4, <1>5 DEF Listed
  <2>2. 1 \in DOMAIN s /\ \A i \in DOMAIN rs : i + 1 \in DOMAIN s
    BY <1>1, <1>3
  <2>3. p \in Listed(s)
    BY <1>2, <1>5, <2>2 DEF Listed
  <2>4. ASSUME NEW i \in DOMAIN rs
        PROVE  rs[i].ptr \in Listed(s)
    BY <1>1, <1>2, <2>2 DEF Listed
  <2> QED BY <2>1, <2>3, <2>4 DEF Listed
<1>9. ASSUME NEW b
      PROVE  Parent(s, b) = IF b = p THEN c ELSE Parent(rs, b)
  <2>0. 1 \in DOMAIN s /\ \A i \in DOMAIN rs : i + 1 \in DOMAIN s
    BY <1>1, <1>3
  <2>1. CASE b = p
    <3>1. Says(s, b, c)
      BY <1>2, <2>0, <2>1 DEF Says, e
    <3> QED BY <1>2, <1>7, <2>1, <3>1, ParentSays
  <2>2. CASE b # p /\ b \in Listed(rs)
    <3>1. PICK i \in DOMAIN rs : rs[i] = [ptr |-> b, parent |-> Parent(rs, b)]
      BY <2>2, ParentSays DEF Says
    <3>2. Says(s, b, Parent(rs, b))
      BY <1>1, <1>2, <2>0, <3>1 DEF Says
    <3> QED BY <1>2, <1>7, <2>2, <3>2, ParentSays
  <2>3. CASE b # p /\ b \notin Listed(rs)
    BY <1>2, <1>7, <1>8, <2>3, ParentSays
  <2> QED BY <2>1, <2>2, <2>3
<1> QED BY <1>2, <1>7, <1>8, <1>9 DEF s

(* mem_untrack *)
LEMMA Unlisted ==
  ASSUME NEW rs \in Seq(Record), Once(rs), NEW k \in DOMAIN rs
  PROVE  LET s == RemoveAt(rs, k)
         IN /\ s \in Seq(Record) /\ Once(s) /\ Listed(s) = Listed(rs) \ {rs[k].ptr}
            /\ \A b : b # rs[k].ptr => Parent(s, b) = Parent(rs, b)
<1> DEFINE s == RemoveAt(rs, k)
           p == rs[k].ptr
           old(i) == IF i < k THEN i ELSE i + 1
           new(i) == IF i < k THEN i ELSE i - 1
<1>1. /\ s \in Seq(Record) /\ Len(s) = Len(rs) - 1
      /\ \A i \in 1 .. Len(rs) - 1 : s[i] = IF i < k THEN rs[i] ELSE rs[i + 1]
  BY RemoveAtProperties
<1>2. /\ Len(rs) \in Nat /\ DOMAIN rs = 1 .. Len(rs) /\ k \in 1 .. Len(rs)
      /\ DOMAIN s = 1 .. Len(rs) - 1
  BY <1>1, LenProperties
<1> HIDE DEF s
<1>3. \A i \in DOMAIN s : old(i) \in DOMAIN rs \ {k} /\ s[i] = rs[old(i)]
  BY <1>1, <1>2
<1>4. \A i \in DOMAIN rs \ {k} : new(i) \in DOMAIN s /\ s[new(i)] = rs[i]
  BY <1>1, <1>2
<1>5. \A i, j \in DOMAIN s : old(i) = old(j) => i = j
  BY <1>2
<1> HIDE DEF old, new
<1>6. Once(s)
  BY <1>3, <1>5 DEF Once
<1>7. Listed(s) = Listed(rs) \ {p}
  <2>1. ASSUME NEW i \in DOMAIN s
        PROVE  s[i].ptr \in Listed(rs) \ {p}
    BY <1>3 DEF Listed, Once
  <2>2. ASSUME NEW i \in DOMAIN rs, rs[i].ptr # p
        PROVE  rs[i].ptr \in Listed(s)
    BY <1>4, <2>2 DEF Listed
  <2> QED BY <2>1, <2>2 DEF Listed
<1>8. ASSUME NEW b, b # p
      PROVE  Parent(s, b) = Parent(rs, b)
  <2>1. CASE b \in Listed(rs)
    <3>1. PICK i \in DOMAIN rs : rs[i] = [ptr |-> b, parent |-> Parent(rs, b)]
      BY <2>1, ParentSays DEF Says
    <3>2. i # k
      BY <1>8, <3>1
    <3>3. Says(s, b, Parent(rs, b))
      BY <1>4, <3>1, <3>2 DEF Says
    <3> QED BY <1>1, <1>6, <3>3, ParentSays
  <2>2. CASE b \notin Listed(rs)
    BY <1>1, <1>6, <1>7, <2>2, ParentSays
  <2> QED BY <2>1, <2>2
<1> QED BY <1>1, <1>6, <1>7, <1>8 DEF s

(* mem_talloc_realloc, of the records there are: p is called n. *)
LEMMA Renamed ==
  ASSUME NEW rs \in Seq(Record), Once(rs), NEW p \in Blocks, NEW n \in Blocks,
         n \notin Listed(rs) \ {p}
  PROVE  LET mv(q) == IF q = p THEN n ELSE q
             s == [i \in DOMAIN rs |-> [ptr |-> mv(rs[i].ptr), parent |-> mv(rs[i].parent)]]
         IN /\ s \in Seq(Record) /\ Once(s) /\ Listed(s) = {mv(q) : q \in Listed(rs)}
            /\ \A q \in Listed(rs) : Parent(s, mv(q)) = mv(Parent(rs, q))
<1> DEFINE mv(q) == IF q = p THEN n ELSE q
           s == [i \in DOMAIN rs |-> [ptr |-> mv(rs[i].ptr), parent |-> mv(rs[i].parent)]]
<1>1. DOMAIN rs = 1 .. Len(rs) /\ Len(rs) \in Nat /\ \A i \in DOMAIN rs : rs[i] \in Record
  BY LenProperties, ElementOfSeq
<1>2. \A i \in DOMAIN rs : [ptr |-> mv(rs[i].ptr), parent |-> mv(rs[i].parent)] \in Record
  BY <1>1 DEF Record
<1>3. s \in Seq(Record)
  BY <1>1, <1>2
<1> HIDE DEF mv
<1>4. ASSUME NEW i \in DOMAIN rs
      PROVE  /\ s[i] = [ptr |-> mv(rs[i].ptr), parent |-> mv(rs[i].parent)]
             /\ s[i].ptr = mv(rs[i].ptr)
  <2>1. s[i] = [ptr |-> mv(rs[i].ptr), parent |-> mv(rs[i].parent)]
    OBVIOUS
  <2> HIDE DEF s
  <2> QED BY <2>1
<1>5. DOMAIN s = DOMAIN rs
  OBVIOUS
<1> HIDE DEF s
<1>6. \A q, r \in Listed(rs) : mv(q) = mv(r) => q = r
  BY DEF mv
<1>7. ASSUME NEW i \in DOMAIN rs
      PROVE  rs[i].ptr \in Listed(rs) /\ s[i].ptr = mv(rs[i].ptr)
  <2>1. rs[i].ptr \in Listed(rs)
    BY DEF Listed
  <2> QED BY <1>4, <2>1
<1>8. Once(s)
  BY <1>5, <1>6, <1>7 DEF Once
<1>9. Listed(s) = {mv(q) : q \in Listed(rs)}
  BY <1>5, <1>7 DEF Listed
<1>10. ASSUME NEW q \in Listed(rs)
       PROVE  Parent(s, mv(q)) = mv(Parent(rs, q))
  <2>1. PICK i \in DOMAIN rs : rs[i] = [ptr |-> q, parent |-> Parent(rs, q)]
    BY ParentSays DEF Says
  <2>2. rs[i].ptr = q /\ rs[i].parent = Parent(rs, q)
    BY <2>1
  <2>3. Says(s, mv(q), mv(Parent(rs, q)))
    BY <1>4, <1>5, <2>2 DEF Says
  <2> QED BY <1>3, <1>8, <2>3, ParentSays
<1> QED BY <1>3, <1>8, <1>9, <1>10 DEF s, mv

-----------------------------------------------------------------------------
(***************************************************************************)
(* The calls as steps of Ownership.                                        *)
(***************************************************************************)
HeldOwner == [b \in Blocks |-> IF b \in mem THEN ParentOf(b) ELSE Dead]

Held == INSTANCE Ownership_proofs WITH parent <- HeldOwner, Root <- NULL

(* What the records say and Ownership's invariant of the blocks. *)
Sound == TypeOK /\ RecordsSound /\ Held!IInv

LEMMA RecordFacts ==
  ASSUME TypeOK, RecordsSound
  PROVE  /\ mem_records \in Seq(Record) /\ Once(mem_records)
         /\ Listed(mem_records) \subseteq mem
         /\ \A b : ParentOf(b) \in mem \cup {NULL}
         /\ \A b : b \notin Tracked => ParentOf(b) = NULL
         /\ Held!Live = mem
         /\ \A b \in mem : HeldOwner[b] = ParentOf(b)
<1>1. mem_records \in Seq(Record) /\ Once(mem_records)
  BY DEF TypeOK, RecordsSound, Record, Once
<1>2. Listed(mem_records) \subseteq mem
  BY DEF RecordsSound, Listed
<1>3. ASSUME NEW b
      PROVE  ParentOf(b) \in mem \cup {NULL} /\ (b \notin Tracked => ParentOf(b) = NULL)
  <2>1. CASE b \notin Tracked
    BY <1>1, <2>1, ListOfRecords, ParentSays
  <2>2. CASE b \in Tracked
    <3>1. PICK i \in DOMAIN mem_records : mem_records[i].ptr = b
      BY <2>2 DEF Tracked
    <3>2. ParentOf(b) = mem_records[i].parent
      BY <1>1, <3>1, ListOfRecords, FoundOnce
    <3> QED BY <2>2, <3>2 DEF RecordsSound
  <2> QED BY <2>1, <2>2
<1>4. mem \subseteq Blocks
  BY DEF TypeOK
<1>5. \A b \in Blocks : HeldOwner[b] = IF b \in mem THEN ParentOf(b) ELSE Dead
  BY DEF HeldOwner
<1>6. Dead \notin mem \cup {NULL}
  BY <1>4, NamesAssumption
<1>7. Held!Live = mem
  BY <1>3, <1>4, <1>5, <1>6 DEF Held!Live
<1> QED BY <1>1, <1>2, <1>3, <1>4, <1>5, <1>7

(* Below a block are the same blocks whether or not one counts those       *)
(* without a record.                                                       *)
LEMMA BelowRecorded ==
  ASSUME TypeOK, RecordsSound, NEW r \in Blocks
  PROVE  Held!Below(r) = Records!Below(r)
<1> USE NamesAssumption
<1>1. Records!Live = Tracked /\ Tracked \subseteq mem /\ mem \subseteq Blocks
  <2>1. \A b \in Blocks : RecordedOwner[b] = IF b \in Tracked THEN ParentOf(b) ELSE Dead
    BY DEF RecordedOwner, RecordsOf, Tracked
  <2>2. Tracked \subseteq mem /\ mem \subseteq Blocks
    BY RecordFacts, ListOfRecords DEF TypeOK
  <2>3. \A b : ParentOf(b) # Dead
    BY <2>2, RecordFacts
  <2> QED BY <2>1, <2>2, <2>3 DEF Records!Live
<1>2. Held!Live = mem
  BY RecordFacts
<1>3. \A d \in Tracked : RecordedOwner[d] = HeldOwner[d]
  BY <1>1, RecordFacts DEF RecordedOwner, RecordsOf, Tracked
<1>4. \A d \in mem \ Tracked : HeldOwner[d] = NULL
  BY RecordFacts
<1>5. ASSUME NEW S \in SUBSET Blocks
      PROVE  Held!ClosedBelow(r, S) <=> Records!ClosedBelow(r, S)
  BY <1>1, <1>2, <1>3, <1>4 DEF Held!ClosedBelow, Records!ClosedBelow
<1>6. Held!Below(r) \subseteq Tracked
  <2>1. Held!ClosedBelow(r, Tracked) /\ Tracked \in SUBSET Blocks
    BY <1>1, <1>2, <1>4 DEF Held!ClosedBelow
  <2> QED BY <2>1 DEF Held!Below
<1> QED BY <1>1, <1>2, <1>5, <1>6 DEF Held!Below, Records!Below

(* What mem_track does: p is owned by c, or, when memory for its record    *)
(* runs out, nothing changes.                                              *)
LEMMA TrackMeans ==
  ASSUME TypeOK, RecordsSound, NEW p \in Blocks, NEW c \in Blocks \cup {NULL}, Track(p, c)
  PROVE  /\ mem_records' \in Seq(Record) /\ Once(mem_records')
         /\ \/ /\ Listed(mem_records') = Tracked \cup {p}
               /\ \A b : Parent(mem_records', b) = IF b = p THEN c ELSE ParentOf(b)
            \/ scarce /\ p \notin Tracked /\ mem_records' = mem_records
<1>0. mem_records \in Seq(Record) /\ Once(mem_records)
  BY RecordFacts
<1>1. CASE RecordsOf(p) # {} /\ mem_records' = [mem_records EXCEPT ![Min(RecordsOf(p))].parent = c]
  <2>1. PICK k \in DOMAIN mem_records : mem_records[k].ptr = p
    BY <1>1 DEF RecordsOf
  <2>2. Min(RecordsOf(p)) = k
    BY <1>0, <2>1, FoundOnce, ListOfRecords
  <2>3. mem_records' = Relabel(mem_records, k, c)
    BY <1>1, <2>2 DEF Relabel
  <2>4. p \in Tracked
    BY <2>1 DEF Tracked
  <2>5. /\ mem_records' \in Seq(Record) /\ Once(mem_records')
        /\ Listed(mem_records') = Listed(mem_records)
        /\ \A b : Parent(mem_records', b) = IF b = p THEN c ELSE Parent(mem_records, b)
    <3> PICK rs : rs = mem_records
      OBVIOUS
    <3>1. rs \in Seq(Record) /\ Once(rs) /\ k \in DOMAIN rs
      BY <1>0, <2>1
    <3>2. /\ Relabel(rs, k, c) \in Seq(Record) /\ Once(Relabel(rs, k, c))
          /\ Listed(Relabel(rs, k, c)) = Listed(rs)
          /\ \A b : Parent(Relabel(rs, k, c), b) = IF b = rs[k].ptr THEN c ELSE Parent(rs, b)
      BY <3>1, Relabelled
    <3> QED BY <2>1, <2>3, <3>2
  <2> QED BY <2>4, <2>5, ListOfRecords
<1>2. CASE RecordsOf(p) = {} /\ mem_records' = <<[ptr |-> p, parent |-> c]>> \o mem_records
  <2>1. p \in Blocks \ Listed(mem_records)
    BY <1>2 DEF RecordsOf, Listed
  <2>2. /\ mem_records' \in Seq(Record) /\ Once(mem_records')
        /\ Listed(mem_records') = Listed(mem_records) \cup {p}
        /\ \A b : Parent(mem_records', b) = IF b = p THEN c ELSE Parent(mem_records, b)
    <3>1. mem_records' = Push(mem_records, p, c)
      BY <1>2 DEF Push
    <3> QED BY <1>0, <2>1, <3>1, Pushed
  <2> QED BY <2>2, ListOfRecords
<1>3. CASE RecordsOf(p) = {} /\ scarce /\ UNCHANGED mem_records
  BY <1>0, <1>3 DEF RecordsOf, Tracked
<1> QED BY <1>1, <1>2, <1>3 DEF Track

-----------------------------------------------------------------------------
(* What holds between two steps, beside Sound: the running calls of        *)
(* mem_talloc_free go down one branch, and what is still to be freed is    *)
(* the block the program named and what is below it.                       *)
Branch ==
  \A i \in DOMAIN stack :
    /\ stack[i] \in mem
    /\ i < Len(stack) => ParentOf(stack[i]) = stack[i + 1]
    /\ \A j \in DOMAIN stack : i < j => stack[i] \in Held!Below(stack[j])

Doom ==
  doomed = IF stack = << >> THEN {}
           ELSE {Last(stack)} \cup Held!Below(Last(stack))

IInv == Sound /\ Branch /\ Doom /\ (down => stack = << >>)

(* A step of the records: what it is, what is recorded after it, and that  *)
(* to Ownership it is one of its steps.                                    *)
StepSound ==
  /\ mem_records' \in Seq(Record) /\ Once(mem_records')
  /\ mem' \subseteq Blocks /\ Listed(mem_records') \subseteq mem'
  /\ ~down' /\ ~scarce' => mem' = Listed(mem_records')
  /\ Held!Next \/ UNCHANGED HeldOwner

LEMMA HeldOwnerNext ==
  HeldOwner' = [b \in Blocks |-> IF b \in mem' THEN Parent(mem_records', b) ELSE Dead]
BY ListOfRecordsNext DEF HeldOwner

LEMMA AllocStep ==
  ASSUME Sound, NEW p \in Blocks, NEW c \in Blocks \cup {NULL}, Alloc(c, p)
  PROVE  StepSound
<1>0. /\ TypeOK /\ RecordsSound /\ mem \subseteq Blocks /\ Track(p, c)
      /\ p \notin mem /\ mem' = mem \cup {p} /\ c \in mem \cup {NULL}
      /\ down' = down /\ scarce' = scarce /\ ~down
  BY DEF Sound, Alloc, TypeOK, Ready
<1>1. Tracked \subseteq mem /\ (~scarce => mem = Tracked)
  BY <1>0, RecordFacts, ListOfRecords DEF RecordsSound
<1>2. Held!Live = mem /\ Held!Owners = mem \cup {NULL}
  BY <1>0, RecordFacts DEF Held!Owners
<1>3. \A b \in Blocks \ mem : HeldOwner[b] = Dead
  BY DEF HeldOwner
<1>4. CASE /\ Listed(mem_records') = Tracked \cup {p}
           /\ \A b : Parent(mem_records', b) = IF b = p THEN c ELSE ParentOf(b)
  <2>1. HeldOwner' = [HeldOwner EXCEPT ![p] = c]
    BY <1>0, <1>4, HeldOwnerNext DEF HeldOwner
  <2>2. Held!Alloc(c, p)
    BY <1>0, <1>2, <2>1 DEF Held!Alloc
  <2> QED BY <1>0, <1>1, <1>4, <2>2, TrackMeans DEF StepSound, Held!Next
<1>5. CASE scarce /\ p \notin Tracked /\ mem_records' = mem_records
  <2>1. HeldOwner' = [HeldOwner EXCEPT ![p] = NULL]
    BY <1>0, <1>5, HeldOwnerNext, RecordFacts, ListOfRecords DEF HeldOwner
  <2>2. Held!Alloc(NULL, p)
    BY <1>0, <1>2, <2>1 DEF Held!Alloc
  <2> QED BY <1>0, <1>1, <1>5, <2>2, TrackMeans, ListOfRecords DEF StepSound, Held!Next
<1> QED BY <1>0, <1>4, <1>5, TrackMeans

LEMMA StealStep ==
  ASSUME Sound, NEW p \in Blocks, NEW c \in Blocks \cup {NULL}, Steal(c, p)
  PROVE  StepSound
<1>0. /\ TypeOK /\ RecordsSound /\ mem \subseteq Blocks /\ Track(p, c)
      /\ p \in mem /\ mem' = mem /\ c \in mem \cup {NULL} /\ c # p
      /\ c \notin Records!Below(p)
      /\ down' = down /\ scarce' = scarce /\ ~down
  BY DEF Sound, Steal, TypeOK, Ready
<1>1. Tracked \subseteq mem /\ (~scarce => mem = Tracked)
  BY <1>0, RecordFacts, ListOfRecords DEF RecordsSound
<1>2. Held!Live = mem /\ Held!Owners = mem \cup {NULL}
  BY <1>0, RecordFacts DEF Held!Owners
<1>3. CASE /\ Listed(mem_records') = Tracked \cup {p}
           /\ \A b : Parent(mem_records', b) = IF b = p THEN c ELSE ParentOf(b)
  <2>1. HeldOwner' = [HeldOwner EXCEPT ![p] = c]
    BY <1>0, <1>3, HeldOwnerNext DEF HeldOwner
  <2>2. c \notin Held!Below(p)
    BY <1>0, BelowRecorded
  <2>3. Held!Steal(c, p)
    BY <1>0, <1>2, <2>1, <2>2 DEF Held!Steal
  <2> QED BY <1>0, <1>1, <1>3, <2>3, TrackMeans DEF StepSound, Held!Next
<1>4. CASE scarce /\ p \notin Tracked /\ mem_records' = mem_records
  <2>1. UNCHANGED HeldOwner
    BY <1>0, <1>4, HeldOwnerNext, ListOfRecords DEF HeldOwner
  <2> QED BY <1>0, <1>1, <1>4, <2>1, TrackMeans, ListOfRecords DEF StepSound
<1> QED BY <1>0, <1>3, <1>4, TrackMeans

LEMMA ReallocStep ==
  ASSUME Sound, NEW p \in Blocks, NEW n \in Blocks, Realloc(p, n)
  PROVE  StepSound
<1> DEFINE mv(q) == IF q = p THEN n ELSE q
           rs == [i \in DOMAIN mem_records |->
                    [ptr |-> mv(mem_records[i].ptr), parent |-> mv(mem_records[i].parent)]]
<1>0. /\ TypeOK /\ RecordsSound /\ mem \subseteq Blocks
      /\ p \in mem /\ n \notin mem \ {p} /\ mem' = (mem \ {p}) \cup {n}
      /\ down' = down /\ scarce' = scarce /\ ~down
  BY DEF Sound, Realloc, TypeOK, Ready
<1>1. /\ Tracked \subseteq mem /\ (~scarce => mem = Tracked)
      /\ mem_records \in Seq(Record) /\ Once(mem_records)
  BY <1>0, RecordFacts, ListOfRecords DEF RecordsSound
<1>2. /\ rs \in Seq(Record) /\ Once(rs) /\ Listed(rs) = {mv(q) : q \in Tracked}
      /\ \A q \in Tracked : Parent(rs, mv(q)) = mv(ParentOf(q))
  BY <1>0, <1>1, Renamed, ListOfRecords
<1>3. \/ p \in Tracked /\ mem_records' = rs
      \/ p \notin Tracked /\ mem_records' = <<[ptr |-> n, parent |-> NULL]>> \o rs
      \/ p \notin Tracked /\ scarce /\ mem_records' = rs
  BY DEF Realloc
<1>4. Held!Live = mem /\ \A b \in mem : HeldOwner[b] = ParentOf(b)
  BY <1>0, RecordFacts
<1>5. \A b \in Blocks \ mem : HeldOwner[b] = Dead
  BY DEF HeldOwner
<1>6. ParentOf(p) # p
  BY <1>0, <1>4, Held!NotOwnOwner, NamesAssumption DEF Sound, Held!IInv
<1>7. \A b : b \notin Tracked => ParentOf(b) = NULL
  BY <1>0, RecordFacts
<1> HIDE DEF rs
<1>8. Listed(rs) \subseteq mem' /\ (p \notin Tracked => n \notin Listed(rs))
  BY <1>0, <1>1, <1>2
<1>9. /\ mem_records' \in Seq(Record) /\ Once(mem_records')
      /\ Listed(mem_records') \subseteq mem' /\ (p \in Tracked => Listed(mem_records') = Listed(rs))
      /\ p \notin Tracked /\ ~scarce => Listed(mem_records') = Listed(rs) \cup {n}
      /\ \A b : Parent(mem_records', b) = IF b = n /\ p \notin Tracked THEN NULL ELSE Parent(rs, b)
  <2>1. CASE p \notin Tracked /\ mem_records' = <<[ptr |-> n, parent |-> NULL]>> \o rs
    <3>1. n \in Blocks \ Listed(rs)
      BY <1>8, <2>1
    <3>2. /\ mem_records' \in Seq(Record) /\ Once(mem_records')
          /\ Listed(mem_records') = Listed(rs) \cup {n}
          /\ \A b : Parent(mem_records', b) = IF b = n THEN NULL ELSE Parent(rs, b)
      <4>1. NULL \in Blocks \cup {NULL}
        OBVIOUS
      <4>2. mem_records' = Push(rs, n, NULL)
        BY <2>1 DEF Push
      <4> QED BY <1>2, <3>1, <4>1, <4>2, Pushed
    <3> QED BY <1>0, <1>8, <2>1, <3>2
  <2>2. CASE mem_records' = rs
    <3>1. p \notin Tracked => Parent(rs, n) = NULL
      BY <1>2, <1>8, ParentSays
    <3> QED BY <1>2, <1>3, <1>8, <2>1, <2>2, <3>1
  <2> QED BY <1>3, <2>1, <2>2
<1>10. ASSUME NEW b \in mem'
       PROVE  Parent(mem_records', b) =
                IF b = n THEN ParentOf(p) ELSE IF ParentOf(b) = p THEN n ELSE ParentOf(b)
  <2>1. CASE b = n /\ p \in Tracked
    <3>1. Parent(rs, mv(p)) = mv(ParentOf(p))
      BY <1>2, <2>1
    <3> QED BY <1>6, <1>9, <2>1, <3>1
  <2>2. CASE b = n /\ p \notin Tracked
    BY <1>7, <1>9, <2>2
  <2>3. CASE b # n /\ b \in Tracked
    <3>1. b # p
      BY <1>0, <2>3
    <3>2. Parent(rs, mv(b)) = mv(ParentOf(b))
      BY <1>2, <2>3
    <3> QED BY <1>9, <2>3, <3>1, <3>2
  <2>4. CASE b # n /\ b \notin Tracked
    <3>1. b \notin Listed(rs)
      BY <1>0, <1>2, <2>4
    <3>2. Parent(rs, b) = NULL
      BY <1>2, <3>1, ParentSays
    <3> QED BY <1>0, <1>7, <1>9, <2>4, <3>2, NamesAssumption
  <2> QED BY <2>1, <2>2, <2>3, <2>4
<1>11. HeldOwner' = [d \in Blocks |->
                       IF d = n THEN HeldOwner[p]
                       ELSE IF d = p THEN Dead
                       ELSE IF HeldOwner[d] = p THEN n
                       ELSE HeldOwner[d]]
  <2>1. ASSUME NEW d \in Blocks
        PROVE  (IF d \in mem' THEN Parent(mem_records', d) ELSE Dead) =
                 IF d = n THEN HeldOwner[p]
                 ELSE IF d = p THEN Dead
                 ELSE IF HeldOwner[d] = p THEN n
                 ELSE HeldOwner[d]
    BY <1>0, <1>4, <1>5, <1>10, NamesAssumption
  <2> QED BY <2>1, HeldOwnerNext
<1>12. Held!Realloc(p, n)
  BY <1>0, <1>4, <1>11 DEF Held!Realloc
<1>13. ~scarce => mem' = Listed(mem_records')
  BY <1>0, <1>1, <1>2, <1>9
<1> QED BY <1>0, <1>9, <1>12, <1>13 DEF StepSound, Held!Next

(* The block that a call of mem_talloc_free frees owns nothing any more.   *)
LEMMA FreeBlockStep ==
  ASSUME Sound, NEW h \in mem, ChildrenOf(h) = {}, Untrack(h), mem' = mem \ {h},
         UNCHANGED <<down, scarce>>
  PROVE  /\ StepSound
         /\ \A d \in mem : HeldOwner[d] # h
         /\ \A d \in mem \ {h} : Parent(mem_records', d) = ParentOf(d)
<1>0. TypeOK /\ RecordsSound /\ mem \subseteq Blocks
  BY DEF Sound, TypeOK
<1>1. /\ Tracked \subseteq mem /\ (~down /\ ~scarce => mem = Tracked)
      /\ mem_records \in Seq(Record) /\ Once(mem_records)
      /\ Held!Live = mem /\ \A b \in mem : HeldOwner[b] = ParentOf(b)
  BY <1>0, RecordFacts, ListOfRecords DEF RecordsSound
<1>2. /\ mem_records' \in Seq(Record) /\ Once(mem_records')
      /\ Listed(mem_records') = Tracked \ {h}
      /\ \A b : b # h => Parent(mem_records', b) = ParentOf(b)
  <2>1. CASE RecordsOf(h) = {}
    <3>1. h \notin Tracked /\ mem_records' = mem_records
      BY <2>1 DEF Untrack, RecordsOf, Tracked
    <3> QED BY <1>1, <3>1, ListOfRecords
  <2>2. CASE RecordsOf(h) # {}
    <3>1. PICK k \in DOMAIN mem_records : mem_records[k].ptr = h
      BY <2>2 DEF RecordsOf
    <3>2. Min(RecordsOf(h)) = k
      BY <1>1, <3>1, FoundOnce, ListOfRecords
    <3>3. mem_records' = RemoveAt(mem_records, k)
      BY <2>2, <3>2 DEF Untrack
    <3> QED BY <1>1, <3>1, <3>3, Unlisted, ListOfRecords
  <2> QED BY <2>1, <2>2
<1>3. ASSUME NEW d \in mem
      PROVE  HeldOwner[d] # h
  <2>1. CASE d \notin Tracked
    BY <1>0, <1>1, <2>1, RecordFacts, NamesAssumption
  <2>2. CASE d \in Tracked
    <3>1. PICK i \in DOMAIN mem_records : mem_records[i].ptr = d
      BY <2>2 DEF Tracked
    <3>2. ParentOf(d) = mem_records[i].parent
      BY <1>1, <3>1, FoundOnce, ListOfRecords
    <3> QED BY <1>1, <3>2 DEF ChildrenOf
  <2> QED BY <2>1, <2>2
<1>4. Held!Below(h) = {}
  <2>1. Held!ClosedBelow(h, {})
    BY <1>1, <1>3 DEF Held!ClosedBelow
  <2> QED BY <2>1, Held!BelowLeast, NamesAssumption
<1>5. HeldOwner' = [d \in Blocks |-> IF d \in {h} \cup Held!Below(h) THEN Dead ELSE HeldOwner[d]]
  BY <1>0, <1>2, <1>4, HeldOwnerNext DEF HeldOwner
<1>6. Held!Free(h)
  BY <1>1, <1>5 DEF Held!Free
<1>7. /\ mem' \subseteq Blocks /\ Listed(mem_records') \subseteq mem'
      /\ ~down' /\ ~scarce' => mem' = Listed(mem_records')
  BY <1>0, <1>1, <1>2
<1> QED BY <1>0, <1>1, <1>2, <1>3, <1>6, <1>7 DEF StepSound, Held!Next

LEMMA SoundStep ==
  ASSUME Sound, StepSound, stack' \in Seq(Blocks), doomed' \subseteq Blocks,
         down' \in BOOLEAN, scarce' \in BOOLEAN
  PROVE  Sound'
<1> USE NamesAssumption
<1>1. TypeOK'
  BY DEF StepSound, TypeOK, Record
<1>2. Held!IInv'
  BY Held!TypeStep, Held!OwnerStep, Held!RootStep DEF StepSound, Sound, Held!IInv
<1>3. /\ mem_records' \in Seq(Record) /\ Once(mem_records') /\ mem' \subseteq Blocks
      /\ Listed(mem_records') \subseteq mem'
  BY DEF StepSound
<1>4. Held!Live' \subseteq mem'
  BY HeldOwnerNext DEF Held!Live
<1>5. ASSUME NEW i \in DOMAIN mem_records'
      PROVE  /\ mem_records'[i].ptr \in mem'
             /\ mem_records'[i].parent \in mem' \cup {NULL}
  <2> DEFINE b == mem_records'[i].ptr
  <2>1. b \in mem' /\ mem_records'[i] \in Record
    BY <1>3, LenProperties, ElementOfSeq DEF Listed
  <2>2. HeldOwner'[b] = mem_records'[i].parent
    BY <1>3, <2>1, HeldOwnerNext, FoundOnce
  <2>3. mem_records'[i].parent # Dead
    BY <2>1 DEF Record
  <2>4. b \in Held!Live'
    BY <1>3, <2>1, <2>2, <2>3 DEF Held!Live
  <2>5. HeldOwner'[b] \in Held!Live' \cup {NULL}
    BY <1>2, <2>4 DEF Held!IInv, Held!OwnerIsLive, Held!Owners
  <2> QED BY <1>4, <2>1, <2>2, <2>5
<1>6. RecordsSound'
  <2>1. ~down' /\ ~scarce' => mem' = Tracked'
    BY ListOfRecordsNext DEF StepSound
  <2> QED BY <1>3, <1>5, <2>1 DEF RecordsSound, Once
<1> QED BY <1>1, <1>2, <1>6 DEF Sound

(* Freeing a block that owns nothing takes it alone from what is below     *)
(* another.                                                                *)
LEMMA BelowWithoutLeaf ==
  ASSUME Sound, NEW h \in mem, mem' = mem \ {h},
         \A d \in mem : HeldOwner[d] # h,
         \A d \in mem \ {h} : Parent(mem_records', d) = ParentOf(d),
         NEW r, r # h
  PROVE  Held!Below(r)' = Held!Below(r) \ {h}
<1>1. /\ TypeOK /\ RecordsSound /\ mem \subseteq Blocks /\ Held!Live = mem
      /\ \A d \in mem : HeldOwner[d] = ParentOf(d)
  BY RecordFacts DEF Sound, TypeOK
<1>2. \A d \in mem \ {h} : HeldOwner'[d] = HeldOwner[d]
  BY <1>1, HeldOwnerNext
<1>3. Held!Live' = mem \ {h}
  <2>1. \A d \in Blocks \ (mem \ {h}) : HeldOwner'[d] = Dead
    BY HeldOwnerNext
  <2> QED BY <1>1, <1>2, <2>1 DEF Held!Live
<1>4. ASSUME NEW c \in Held!Below(r), c # h, NEW S \in SUBSET Blocks, Held!ClosedBelow(r, S)'
      PROVE  c \in S
  <2>1. Held!ClosedBelow(r, S \cup {h})
    BY <1>1, <1>2, <1>3, <1>4 DEF Held!ClosedBelow
  <2> QED BY <1>1, <1>4, <2>1 DEF Held!Below
<1>5. ASSUME NEW c \in Held!Below(r)', NEW S \in SUBSET Blocks, Held!ClosedBelow(r, S)
      PROVE  c \in S
  <2>1. Held!ClosedBelow(r, S)'
    BY <1>1, <1>2, <1>3, <1>5 DEF Held!ClosedBelow
  <2> QED BY <1>5, <2>1 DEF Held!Below
<1> QED BY <1>1, <1>3, <1>4, <1>5 DEF Held!Below

-----------------------------------------------------------------------------
LEMMA ShutdownStep ==
  ASSUME IInv, Shutdown
  PROVE  IInv'
<1> USE NamesAssumption
<1>1. /\ mem_records' = << >> /\ mem' = mem /\ stack' = << >> /\ down' = TRUE
      /\ scarce' = scarce /\ doomed' = {} /\ TypeOK
  BY DEF IInv, Sound, Shutdown, Ready, Doom
<1>2. TypeOK'
  BY <1>1 DEF TypeOK
<1>3. RecordsSound'
  BY <1>1 DEF RecordsSound
<1>4. HeldOwner' = [b \in Blocks |-> IF b \in mem THEN NULL ELSE Dead]
  BY <1>1, HeldOwnerNext DEF Parent, Found
<1>5. Held!TypeOK' /\ Held!OwnerIsLive'
  BY <1>4 DEF Held!TypeOK, Held!OwnerIsLive, Held!Owners, Held!Live
<1>6. Held!AllBelowRoot'
  BY <1>4 DEF Held!AllBelowRoot, Held!Below, Held!ClosedBelow, Held!Live
<1> QED BY <1>1, <1>2, <1>3, <1>5, <1>6 DEF IInv, Sound, Held!IInv, Branch, Doom

(* A call that starts and ends with no mem_talloc_free running. *)
LEMMA ReadyStep ==
  ASSUME IInv, StepSound, Ready, UNCHANGED <<stack, down, scarce, doomed>>
  PROVE  IInv'
<1>1. stack' = << >> /\ doomed' = {} /\ TypeOK
  BY DEF IInv, Sound, Ready, Doom
<1>2. Sound'
  BY <1>1, SoundStep DEF IInv, TypeOK
<1> QED BY <1>1, <1>2 DEF IInv, Branch, Doom

LEMMA CallFreeStep ==
  ASSUME IInv, NEW p \in Blocks, CallFree(p)
  PROVE  IInv'
<1>1. /\ TypeOK /\ RecordsSound /\ p \in mem /\ stack' = <<p>> /\ ~down
      /\ doomed' = {p} \cup Held!Below(p)
      /\ UNCHANGED <<mem_records, mem, down, scarce>>
  BY BelowRecorded DEF IInv, Sound, CallFree, Ready
<1>2. UNCHANGED HeldOwner /\ Held!Below(p)' = Held!Below(p)
  BY <1>1 DEF HeldOwner, ParentOf, RecordsOf, Held!Below, Held!ClosedBelow, Held!Live
<1>3. StepSound
  BY <1>1, <1>2, RecordFacts, ListOfRecords DEF StepSound, TypeOK, RecordsSound
<1>4. Sound'
  BY <1>1, <1>3, SoundStep DEF IInv, TypeOK, Held!Below, Held!Live
<1>5. DOMAIN stack' = {1} /\ Len(stack') = 1 /\ stack'[1] = p /\ stack' # << >>
  BY <1>1
<1>6. Branch'
  BY <1>1, <1>5 DEF Branch
<1>7. Doom'
  BY <1>1, <1>2, <1>5 DEF Doom, Last
<1> QED BY <1>1, <1>4, <1>6, <1>7 DEF IInv

LEMMA FreeChildStep ==
  ASSUME IInv, FreeChild
  PROVE  IInv' /\ UNCHANGED HeldOwner
<1> DEFINE h == Head(stack)
           k == Min(ChildrenOf(h))
           c == mem_records[k].ptr
<1>1. /\ Sound /\ TypeOK /\ RecordsSound /\ Branch /\ Doom /\ ~down
      /\ mem_records \in Seq(Record) /\ Once(mem_records)
      /\ stack \in Seq(Blocks) /\ stack # << >>
      /\ stack' = <<c>> \o stack
      /\ UNCHANGED <<mem_records, mem, down, scarce, doomed>>
  BY RecordFacts DEF IInv, Sound, FreeChild, TypeOK
<1>2. /\ Len(stack) \in Nat \ {0} /\ DOMAIN stack = 1 .. Len(stack) /\ h = stack[1]
      /\ h \in mem /\ mem \subseteq Blocks
  <2>1. Len(stack) \in Nat \ {0} /\ DOMAIN stack = 1 .. Len(stack)
    BY <1>1, LenProperties, EmptySeq
  <2>2. h = stack[1]
    BY <1>1
  <2> QED BY <1>1, <2>1, <2>2 DEF Branch, TypeOK
<1>3. k \in DOMAIN mem_records /\ mem_records[k].parent = h
  <2>1. ChildrenOf(h) \in SUBSET Nat /\ ChildrenOf(h) # {}
    BY <1>1, LenProperties DEF ChildrenOf, FreeChild
  <2>2. k \in ChildrenOf(h)
    BY <2>1, MinIsLeast
  <2> QED BY <2>2 DEF ChildrenOf
<1> HIDE DEF k, h
<1>4. c \in mem /\ ParentOf(c) = h
  BY <1>1, <1>3, FoundOnce, ListOfRecords DEF RecordsSound
<1>5. Held!Live = mem /\ HeldOwner[c] = h
  BY <1>1, <1>4, RecordFacts
<1> HIDE DEF c
<1>6. UNCHANGED HeldOwner /\ \A r : Held!Below(r)' = Held!Below(r) /\ \A b : ParentOf(b)' = ParentOf(b)
  BY <1>1 DEF HeldOwner, ParentOf, RecordsOf, Held!Below, Held!ClosedBelow, Held!Live
<1>7. /\ stack' \in Seq(Blocks) /\ Len(stack') = Len(stack) + 1
      /\ stack'[1] = c /\ \A i \in DOMAIN stack : stack'[i + 1] = stack[i]
  BY <1>1, <1>2, <1>4, PushProperties
<1>8. DOMAIN stack' = 1 .. Len(stack) + 1 /\ stack' # << >>
  BY <1>2, <1>7, LenProperties, EmptySeq
<1>9. Sound'
  <2>1. StepSound
    BY <1>1, <1>2, <1>6, RecordFacts, ListOfRecords DEF StepSound, RecordsSound
  <2> QED BY <1>1, <1>7, <2>1, SoundStep DEF TypeOK
<1>10. \A j \in DOMAIN stack : c \in Held!Below(stack[j])
  <2>1. ASSUME NEW j \in DOMAIN stack
        PROVE  h \in Held!Below(stack[j]) \cup {stack[j]}
    <3>1. CASE j = 1
      BY <1>2, <3>1
    <3>2. CASE j # 1
      <4>1. 1 \in DOMAIN stack /\ 1 < j
        BY <1>2, <3>2
      <4> QED BY <1>1, <1>2, <4>1 DEF Branch
    <3> QED BY <3>1, <3>2
  <2>2. ASSUME NEW r, h \in Held!Below(r) \cup {r}
        PROVE  c \in Held!Below(r)
    <3>1. Held!ClosedBelow(r, Held!Below(r))
      BY Held!BelowClosed, NamesAssumption
    <3> QED BY <1>4, <1>5, <2>2, <3>1 DEF Held!ClosedBelow
  <2> QED BY <2>1, <2>2
<1>11. Branch'
  <2> SUFFICES ASSUME NEW i \in DOMAIN stack'
               PROVE  /\ stack'[i] \in mem
                      /\ i < Len(stack') => ParentOf(stack'[i]) = stack'[i + 1]
                      /\ \A j \in DOMAIN stack' :
                           i < j => stack'[i] \in Held!Below(stack'[j])
    BY <1>1, <1>6 DEF Branch
  <2>0. /\ \A j \in DOMAIN stack' : j # 1 => j - 1 \in DOMAIN stack /\ stack'[j] = stack[j - 1]
        /\ i \in Nat
    BY <1>2, <1>7, <1>8
  <2>1. CASE i = 1
    <3>1. stack'[1] = c /\ stack'[2] = h
      <4>1. 1 \in DOMAIN stack /\ stack[1] = h
        BY <1>2
      <4> QED BY <1>7, <4>1
    <3>2. ASSUME NEW j \in DOMAIN stack', 1 < j
          PROVE  c \in Held!Below(stack'[j])
      BY <1>10, <2>0, <3>2
    <3> QED BY <1>4, <2>1, <3>1, <3>2
  <2>2. CASE i # 1
    <3> DEFINE m == i - 1
    <3>1. m \in DOMAIN stack /\ stack'[i] = stack[m] /\ m + 1 = i
      BY <2>0, <2>2
    <3>2. i < Len(stack') => m < Len(stack) /\ i \in DOMAIN stack /\ stack'[i + 1] = stack[i]
      BY <1>2, <1>7, <2>0, <3>1
    <3> HIDE DEF m
    <3>3. /\ stack[m] \in mem
          /\ m < Len(stack) => ParentOf(stack[m]) = stack[m + 1]
      BY <1>1, <3>1 DEF Branch
    <3>4. ASSUME NEW j \in DOMAIN stack', i < j
          PROVE  stack'[i] \in Held!Below(stack'[j])
      <4>1. j - 1 \in DOMAIN stack /\ stack'[j] = stack[j - 1] /\ m < j - 1
        BY <1>8, <2>0, <2>2, <3>1, <3>4
      <4> QED BY <1>1, <3>1, <4>1 DEF Branch
    <3> QED BY <3>1, <3>2, <3>3, <3>4
  <2> QED BY <2>1, <2>2
<1>12. Doom'
  <2>1. Last(stack)' = Last(stack)
    BY <1>2, <1>7 DEF Last
  <2> QED BY <1>1, <1>6, <1>8, <2>1 DEF Doom
<1> QED BY <1>1, <1>6, <1>9, <1>11, <1>12 DEF IInv

LEMMA FreeBlockKeeps ==
  ASSUME IInv, FreeBlock
  PROVE  IInv'
<1> DEFINE h == Head(stack)
<1>1. /\ Sound /\ TypeOK /\ RecordsSound /\ Branch /\ Doom /\ ~down
      /\ stack \in Seq(Blocks) /\ stack # << >> /\ ChildrenOf(h) = {} /\ Untrack(h)
      /\ stack' = Tail(stack) /\ mem' = mem \ {h} /\ doomed' = doomed \ {h}
      /\ UNCHANGED <<down, scarce>>
  BY DEF IInv, Sound, FreeBlock, TypeOK
<1>2. /\ Len(stack) \in Nat \ {0} /\ DOMAIN stack = 1 .. Len(stack) /\ h = stack[1]
      /\ h \in mem /\ mem \subseteq Blocks
  <2>1. Len(stack) \in Nat \ {0} /\ DOMAIN stack = 1 .. Len(stack)
    BY <1>1, LenProperties, EmptySeq
  <2>2. h = stack[1]
    BY <1>1
  <2> QED BY <1>1, <2>1, <2>2 DEF Branch, TypeOK
<1> HIDE DEF h
<1>3. /\ StepSound
      /\ \A d \in mem : HeldOwner[d] # h
      /\ \A d \in mem \ {h} : Parent(mem_records', d) = ParentOf(d)
  BY <1>1, <1>2, FreeBlockStep
<1>4. \A r : r # h => Held!Below(r)' = Held!Below(r) \ {h}
  BY <1>1, <1>2, <1>3, BelowWithoutLeaf
<1>5. /\ stack' \in Seq(Blocks) /\ Len(stack') = Len(stack) - 1
      /\ DOMAIN stack' = 1 .. Len(stack) - 1
      /\ \A i \in DOMAIN stack' : stack'[i] = stack[i + 1]
  BY <1>1, <1>2, HeadTailProperties, LenProperties
<1>6. Sound'
  BY <1>1, <1>3, <1>5, SoundStep DEF TypeOK
<1>7. Held!NoCycle
  BY <1>1, Held!BelowRootNoCycle, NamesAssumption DEF Sound, Held!IInv
<1>8. \A i \in DOMAIN stack : i # 1 => stack[i] # h
  BY <1>1, <1>2, <1>7, RecordFacts DEF Branch, Held!NoCycle
<1>9. Branch'
  <2> SUFFICES ASSUME NEW i \in DOMAIN stack'
               PROVE  /\ stack'[i] \in mem'
                      /\ i < Len(stack') => ParentOf(stack[i])' = stack'[i + 1]
                      /\ \A j \in DOMAIN stack' :
                           i < j => stack'[i] \in Held!Below(stack[j])'
    BY DEF Branch
  <2>1. \A j \in DOMAIN stack' : /\ j + 1 \in DOMAIN stack /\ stack'[j] = stack[j + 1]
                                 /\ stack[j + 1] # h
    BY <1>2, <1>5, <1>8
  <2>2. stack'[i] \in mem \ {h}
    BY <1>1, <2>1 DEF Branch
  <2>3. i < Len(stack') => ParentOf(stack[i])' = stack'[i + 1]
    <3>1. i < Len(stack') => ParentOf(stack[i + 1]) = stack[i + 2]
      BY <1>1, <1>2, <1>5, <2>1 DEF Branch
    <3>2. i < Len(stack') => i + 1 \in DOMAIN stack' /\ stack'[i + 1] = stack[i + 2]
      BY <1>2, <1>5
    <3> QED BY <1>3, <2>1, <2>2, <3>1, <3>2, ListOfRecordsNext
  <2>4. ASSUME NEW j \in DOMAIN stack', i < j
        PROVE  stack'[i] \in Held!Below(stack[j])'
    <3>1. stack'[i] \in Held!Below(stack'[j])
      BY <1>1, <1>2, <1>5, <2>1, <2>4 DEF Branch
    <3> QED BY <1>4, <2>1, <2>2, <3>1
  <2> QED BY <1>1, <2>2, <2>3, <2>4
<1>10. Doom'
  <2>1. CASE Len(stack) = 1
    <3>1. Held!Below(h) = {}
      <4>1. Held!ClosedBelow(h, {})
        BY <1>1, <1>3, RecordFacts DEF Held!ClosedBelow
      <4> QED BY <4>1, Held!BelowLeast, NamesAssumption
    <3>2. stack' = << >> /\ Last(stack) = h
      BY <1>2, <1>5, <2>1, EmptySeq DEF Last
    <3> QED BY <1>1, <3>1, <3>2 DEF Doom
  <2>2. CASE Len(stack) # 1
    <3>1. stack' # << >> /\ Last(stack') = Last(stack) /\ Last(stack) # h
      BY <1>2, <1>5, <1>8, <2>2, EmptySeq DEF Last
    <3> QED BY <1>1, <1>4, <3>1 DEF Doom, Last
  <2> QED BY <2>1, <2>2
<1> QED BY <1>1, <1>6, <1>9, <1>10 DEF IInv

LEMMA InitIInv == Init => IInv
<1> SUFFICES ASSUME Init
             PROVE  IInv
  OBVIOUS
<1> USE NamesAssumption DEF Init
<1>1. HeldOwner = [b \in Blocks |-> Dead]
  BY DEF HeldOwner
<1>2. Held!IInv
  BY <1>1 DEF Held!IInv, Held!TypeOK, Held!OwnerIsLive, Held!AllBelowRoot, Held!Live
<1>3. TypeOK
  <2>1. mem_records \in Seq([ptr : Blocks, parent : Blocks \cup {NULL}]) /\ stack \in Seq(Blocks)
    BY EmptySeq
  <2>2. down \in BOOLEAN /\ scarce \in BOOLEAN /\ mem \subseteq Blocks /\ doomed \subseteq Blocks
    OBVIOUS
  <2> QED BY <2>1, <2>2 DEF TypeOK
<1>4. RecordsSound
  <2>1. DOMAIN mem_records = {}
    OBVIOUS
  <2> QED BY <2>1 DEF RecordsSound, Tracked
<1> QED BY <1>2, <1>3, <1>4 DEF IInv, Sound, Branch, Doom

LEMMA StepIInv == IInv /\ [Next]_vars => IInv'
<1> SUFFICES ASSUME IInv, [Next]_vars
             PROVE  IInv'
  OBVIOUS
<1>1. CASE UNCHANGED vars
  <2>1. UNCHANGED HeldOwner
    BY <1>1 DEF vars, HeldOwner, ParentOf, RecordsOf
  <2>2. /\ TypeOK' /\ RecordsSound'
    BY <1>1 DEF vars, IInv, Sound, TypeOK, RecordsSound, Tracked
  <2>3. Held!IInv'
    BY <2>1 DEF IInv, Sound, Held!IInv, Held!TypeOK, Held!OwnerIsLive, Held!Owners,
                Held!AllBelowRoot, Held!Below, Held!ClosedBelow, Held!Live
  <2>4. \A r : ParentOf(r)' = ParentOf(r) /\ Held!Below(r)' = Held!Below(r)
    BY <1>1, <2>1 DEF vars, ParentOf, RecordsOf, Held!Below, Held!ClosedBelow, Held!Live
  <2>5. Branch' /\ Doom'
    BY <1>1, <2>4 DEF vars, IInv, Branch, Doom, Last
  <2> QED BY <1>1, <2>2, <2>3, <2>5 DEF vars, IInv, Sound
<1>2. CASE FreeChild
  BY <1>2, FreeChildStep
<1>3. CASE FreeBlock
  BY <1>3, FreeBlockKeeps
<1>4. CASE Shutdown
  BY <1>4, ShutdownStep
<1>5. ASSUME NEW p \in Blocks, CallFree(p)
      PROVE  IInv'
  BY <1>5, CallFreeStep
<1>6. ASSUME NEW p \in Blocks, NEW c \in Blocks \cup {NULL}, Alloc(c, p)
      PROVE  IInv'
  BY <1>6, AllocStep, ReadyStep DEF IInv, Alloc
<1>7. ASSUME NEW p \in Blocks, NEW c \in Blocks \cup {NULL}, Steal(c, p)
      PROVE  IInv'
  BY <1>7, StealStep, ReadyStep DEF IInv, Steal
<1>8. ASSUME NEW p \in Blocks, NEW n \in Blocks, Realloc(p, n)
      PROVE  IInv'
  BY <1>8, ReallocStep, ReadyStep DEF IInv, Realloc
<1> QED BY <1>1, <1>2, <1>3, <1>4, <1>5, <1>6, <1>7, <1>8 DEF Next

(* Records are right, running calls are on one branch, and what a call of  *)
(* mem_talloc_free has yet to free is below its block.                     *)
THEOREM Inductive == Spec => []IInv
BY InitIInv, StepIInv, PTL DEF Spec

-----------------------------------------------------------------------------
(* The list, the blocks and the running calls are what the C declares them *)
(* to be, in every execution of src/src/mem/talloc.c without talloc.       *)
THEOREM TypeCorrect == Spec => []TypeOK
<1>1. IInv => TypeOK
  BY DEF IInv, Sound
<1> QED BY <1>1, Inductive, PTL

(* One record per block at most, and records name only blocks that exist,  *)
(* also after a record could not be allocated (mem_track gives up).        *)
THEOREM RecordsAreSound == Spec => []RecordsSound
<1>1. IInv => RecordsSound
  BY DEF IInv, Sound
<1> QED BY <1>1, Inductive, PTL

(* mem_talloc_free goes down one branch of existing blocks, never meets a  *)
(* block twice, and returns with everything freed that its block owned.    *)
THEOREM FreesExactlyBelow == Spec => []FreesExactly
<1>1. IInv => FreesExactly
  <2> SUFFICES ASSUME IInv
               PROVE  FreesExactly
    OBVIOUS
  <2>1. Sound /\ TypeOK /\ RecordsSound /\ Branch /\ Doom
    BY DEF IInv, Sound
  <2>2. Held!NoCycle /\ Held!Live = mem
    BY <2>1, Held!BelowRootNoCycle, NamesAssumption, RecordFacts DEF Sound, Held!IInv
  <2>3. DOMAIN stack \subseteq Nat
    BY <2>1, LenProperties DEF TypeOK
  <2>4. ASSUME NEW i \in DOMAIN stack, NEW j \in DOMAIN stack, stack[i] = stack[j], i # j
        PROVE  FALSE
    <3>1. i < j \/ j < i
      BY <2>3, <2>4
    <3>2. stack[i] \in Held!Below(stack[i])
      BY <2>1, <2>4, <3>1 DEF Branch
    <3> QED BY <2>1, <2>2, <3>2 DEF Branch, Held!NoCycle
  <2> QED BY <2>1, <2>4 DEF FreesExactly, Branch, Doom
<1> QED BY <1>1, Inductive, PTL

-----------------------------------------------------------------------------
(***************************************************************************)
(* The refinement.  While every block has its record, what the records     *)
(* promise is HeldOwner without the blocks that are doomed, so a call of   *)
(* the program that is no free is the step of Ownership that it was above; *)
(* mem_talloc_free takes its step when it is called, and the turns of its  *)
(* loop change nothing that is promised.                                   *)
(***************************************************************************)
LEMMA PromisedNext ==
  Promised' = [b \in Blocks |->
                 IF b \in doomed' \/ scarce' \/ b \notin Listed(mem_records')
                   THEN Dead ELSE Parent(mem_records', b)]
<1>1. \A b : b \notin Listed(mem_records') <=> RecordsOf(b)' = {}
  BY DEF Listed, RecordsOf
<1>2. RecordedOwner' = [b \in Blocks |-> IF b \notin Listed(mem_records') THEN Dead
                                       ELSE Parent(mem_records', b)]
  BY <1>1, ListOfRecordsNext DEF RecordedOwner
<1> QED BY <1>2 DEF Promised

LEMMA PromisedHeld ==
  ASSUME Sound, ~scarce, ~down, doomed = {}
  PROVE  Promised = HeldOwner /\ RecordedOwner = HeldOwner
<1>1. mem = Tracked /\ \A b : ParentOf(b) # Dead
  BY RecordFacts, NamesAssumption DEF Sound, RecordsSound, TypeOK
<1>2. \A b : b \in Tracked <=> RecordsOf(b) # {}
  BY DEF Tracked, RecordsOf
<1>3. RecordedOwner = HeldOwner
  BY <1>1, <1>2 DEF RecordedOwner, HeldOwner
<1>4. Promised = [b \in Blocks |-> RecordedOwner[b]]
  BY DEF Promised
<1> QED BY <1>3, <1>4 DEF HeldOwner

(* Ownership does not tell apart two owner functions that are equal. *)
LEMMA SameOwner ==
  ASSUME Promised = HeldOwner, Promised' = HeldOwner', Held!Next
  PROVE  Promise!Next
<1>1. Promise!Live = Held!Live /\ Promise!Owners = Held!Owners
  BY DEF Promise!Live, Held!Live, Promise!Owners, Held!Owners
<1>2. \A r : Promise!Below(r) = Held!Below(r)
  BY <1>1 DEF Promise!Below, Held!Below, Promise!ClosedBelow, Held!ClosedBelow
<1>3. ASSUME NEW b, NEW c, Held!Alloc(c, b)
      PROVE  Promise!Alloc(c, b)
  BY <1>1, <1>3 DEF Promise!Alloc, Held!Alloc
<1>4. ASSUME NEW b, NEW c, Held!Steal(c, b)
      PROVE  Promise!Steal(c, b)
  BY <1>1, <1>2, <1>4 DEF Promise!Steal, Held!Steal
<1>5. ASSUME NEW b, NEW n, Held!Realloc(b, n)
      PROVE  Promise!Realloc(b, n)
  BY <1>1, <1>5 DEF Promise!Realloc, Held!Realloc
<1>6. ASSUME NEW b, Held!Free(b)
      PROVE  Promise!Free(b)
  BY <1>1, <1>2, <1>6 DEF Promise!Free, Held!Free
<1>7. Held!Shutdown => Promise!Shutdown
  BY <1>2 DEF Promise!Shutdown, Held!Shutdown
<1> QED BY <1>3, <1>4, <1>5, <1>6, <1>7 DEF Promise!Next, Held!Next

(* A call that is one step of the program. *)
LEMMA PromiseReady ==
  ASSUME IInv, IInv', ~scarce, StepSound, Ready, UNCHANGED <<stack, down, scarce, doomed>>
  PROVE  [Promise!Next]_Promised
<1>1. ~down /\ doomed = {} /\ ~down' /\ doomed' = {} /\ ~scarce' /\ mem' = Listed(mem_records')
  BY DEF Ready, IInv, Doom, StepSound
<1>2. Promised = HeldOwner
  BY <1>1, PromisedHeld DEF IInv
<1>3. Promised' = HeldOwner'
  BY <1>1, PromisedNext, HeldOwnerNext
<1> QED BY <1>2, <1>3, SameOwner DEF StepSound

LEMMA PromiseCallFree ==
  ASSUME IInv, ~scarce, NEW p \in Blocks, CallFree(p)
  PROVE  Promise!Free(p)
<1>1. /\ Sound /\ ~down /\ doomed = {} /\ p \in mem /\ ~scarce'
      /\ doomed' = {p} \cup Records!Below(p) /\ mem_records' = mem_records
  BY DEF IInv, Doom, Ready, CallFree
<1>2. Promised = HeldOwner /\ RecordedOwner = HeldOwner
  BY <1>1, PromisedHeld
<1>3. Promise!Live = mem
  BY <1>1, <1>2, RecordFacts DEF Sound, Promise!Live, Held!Live
<1>4. Promise!Below(p) = Records!Below(p)
  BY <1>2 DEF Promise!Below, Promise!ClosedBelow, Promise!Live,
              Records!Below, Records!ClosedBelow, Records!Live
<1>5. RecordedOwner' = RecordedOwner
  BY <1>1 DEF RecordedOwner, RecordsOf, ParentOf
<1>6. Promised' = [b \in Blocks |-> IF b \in doomed' THEN Dead ELSE RecordedOwner[b]]
  BY <1>1, <1>5 DEF Promised
<1>7. Promised' = [b \in Blocks |->
                     IF b \in {p} \cup Promise!Below(p) THEN Dead ELSE Promised[b]]
  BY <1>1, <1>2, <1>4, <1>6
<1> QED BY <1>1, <1>3, <1>7 DEF Promise!Free

LEMMA PromiseShutdown ==
  ASSUME IInv, ~scarce, Shutdown
  PROVE  Promise!Shutdown
<1>1. Sound /\ ~down /\ doomed = {} /\ mem_records' = << >>
  BY DEF IInv, Doom, Ready, Shutdown
<1>2. Promised = HeldOwner
  BY <1>1, PromisedHeld
<1>3. Promise!Live \subseteq Promise!Below(NULL)
  BY <1>1, <1>2 DEF Sound, Held!IInv, Held!AllBelowRoot, Held!Below, Held!ClosedBelow,
                    Held!Live, Promise!Below, Promise!ClosedBelow, Promise!Live
<1>4. Promised' = [b \in Blocks |-> Dead]
  BY <1>1, PromisedNext DEF Listed
<1>5. \A b \in Blocks : b \notin Promise!Live => Promised[b] = Dead
  BY DEF Promise!Live
<1> QED BY <1>3, <1>4, <1>5 DEF Promise!Shutdown

(* A block freed by the loop was promised dead when the call began. *)
LEMMA PromiseFreeBlock ==
  ASSUME IInv, ~scarce, FreeBlock
  PROVE  UNCHANGED Promised
<1> DEFINE h == Head(stack)
<1>1. /\ Sound /\ Branch /\ Doom /\ stack \in Seq(Blocks) /\ stack # << >>
      /\ ChildrenOf(h) = {} /\ Untrack(h)
      /\ mem' = mem \ {h} /\ doomed' = doomed \ {h} /\ ~scarce' /\ UNCHANGED <<down, scarce>>
      /\ ~down
  BY DEF IInv, Sound, TypeOK, FreeBlock
<1>2. Len(stack) \in Nat \ {0} /\ DOMAIN stack = 1 .. Len(stack) /\ h = stack[1]
  BY <1>1, LenProperties, EmptySeq
<1> HIDE DEF h
<1>3. h \in doomed /\ h \in mem
  <2>1. CASE Len(stack) = 1
    BY <1>1, <1>2, <2>1 DEF Doom, Last, Branch
  <2>2. CASE Len(stack) # 1
    <3>1. 1 \in DOMAIN stack /\ Len(stack) \in DOMAIN stack /\ 1 < Len(stack)
      BY <1>2, <2>2
    <3> QED BY <1>1, <1>2, <3>1 DEF Doom, Last, Branch
  <2> QED BY <2>1, <2>2
<1>4. /\ StepSound
      /\ \A d \in mem \ {h} : Parent(mem_records', d) = ParentOf(d)
  BY <1>1, <1>3, FreeBlockStep
<1>5. Listed(mem_records') = mem \ {h} /\ Tracked = mem
  BY <1>1, <1>4 DEF StepSound, Sound, RecordsSound
<1>6. ASSUME NEW b \in Blocks
      PROVE  (IF b \in doomed' \/ scarce' \/ b \notin Listed(mem_records')
                THEN Dead ELSE Parent(mem_records', b)) = Promised[b]
  <2>1. b \in Tracked <=> RecordsOf(b) # {}
    BY DEF Tracked, RecordsOf
  <2>2. Promised[b] = IF b \in doomed \/ b \notin Tracked THEN Dead ELSE ParentOf(b)
    BY <2>1 DEF Promised, RecordedOwner
  <2> QED BY <1>1, <1>3, <1>4, <1>5, <2>2
<1>7. Promised' = [b \in Blocks |-> Promised[b]]
  BY <1>6, PromisedNext
<1> QED BY <1>7 DEF Promised

(* Of an execution in which records may be missing nothing is promised. *)
LEMMA PromiseScarce ==
  ASSUME scarce, UNCHANGED scarce
  PROVE  UNCHANGED Promised
BY DEF Promised

LEMMA PromiseStep == IInv /\ IInv' /\ [Next]_vars => [Promise!Next]_Promised
<1> SUFFICES ASSUME IInv, IInv', [Next]_vars
             PROVE  [Promise!Next]_Promised
  OBVIOUS
<1>0. UNCHANGED scarce
  BY DEF Next, vars, FreeChild, FreeBlock, Shutdown, CallFree, Alloc, Steal, Realloc
<1>1. CASE scarce
  BY <1>0, <1>1, PromiseScarce
<1>2. CASE ~scarce
  <2>1. CASE UNCHANGED vars
    BY <2>1 DEF vars, Promised, RecordedOwner, RecordsOf, ParentOf
  <2>2. CASE FreeChild
    BY <2>2 DEF FreeChild, Promised, RecordedOwner, RecordsOf, ParentOf
  <2>3. CASE FreeBlock
    BY <1>2, <2>3, PromiseFreeBlock
  <2>4. CASE Shutdown
    BY <1>2, <2>4, PromiseShutdown DEF Promise!Next
  <2>5. ASSUME NEW p \in Blocks, CallFree(p)
        PROVE  [Promise!Next]_Promised
    BY <1>2, <2>5, PromiseCallFree DEF Promise!Next
  <2>6. ASSUME NEW p \in Blocks, NEW c \in Blocks \cup {NULL}, Alloc(c, p)
        PROVE  [Promise!Next]_Promised
    BY <1>2, <2>6, AllocStep, PromiseReady DEF IInv, Alloc
  <2>7. ASSUME NEW p \in Blocks, NEW c \in Blocks \cup {NULL}, Steal(c, p)
        PROVE  [Promise!Next]_Promised
    BY <1>2, <2>7, StealStep, PromiseReady DEF IInv, Steal
  <2>8. ASSUME NEW p \in Blocks, NEW n \in Blocks, Realloc(p, n)
        PROVE  [Promise!Next]_Promised
    BY <1>2, <2>8, ReallocStep, PromiseReady DEF IInv, Realloc
  <2> QED BY <2>1, <2>2, <2>3, <2>4, <2>5, <2>6, <2>7, <2>8 DEF Next
<1> QED BY <1>1, <1>2

(* The record list of the Windows branch keeps the promise of the talloc   *)
(* branch: every call of talloc.c is a step of Ownership, mem_talloc_free  *)
(* being one that takes the block and exactly what is below it.            *)
THEOREM RecordsImplementOwnership == Spec => ImplementsOwnership
<1>1. Init => Promise!Init
  <2> SUFFICES ASSUME Init
               PROVE  Promised = [b \in Blocks |-> Dead]
    BY DEF Promise!Init
  <2>1. \A b : RecordsOf(b) = {}
    <3>1. DOMAIN mem_records = {}
      BY DEF Init
    <3> QED BY <3>1 DEF RecordsOf
  <2> QED BY <2>1 DEF Promised, RecordedOwner
<1>2. IInv /\ IInv' /\ [Next]_vars => [Promise!Next]_Promised
  BY PromiseStep
<1> QED BY <1>1, <1>2, Inductive, PTL DEF Spec, ImplementsOwnership, Promise!Spec
=============================================================================
