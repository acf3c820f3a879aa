--------------------------- MODULE ComeMap_proofs ---------------------------
(***************************************************************************)
(* The hash table of map.c, of any capacity, with any keys and hashes.     *)
(* Also when allocations fail, every entry is where a probe for its key    *)
(* finds it, through growth and removal, but in the tables that a removal  *)
(* left in the middle for a grown one.  While growth succeeds every probe  *)
(* meets a free slot, and the table is the dictionary MapStore promises.   *)
(***************************************************************************)
EXTENDS ComeMap, FiniteSetTheorems, SequenceTheorems, WellFoundedInduction, TLAPS

(* How far slot s is along the probe that starts at hash h, in n slots.    *)
Dist(n, h, s) == IF s >= h % n THEN s - (h % n) ELSE n + s - (h % n)

(* The tables whose count is right.                                        *)
Tables ==
  {t \in UNION {TableOf(n) : n \in 1 .. MaxSize} :
     t.count = Cardinality(Occupied(t))}

(* How far a probe for key k goes before it is at slot s.                  *)
Far(t, k, s) == Dist(t.size, Hash[k], s)

(* A probe for key k ends at slot s.                                       *)
EndsAt(t, k, s) ==
  /\ s \in Slots(t)
  /\ t.slot[s] = NoEntry \/ t.slot[s].key = k
  /\ \A u \in Slots(t) :
       Far(t, k, u) < Far(t, k, s) => t.slot[u] # NoEntry /\ t.slot[u].key # k

Unique(t) ==
  \A s, u \in Occupied(t) : t.slot[s].key = t.slot[u].key => s = u

(* The slots before s in the probe for its key are taken. *)
OnChain(t, s) ==
  \A u \in Slots(t) :
    Far(t, t.slot[s].key, u) < Far(t, t.slot[s].key, s) => t.slot[u] # NoEntry

(* The run of occupied slots that begins at x.                             *)
Run(t, x) ==
  {s \in Slots(t) :
     \A u \in Slots(t) : Dist(t.size, x, u) <= Dist(t.size, x, s) => t.slot[u] # NoEntry}

(* Every entry is on its chain, or in the part of the run at x that        *)
(* come_map_remove has yet to put back.                                    *)
Chained(t, S) == \A s \in Occupied(t) : OnChain(t, s) \/ s \in S

-----------------------------------------------------------------------------
(* Probing. *)

(* A set of numbers that is not empty has a least element. *)
LEMMA MinIsLeast ==
  ASSUME NEW S \in SUBSET Nat, S # {}
  PROVE  Min(S) \in S /\ \A x \in S : Min(S) <= x
<1> DEFINE R == {ss \in Nat \X Nat : ss[1] < ss[2]}
<1>1. IsWellFoundedOn(R, Nat)
  <2>1. OpToRel(<, Nat) = R
    BY Zenon DEF OpToRel
  <2> QED BY <2>1, NatLessThanWellFounded, Zenon
<1> HIDE DEF R
<1>2. PICK x \in S : \A y \in S : ~ (<<y, x>> \in R)
  BY <1>1, WFMin
<1>3. ASSUME NEW y \in S, y < x
      PROVE  FALSE
  <2>1. <<y, x>> \in Nat \X Nat /\ <<y, x>>[1] < <<y, x>>[2]
    BY <1>3
  <2>2. <<y, x>> \in R
    BY <2>1, Zenon DEF R
  <2> QED BY <1>2, <2>2
<1>4. \A y \in S : x <= y
  BY <1>3
<1> QED BY <1>4 DEF Min

LEMMA ModRange ==
  ASSUME NEW n \in Nat \ {0}, NEW h \in Nat
  PROVE  h % n \in 0 .. n - 1
OBVIOUS

LEMMA ModDiv ==
  ASSUME NEW n \in Nat \ {0}, NEW h \in Nat
  PROVE  \E q \in Nat : h = q * n + (h % n)
<1>1. h = (h \div n) * n + (h % n)
  OBVIOUS
<1>2. h \div n \in Nat
  OBVIOUS
<1> QED BY <1>1, <1>2

(* One step round the table at most brings a probe from its home to any    *)
(* slot.                                                                   *)
LEMMA ModSum ==
  ASSUME NEW n \in Nat \ {0}, NEW h \in Nat, NEW d \in 0 .. n - 1
  PROVE  (h + d) % n = IF (h % n) + d < n THEN (h % n) + d ELSE (h % n) + d - n
<1>1. PICK q \in Nat : h = q * n + (h % n)
  BY ModDiv
<1>2. PICK r \in 0 .. n - 1 : r = h % n
  BY ModRange
<1>3. h = q * n + r
  BY <1>1, <1>2
<1>4. CASE r + d < n
  <2>1. r + d \in 0 .. n - 1 /\ h + d = q * n + (r + d) /\ h + d \in Nat
    BY <1>3, <1>4
  <2>2. PICK x \in Nat : x = h + d
    BY <2>1
  <2>3. PICK y \in 0 .. n - 1 : y = r + d
    BY <2>1
  <2>4. x = q * n + y
    BY <2>1, <2>2, <2>3
  <2>5. x % n = y
    BY <2>4
  <2>6. (h + d) % n = r + d
    BY <2>2, <2>3, <2>5, Zenon
  <2> QED BY <1>2, <1>4, <2>6
<1>5. CASE ~(r + d < n)
  <2>1. r + d - n \in 0 .. n - 1
    BY <1>5
  <2>2. (q + 1) * n = q * n + n
    OBVIOUS
  <2>3. h + d = (q + 1) * n + (r + d - n) /\ h + d \in Nat /\ q + 1 \in Nat
    BY <1>3, <1>5, <2>2
  <2>4. PICK x \in Nat : x = h + d
    BY <2>3
  <2>5. PICK y \in 0 .. n - 1 : y = r + d - n
    BY <2>1
  <2>6. x = (q + 1) * n + y
    BY <2>3, <2>4, <2>5
  <2>7. PICK p \in Nat : p = q + 1
    OBVIOUS
  <2>8. x = p * n + y
    BY <2>6, <2>7
  <2>9. x % n = y
    BY <2>8
  <2>10. (h + d) % n = r + d - n
    BY <2>4, <2>5, <2>9, Zenon
  <2> QED BY <1>2, <1>5, <2>10
<1> QED BY <1>4, <1>5

(* A probe visits every slot once: the d-th is the one at distance d.      *)
LEMMA ProbeVisits ==
  ASSUME NEW n \in Nat \ {0}, NEW h \in Nat
  PROVE  /\ \A d \in 0 .. n - 1 :
              (h + d) % n \in 0 .. n - 1 /\ Dist(n, h, (h + d) % n) = d
         /\ \A s \in 0 .. n - 1 :
              Dist(n, h, s) \in 0 .. n - 1 /\ (h + Dist(n, h, s)) % n = s
<1>1. PICK r \in 0 .. n - 1 : r = h % n
  BY ModRange
<1>2. \A d \in 0 .. n - 1 : (h + d) % n = IF r + d < n THEN r + d ELSE r + d - n
  BY <1>1, ModSum
<1>3. \A s : Dist(n, h, s) = IF s >= r THEN s - r ELSE n + s - r
  BY <1>1 DEF Dist
<1>4. ASSUME NEW d \in 0 .. n - 1
      PROVE  (h + d) % n \in 0 .. n - 1 /\ Dist(n, h, (h + d) % n) = d
  <2>1. CASE r + d < n
    <3>1. (h + d) % n = r + d
      BY <1>2, <2>1
    <3>2. r + d \in 0 .. n - 1 /\ Dist(n, h, r + d) = d
      BY <1>3, <2>1
    <3> QED BY <3>1, <3>2, Zenon
  <2>2. CASE ~(r + d < n)
    <3>1. (h + d) % n = r + d - n
      BY <1>2, <2>2
    <3>2. r + d - n \in 0 .. n - 1 /\ Dist(n, h, r + d - n) = d
      BY <1>3, <2>2
    <3> QED BY <3>1, <3>2, Zenon
  <2> QED BY <2>1, <2>2
<1>5. ASSUME NEW s \in 0 .. n - 1
      PROVE  Dist(n, h, s) \in 0 .. n - 1 /\ (h + Dist(n, h, s)) % n = s
  <2>1. PICK d \in 0 .. n - 1 : d = Dist(n, h, s)
    BY <1>3
  <2>2. s = IF r + d < n THEN r + d ELSE r + d - n
    BY <1>3, <2>1
  <2>3. (h + d) % n = s
    BY <1>2, <2>2, Zenon
  <2> QED BY <2>1, <2>3, Zenon
<1> QED BY <1>4, <1>5

(* Two slots at one distance are one.                                      *)
LEMMA DistOnce ==
  ASSUME NEW n \in Nat \ {0}, NEW h \in Nat,
         NEW s \in 0 .. n - 1, NEW u \in 0 .. n - 1,
         Dist(n, h, s) = Dist(n, h, u)
  PROVE  s = u
<1>1. PICK r \in 0 .. n - 1 : r = h % n
  BY ModRange
<1> QED BY <1>1 DEF Dist

(* If a probe from h passes x on its way to s, it passes all that lies     *)
(* between them.                                                           *)
LEMMA Between ==
  ASSUME NEW n \in Nat \ {0}, NEW h \in Nat,
         NEW x \in 0 .. n - 1, NEW s \in 0 .. n - 1, NEW u \in 0 .. n - 1,
         Dist(n, h, x) < Dist(n, h, s),
         Dist(n, x, u) <= Dist(n, x, s)
  PROVE  Dist(n, h, u) <= Dist(n, h, s)
<1>1. PICK r \in 0 .. n - 1 : r = h % n
  BY ModRange
<1>2. x % n = x
  OBVIOUS
<1> QED BY <1>1, <1>2 DEF Dist

(* The slot after x is the first of the run that follows it, x the last.   *)
LEMMA NextSlot ==
  ASSUME NEW n \in Nat \ {0}, NEW x \in 0 .. n - 1
  PROVE  /\ (x + 1) % n \in 0 .. n - 1
         /\ Dist(n, x, x) = 0
         /\ \A s \in 0 .. n - 1 :
              Dist(n, (x + 1) % n, s) = IF s = x THEN n - 1 ELSE Dist(n, x, s) - 1
<1>1. x % n = x
  OBVIOUS
<1>2. CASE x + 1 < n
  <2>1. (x + 1) % n = x + 1
    BY <1>2
  <2>2. ((x + 1) % n) % n = x + 1
    BY <1>2, <2>1
  <2> QED BY <1>1, <1>2, <2>1, <2>2 DEF Dist
<1>3. CASE ~(x + 1 < n)
  <2>1. x + 1 = n /\ (x + 1) % n = 0
    BY <1>3
  <2>2. ((x + 1) % n) % n = 0
    BY <2>1
  <2> QED BY <1>1, <2>1, <2>2 DEF Dist
<1> QED BY <1>2, <1>3

-----------------------------------------------------------------------------
(* Tables. *)

LEMMA TableFields ==
  ASSUME NEW t \in Tables
  PROVE  /\ t.size \in Nat \ {0} /\ t.size \in 1 .. MaxSize
         /\ Slots(t) = 0 .. t.size - 1
         /\ t.slot \in [Slots(t) -> Entry \cup {NoEntry}]
         /\ t.owner \in Contexts
         /\ t.count \in 0 .. t.size /\ t.count = Cardinality(Occupied(t))
         /\ t = [size |-> t.size, count |-> t.count, owner |-> t.owner, slot |-> t.slot]
<1>1. PICK n \in 1 .. MaxSize : t \in TableOf(n)
  BY DEF Tables
<1>2. t.size = n /\ n \in Nat \ {0} /\ MaxSize \in Nat
  BY <1>1, CapacityAssumption DEF TableOf
<1>3. Slots(t) = 0 .. n - 1
  BY <1>2 DEF Slots
<1> QED BY <1>1, <1>2, <1>3 DEF Tables, TableOf

(* The occupied slots are finitely many, all of them when the table is     *)
(* full.                                                                   *)
LEMMA Counting ==
  ASSUME NEW t \in Tables
  PROVE  /\ IsFiniteSet(Slots(t)) /\ Cardinality(Slots(t)) = t.size
         /\ Occupied(t) \in SUBSET Slots(t) /\ IsFiniteSet(Occupied(t))
         /\ t.count < t.size => \E s \in Slots(t) : t.slot[s] = NoEntry
<1>1. t.size \in Nat \ {0} /\ Slots(t) = 0 .. t.size - 1 /\ t.count = Cardinality(Occupied(t))
  BY TableFields
<1>2. PICK n \in Nat \ {0} : n = t.size
  BY <1>1
<1>3. IsFiniteSet(0 .. n - 1) /\ Cardinality(0 .. n - 1) = n
  <2>1. PICK b \in Int : b = n - 1 /\ ~(0 > b) /\ b - 0 + 1 = n
    BY <1>2
  <2>2. IsFiniteSet(0 .. b) /\ Cardinality(0 .. b) = b - 0 + 1
    BY <2>1, FS_Interval
  <2> QED BY <2>1, <2>2
<1>4. IsFiniteSet(Slots(t)) /\ Cardinality(Slots(t)) = t.size
  BY <1>1, <1>2, <1>3
<1>5. Occupied(t) \in SUBSET Slots(t)
  BY DEF Occupied
<1>6. IsFiniteSet(Occupied(t))
  BY <1>4, <1>5, FS_Subset
<1>7. ASSUME t.count < t.size
      PROVE  \E s \in Slots(t) : t.slot[s] = NoEntry
  <2>1. Occupied(t) # Slots(t)
    BY <1>1, <1>4, <1>7
  <2> QED BY <2>1 DEF Occupied
<1> QED BY <1>4, <1>5, <1>6, <1>7

LEMMA FarRange ==
  ASSUME NEW t \in Tables, NEW k \in Keys
  PROVE  /\ Hash[k] \in Nat
         /\ \A d \in Slots(t) : Probe(t, k, d) \in Slots(t) /\ Far(t, k, Probe(t, k, d)) = d
         /\ \A s \in Slots(t) : Far(t, k, s) \in Slots(t) /\ Probe(t, k, Far(t, k, s)) = s
<1>1. t.size \in Nat \ {0} /\ Slots(t) = 0 .. t.size - 1 /\ Hash[k] \in Nat
  BY TableFields, HashAssumption
<1> QED BY <1>1, ProbeVisits, Zenon DEF Far, Probe

(* StopSlot is where a probe ends.                                         *)
LEMMA StopsThere ==
  ASSUME NEW t \in Tables, NEW k \in Keys, Stops(t, k) # {}
  PROVE  EndsAt(t, k, StopSlot(t, k))
<1>1. t.size \in Nat \ {0} /\ Slots(t) = 0 .. t.size - 1 /\ Slots(t) \in SUBSET Nat
  BY TableFields
<1>2. Stops(t, k) \in SUBSET Slots(t)
  BY DEF Stops
<1>3. PICK d \in Stops(t, k) : d = Min(Stops(t, k)) /\ \A x \in Stops(t, k) : d <= x
  BY <1>1, <1>2, MinIsLeast
<1>4. PICK s \in Slots(t) : s = StopSlot(t, k) /\ Far(t, k, s) = d
  BY <1>2, <1>3, FarRange DEF StopSlot
<1>5. t.slot[s] = NoEntry \/ t.slot[s].key = k
  BY <1>3, <1>4 DEF Stops, StopSlot
<1>6. ASSUME NEW u \in Slots(t), Far(t, k, u) < Far(t, k, s)
      PROVE  t.slot[u] # NoEntry /\ t.slot[u].key # k
  <2>1. PICK f \in Slots(t) : f = Far(t, k, u) /\ Probe(t, k, f) = u
    BY FarRange
  <2>2. f \notin Stops(t, k)
    BY <1>1, <1>2, <1>3, <1>4, <1>6, <2>1
  <2> QED BY <2>1, <2>2 DEF Stops
<1> QED BY <1>4, <1>5, <1>6 DEF EndsAt

(* It ends at one slot only, ...                                           *)
LEMMA StopsOnce ==
  ASSUME NEW t \in Tables, NEW k \in Keys, NEW s, EndsAt(t, k, s)
  PROVE  Stops(t, k) # {} /\ StopSlot(t, k) = s
<1>1. t.size \in Nat \ {0} /\ Slots(t) = 0 .. t.size - 1 /\ Hash[k] \in Nat
  BY TableFields, HashAssumption
<1>2. PICK f \in Slots(t) : f = Far(t, k, s) /\ Probe(t, k, f) = s /\ s \in Slots(t)
  BY FarRange DEF EndsAt
<1>3. f \in Stops(t, k)
  BY <1>2 DEF EndsAt, Stops
<1>4. PICK y : y = StopSlot(t, k) /\ EndsAt(t, k, y)
  BY <1>3, StopsThere
<1>5. y \in Slots(t) /\ Far(t, k, y) \in Slots(t) /\ Far(t, k, s) \in Slots(t)
  BY <1>2, <1>4, FarRange DEF EndsAt
<1>6. ~(Far(t, k, y) < Far(t, k, s)) /\ ~(Far(t, k, s) < Far(t, k, y))
  BY <1>2, <1>4, <1>5 DEF EndsAt
<1>7. Far(t, k, y) = Far(t, k, s)
  BY <1>1, <1>5, <1>6
<1>8. y = s
  BY <1>1, <1>2, <1>5, <1>7, DistOnce DEF Far
<1> QED BY <1>3, <1>4, <1>8

(* ... and it ends if any slot is free or holds the key.                   *)
LEMMA StopsSomewhere ==
  ASSUME NEW t \in Tables, NEW k \in Keys, NEW s \in Slots(t),
         t.slot[s] = NoEntry \/ t.slot[s].key = k
  PROVE  Stops(t, k) # {}
BY FarRange DEF Stops

(* A new table. *)
LEMMA EmptyIsTable ==
  ASSUME NEW n \in 1 .. MaxSize, NEW c \in Contexts
  PROVE  /\ EmptyTable(n, c) \in Tables /\ EmptyTable(n, c).size = n
         /\ EmptyTable(n, c).count = 0 /\ EmptyTable(n, c).owner = c
         /\ Occupied(EmptyTable(n, c)) = {}
<1> DEFINE t == EmptyTable(n, c)
<1>1. n \in Nat \ {0}
  BY CapacityAssumption
<1>2. /\ t = [size |-> n, count |-> 0, owner |-> c, slot |-> [s \in 0 .. n - 1 |-> NoEntry]]
      /\ t.size = n /\ t.count = 0 /\ t.owner = c
      /\ \A s \in 0 .. n - 1 : t.slot[s] = NoEntry
  BY DEF EmptyTable
<1>3. t \in TableOf(n)
  BY <1>1, <1>2 DEF TableOf
<1>4. Occupied(t) = {}
  BY <1>2 DEF Occupied, Slots
<1>5. Cardinality(Occupied(t)) = 0
  BY <1>4, FS_EmptySet
<1> QED BY <1>2, <1>3, <1>4, <1>5 DEF Tables

(* A table without the entry of slot s. *)
LEMMA ClearTable ==
  ASSUME NEW t \in Tables, NEW s \in Occupied(t), NEW u, u = Clear(t, s)
  PROVE  /\ u \in Tables /\ u.size = t.size /\ u.owner = t.owner
         /\ u.count = t.count - 1
         /\ u.slot = [t.slot EXCEPT ![s] = NoEntry]
         /\ Slots(u) = Slots(t) /\ Occupied(u) = Occupied(t) \ {s}
<1>1. PICK n \in 1 .. MaxSize : t \in TableOf(n)
  BY DEF Tables
<1>2. /\ n \in Nat /\ t.size = n /\ Slots(t) = 0 .. n - 1 /\ t.count \in 0 .. n
      /\ t.count = Cardinality(Occupied(t)) /\ s \in 0 .. n - 1
      /\ t.slot \in [0 .. n - 1 -> Entry \cup {NoEntry}]
  BY <1>1, CapacityAssumption DEF Tables, TableOf, Slots, Occupied
<1>3. IsFiniteSet(Occupied(t)) /\ Cardinality(Occupied(t) \ {s}) = t.count - 1
  BY <1>2, Counting, FS_RemoveElement
<1>4. t.count - 1 \in Nat
  BY <1>3, FS_RemoveElement, FS_CardinalityType
<1>5. t.count - 1 \in 0 .. n
  BY <1>2, <1>4
<1>6. u \in TableOf(n)
  BY <1>1, <1>2, <1>5 DEF TableOf, Clear
<1>7. /\ u.size = n /\ u.count = t.count - 1 /\ u.owner = t.owner
      /\ u.slot = [t.slot EXCEPT ![s] = NoEntry]
  BY <1>1, <1>2, <1>5 DEF TableOf, Clear
<1>8. Slots(u) = Slots(t) /\ Occupied(u) = Occupied(t) \ {s}
  BY <1>2, <1>7 DEF Slots, Occupied
<1> QED BY <1>2, <1>3, <1>6, <1>7, <1>8 DEF Tables

(* A table into which entry e was put. *)
LEMMA StoreTable ==
  ASSUME NEW t \in Tables, NEW e \in Entry, Stops(t, e.key) # {}
  PROVE  /\ Store(t, e) \in Tables
         /\ Store(t, e).size = t.size /\ Store(t, e).owner = t.owner
         /\ Store(t, e).count \in {t.count, t.count + 1}
         /\ t.slot[StopSlot(t, e.key)] = NoEntry => Store(t, e).count = t.count + 1
         /\ StopSlot(t, e.key) \in Slots(t)
         /\ Store(t, e).slot = [t.slot EXCEPT ![StopSlot(t, e.key)] = e]
         /\ Slots(Store(t, e)) = Slots(t)
         /\ Occupied(Store(t, e)) = Occupied(t) \cup {StopSlot(t, e.key)}
<1> DEFINE y == StopSlot(t, e.key)
           u == Store(t, e)
<1>0. e.key \in Keys
  BY DEF Entry
<1>1. PICK n \in 1 .. MaxSize : t \in TableOf(n)
  BY DEF Tables
<1>2. /\ n \in Nat /\ t.size = n /\ Slots(t) = 0 .. n - 1 /\ t.count \in 0 .. n
      /\ t.count = Cardinality(Occupied(t))
      /\ t.slot \in [0 .. n - 1 -> Entry \cup {NoEntry}]
  BY <1>1, CapacityAssumption DEF Tables, TableOf, Slots, Occupied
<1>3. y \in Slots(t) /\ u = Store(t, e) /\ y = StopSlot(t, e.key)
  BY <1>0, StopsThere DEF EndsAt
<1> HIDE DEF y, u
<1>4. PICK c : c = IF t.slot[y] = NoEntry THEN t.count + 1 ELSE t.count
  OBVIOUS
<1>5. /\ IsFiniteSet(Slots(t)) /\ Cardinality(Slots(t)) = n
      /\ IsFiniteSet(Occupied(t)) /\ Occupied(t) \cup {y} \in SUBSET Slots(t)
  BY <1>2, <1>3, Counting
<1>6. c = Cardinality(Occupied(t) \cup {y})
  <2>1. Cardinality(Occupied(t) \cup {y}) =
          IF y \in Occupied(t) THEN Cardinality(Occupied(t)) ELSE Cardinality(Occupied(t)) + 1
    BY <1>5, FS_AddElement
  <2>2. y \in Occupied(t) <=> t.slot[y] # NoEntry
    BY <1>3 DEF Occupied
  <2> QED BY <1>2, <1>4, <2>1, <2>2
<1>7. c \in 0 .. n
  BY <1>2, <1>4, <1>5, <1>6, FS_Subset
<1>8. u \in TableOf(n)
  BY <1>1, <1>2, <1>3, <1>4, <1>7 DEF TableOf, Store
<1>9. /\ u.size = n /\ u.count = c /\ u.owner = t.owner
      /\ u.slot = [t.slot EXCEPT ![y] = e]
  BY <1>1, <1>2, <1>3, <1>4, <1>7 DEF TableOf, Store
<1>10. Slots(u) = Slots(t) /\ Occupied(u) = Occupied(t) \cup {y}
  BY <1>2, <1>3, <1>9, NoEntryAssumption DEF Slots, Occupied
<1>11. u \in Tables
  BY <1>1, <1>6, <1>8, <1>9, <1>10 DEF Tables
<1> QED BY <1>2, <1>3, <1>4, <1>9, <1>10, <1>11

-----------------------------------------------------------------------------
(* Chains. *)

(* What Store does to a slot.                                              *)
LEMMA StoreSlots ==
  ASSUME NEW t \in Tables, NEW e \in Entry, Stops(t, e.key) # {},
         NEW y, y = StopSlot(t, e.key), NEW u, u = Store(t, e)
  PROVE  /\ y \in Slots(t) /\ u.slot[y] = e
         /\ t.slot[y] = NoEntry \/ t.slot[y].key = e.key
         /\ \A s \in Slots(t) : s # y => u.slot[s] = t.slot[s]
         /\ \A k \in Keys, s \in Slots(t) : Far(u, k, s) = Far(t, k, s)
         /\ \A s \in Slots(t) : Far(t, e.key, s) < Far(t, e.key, y) =>
              t.slot[s] # NoEntry /\ t.slot[s].key # e.key
<1>0. e.key \in Keys
  BY DEF Entry
<1>1. EndsAt(t, e.key, y)
  BY <1>0, StopsThere
<1>2. u.slot = [t.slot EXCEPT ![y] = e] /\ u.size = t.size /\ y \in Slots(t)
  BY StoreTable
<1>3. t.slot \in [Slots(t) -> Entry \cup {NoEntry}]
  BY TableFields
<1>4. u.slot[y] = e /\ \A s \in Slots(t) : s # y => u.slot[s] = t.slot[s]
  BY <1>2, <1>3
<1> QED BY <1>1, <1>2, <1>4 DEF EndsAt, Far

(* A put keeps every key at most once and every entry on its chain, or in  *)
(* the run that waits.  In the middle of a removal it is of a key that is  *)
(* not in the table.                                                       *)
LEMMA StoreKeeps ==
  ASSUME NEW t \in Tables, NEW e \in Entry, Stops(t, e.key) # {},
         NEW y, y = StopSlot(t, e.key), NEW u, u = Store(t, e),
         NEW S, Unique(t), Chained(t, S),
         \/ S = {}
         \/ \A s \in Occupied(t) : t.slot[s].key # e.key
  PROVE  Unique(u) /\ Chained(u, S)
<1>0. e.key \in Keys /\ e # NoEntry
  BY NoEntryAssumption DEF Entry
<1>1. /\ y \in Slots(t) /\ Slots(u) = Slots(t) /\ Occupied(u) = Occupied(t) \cup {y}
      /\ Occupied(t) \in SUBSET Slots(t)
  <2>1. Occupied(t) \in SUBSET Slots(t)
    BY DEF Occupied
  <2>2. /\ y \in Slots(t) /\ Slots(u) = Slots(t) /\ Occupied(u) = Occupied(t) \cup {y}
    BY StoreTable
  <2> QED BY <2>1, <2>2
<1>2. /\ u.slot[y] = e
      /\ t.slot[y] = NoEntry \/ t.slot[y].key = e.key
      /\ \A s \in Slots(t) : s # y => u.slot[s] = t.slot[s]
      /\ \A k \in Keys, s \in Slots(t) : Far(u, k, s) = Far(t, k, s)
      /\ \A s \in Slots(t) : Far(t, e.key, s) < Far(t, e.key, y) =>
           t.slot[s] # NoEntry /\ t.slot[s].key # e.key
  BY StoreSlots
<1>3. \A s \in Occupied(t) : t.slot[s] \in Entry /\ t.slot[s].key \in Keys
  <2>1. t.slot \in [Slots(t) -> Entry \cup {NoEntry}]
    BY TableFields
  <2>2. \A s \in Occupied(t) : t.slot[s] \in Entry
    BY <2>1 DEF Occupied
  <2> QED BY <2>2 DEF Entry
<1>4. ASSUME NEW s \in Occupied(t), t.slot[s].key = e.key
      PROVE  s = y
  <2>1. CASE t.slot[y] = NoEntry
    <3>1. S = {} /\ OnChain(t, s)
      BY <1>4 DEF Chained
    <3>2. ~(Far(t, e.key, y) < Far(t, e.key, s))
      BY <1>1, <1>4, <2>1, <3>1 DEF OnChain
    <3>3. ~(Far(t, e.key, s) < Far(t, e.key, y))
      BY <1>1, <1>2, <1>4
    <3>4. /\ Far(t, e.key, s) \in Slots(t) /\ Far(t, e.key, y) \in Slots(t)
          /\ Slots(t) \in SUBSET Nat /\ t.size \in Nat \ {0} /\ Slots(t) = 0 .. t.size - 1
          /\ Hash[e.key] \in Nat
      BY <1>0, <1>1, FarRange, TableFields
    <3>5. Far(t, e.key, s) = Far(t, e.key, y)
      BY <3>2, <3>3, <3>4
    <3> QED BY <1>1, <3>4, <3>5, DistOnce DEF Far
  <2>2. CASE t.slot[y] # NoEntry
    BY <1>1, <1>2, <1>4, <2>2 DEF Unique, Occupied
  <2> QED BY <2>1, <2>2
<1>5. Unique(u)
  <2> SUFFICES ASSUME NEW s \in Occupied(u), NEW x \in Occupied(u), u.slot[s].key = u.slot[x].key
               PROVE  s = x
    BY DEF Unique
  <2>1. CASE s = y
    BY <1>1, <1>2, <1>4, <2>1
  <2>2. CASE x = y
    BY <1>1, <1>2, <1>4, <2>2
  <2>3. CASE s # y /\ x # y
    BY <1>1, <1>2, <2>3 DEF Unique
  <2> QED BY <2>1, <2>2, <2>3
<1>6. Chained(u, S)
  <2> SUFFICES ASSUME NEW s \in Occupied(u)
               PROVE  OnChain(u, s) \/ s \in S
    BY DEF Chained
  <2>1. CASE s = y
    <3>1. \A x \in Slots(u) : Far(u, e.key, x) < Far(u, e.key, y) => u.slot[x] # NoEntry
      BY <1>0, <1>1, <1>2
    <3> QED BY <1>2, <2>1, <3>1 DEF OnChain
  <2>2. CASE s # y
    <3>1. s \in Occupied(t) /\ u.slot[s] = t.slot[s] /\ t.slot[s].key \in Keys
      BY <1>1, <1>2, <1>3, <2>2
    <3>2. CASE OnChain(t, s)
      <4>1. \A x \in Slots(u) : Far(u, t.slot[s].key, x) < Far(u, t.slot[s].key, s) => u.slot[x] # NoEntry
        BY <1>0, <1>1, <1>2, <3>1, <3>2 DEF OnChain
      <4> QED BY <3>1, <4>1 DEF OnChain
    <3> QED BY <3>1, <3>2 DEF Chained
  <2> QED BY <2>1, <2>2
<1> QED BY <1>5, <1>6

(* An entry taken out of slot x leaves the others on their chains, or in   *)
(* the run that begins behind x.                                           *)
LEMMA ClearKeeps ==
  ASSUME NEW t \in Tables, NEW x \in Occupied(t), NEW u, u = Clear(t, x),
         Unique(t), Chained(t, Run(t, x))
  PROVE  /\ Unique(u) /\ Chained(u, Run(u, (x + 1) % t.size))
         /\ (x + 1) % t.size \in Slots(u)
         /\ \A s \in Occupied(u) : u.slot[s] = t.slot[s] /\ u.slot[s].key # t.slot[x].key
<1>1. /\ t.size \in Nat \ {0} /\ Slots(t) = 0 .. t.size - 1
      /\ u.size = t.size /\ Slots(u) = Slots(t) /\ Occupied(u) = Occupied(t) \ {x}
      /\ x \in Slots(t)
  <2>1. t.size \in Nat \ {0} /\ Slots(t) = 0 .. t.size - 1
    BY TableFields
  <2>2. u.size = t.size /\ Slots(u) = Slots(t) /\ Occupied(u) = Occupied(t) \ {x}
    BY ClearTable
  <2> QED BY <2>1, <2>2 DEF Occupied
<1>2. /\ u.slot[x] = NoEntry
      /\ \A s \in Slots(t) : s # x => u.slot[s] = t.slot[s]
  <2>1. u.slot = [t.slot EXCEPT ![x] = NoEntry]
    BY ClearTable
  <2>2. t.slot \in [Slots(t) -> Entry \cup {NoEntry}]
    BY TableFields
  <2> QED BY <1>1, <2>1, <2>2
<1>3. \A s \in Occupied(u) : s \in Occupied(t) /\ s \in Slots(t) /\ s # x /\ u.slot[s] = t.slot[s]
  BY <1>1, <1>2 DEF Occupied
<1>4. \A s \in Occupied(u) : u.slot[s].key # t.slot[x].key
  BY <1>3 DEF Unique
<1>5. Unique(u)
  BY <1>3 DEF Unique
<1>6. PICK z \in Slots(t) : z = (x + 1) % t.size /\
        \A s \in Slots(t) :
          Dist(t.size, z, s) = IF s = x THEN t.size - 1 ELSE Dist(t.size, x, s) - 1
  <2>1. x \in 0 .. t.size - 1
    BY <1>1
  <2>2. (x + 1) % t.size \in 0 .. t.size - 1
    BY <1>1, <2>1, NextSlot, Zenon
  <2>3. \A s \in 0 .. t.size - 1 :
          Dist(t.size, (x + 1) % t.size, s) = IF s = x THEN t.size - 1 ELSE Dist(t.size, x, s) - 1
    BY <1>1, <2>1, NextSlot, Zenon
  <2> QED BY <1>1, <2>2, <2>3, Zenon
<1>7. \A s \in Slots(t) : Dist(t.size, x, s) \in 0 .. t.size - 1
  <2>1. x \in Nat
    BY <1>1
  <2> QED BY <1>1, <2>1, ProbeVisits, Zenon
<1>8. ASSUME NEW s \in Occupied(u), s \in Run(t, x)
      PROVE  s \in Run(u, z)
  <2> SUFFICES ASSUME NEW w \in Slots(u), Dist(u.size, z, w) <= Dist(u.size, z, s)
               PROVE  u.slot[w] # NoEntry
    BY <1>1, <1>3 DEF Run
  <2>1. w # x
    BY <1>1, <1>3, <1>6, <1>7
  <2>2. Dist(t.size, x, w) <= Dist(t.size, x, s)
    BY <1>1, <1>3, <1>6, <1>7, <2>1
  <2>3. t.slot[w] # NoEntry
    BY <1>1, <1>8, <2>2 DEF Run
  <2> QED BY <1>1, <1>2, <2>1, <2>3
<1>9. ASSUME NEW s \in Occupied(u), OnChain(t, s)
      PROVE  OnChain(u, s) \/ s \in Run(t, x)
  <2>1. PICK k \in Keys : k = t.slot[s].key /\ k = u.slot[s].key /\ Hash[k] \in Nat
    <3>1. t.slot[s] \in Entry
      BY <1>3, TableFields DEF Occupied
    <3> QED BY <1>3, <3>1, HashAssumption DEF Entry
  <2>2. CASE Far(t, k, x) < Far(t, k, s)
    <3>1. ASSUME NEW w \in Slots(t), Dist(t.size, x, w) <= Dist(t.size, x, s)
          PROVE  t.slot[w] # NoEntry
      <4>1. Far(t, k, w) <= Far(t, k, s)
        BY <1>1, <1>3, <2>1, <2>2, <3>1, Between DEF Far
      <4>2. CASE w = s
        BY <1>3, <4>2 DEF Occupied
      <4>3. CASE w # s
        <5>1. Far(t, k, w) # Far(t, k, s)
          BY <1>1, <1>3, <2>1, <4>3, DistOnce DEF Far
        <5>2. Far(t, k, w) \in Slots(t) /\ Far(t, k, s) \in Slots(t)
          BY <1>3, <2>1, FarRange
        <5>3. Far(t, k, w) < Far(t, k, s)
          BY <1>1, <4>1, <5>1, <5>2
        <5> QED BY <1>9, <2>1, <5>3 DEF OnChain
      <4> QED BY <4>2, <4>3
    <3> QED BY <1>3, <3>1 DEF Run
  <2>3. CASE ~(Far(t, k, x) < Far(t, k, s))
    <3>1. ASSUME NEW w \in Slots(u), Far(u, k, w) < Far(u, k, s)
          PROVE  u.slot[w] # NoEntry
      <4>1. Far(t, k, w) < Far(t, k, s) /\ w \in Slots(t)
        BY <1>1, <3>1 DEF Far
      <4>2. w # x /\ t.slot[w] # NoEntry
        BY <1>9, <2>1, <2>3, <4>1 DEF OnChain
      <4> QED BY <1>2, <4>1, <4>2
    <3> QED BY <2>1, <3>1 DEF OnChain
  <2> QED BY <2>2, <2>3
<1>10. Chained(u, Run(u, z))
  BY <1>3, <1>8, <1>9 DEF Chained
<1> QED BY <1>1, <1>3, <1>4, <1>5, <1>6, <1>10

(* What is put back leaves the run that waits as long as it was.           *)
LEMMA StoreRuns ==
  ASSUME NEW t \in Tables, NEW e \in Entry, Stops(t, e.key) # {}, NEW x
  PROVE  Run(t, x) \in SUBSET Run(Store(t, e), x)
<1>1. PICK u : u = Store(t, e)
  OBVIOUS
<1>2. PICK y : y = StopSlot(t, e.key)
  OBVIOUS
<1>3. u.size = t.size /\ Slots(u) = Slots(t)
  BY <1>1, <1>2, StoreTable
<1>4. u.slot[y] = e /\ \A s \in Slots(t) : s # y => u.slot[s] = t.slot[s]
  BY <1>1, <1>2, StoreSlots
<1>5. \A s \in Slots(u) : t.slot[s] # NoEntry => u.slot[s] # NoEntry
  BY <1>3, <1>4, NoEntryAssumption
<1>6. Run(t, x) \in SUBSET Run(u, x)
  BY <1>3, <1>5 DEF Run
<1> QED BY <1>1, <1>6

(* The loop of come_map_remove ends where no run begins.                   *)
LEMMA RunEnds ==
  ASSUME NEW t \in Tables, NEW x \in Slots(t), t.slot[x] = NoEntry
  PROVE  Run(t, x) = {}
<1>1. t.size \in Nat \ {0} /\ Slots(t) = 0 .. t.size - 1
  BY TableFields
<1>2. Dist(t.size, x, x) = 0 /\ \A s \in Slots(t) : Dist(t.size, x, s) \in 0 .. t.size - 1
  <2>1. x \in Nat
    BY <1>1
  <2>2. Dist(t.size, x, x) = 0
    BY <1>1, NextSlot, Zenon
  <2> QED BY <1>1, <2>1, <2>2, ProbeVisits, Zenon
<1>3. \A s \in Slots(t) : Dist(t.size, x, x) <= Dist(t.size, x, s)
  BY <1>1, <1>2
<1> QED BY <1>3 DEF Run

-----------------------------------------------------------------------------
(* Dictionaries. *)

LEMMA EntryAt ==
  ASSUME NEW t \in Tables, NEW s \in Occupied(t)
  PROVE  /\ s \in Slots(t) /\ t.slot[s] \in Entry /\ t.slot[s] # NoEntry
         /\ t.slot[s].key \in Keys /\ t.slot[s].value \in Values
<1>1. s \in Slots(t) /\ t.slot[s] # NoEntry
  BY DEF Occupied
<1>2. t.slot[s] \in Entry
  BY <1>1, TableFields
<1> QED BY <1>1, <1>2 DEF Entry

(* What is under key k.                                                    *)
LEMMA ContentAt ==
  ASSUME NEW t \in Tables, NEW k \in Keys, Unique(t)
  PROVE  /\ \A s \in Occupied(t) : t.slot[s].key = k => Content(t)[k] = t.slot[s].value
         /\ (\A s \in Occupied(t) : t.slot[s].key # k) => Content(t)[k] = Absent
<1>1. Content(t)[k] =
        IF \E s \in Occupied(t) : t.slot[s].key = k
          THEN t.slot[CHOOSE s \in Occupied(t) : t.slot[s].key = k].value
          ELSE Absent
  BY DEF Content
<1>2. ASSUME NEW s \in Occupied(t), t.slot[s].key = k
      PROVE  Content(t)[k] = t.slot[s].value
  <2>1. PICK c : c = CHOOSE u \in Occupied(t) : t.slot[u].key = k
    OBVIOUS
  <2>2. c \in Occupied(t) /\ t.slot[c].key = k
    BY <1>2, <2>1
  <2>3. c = s
    BY <1>2, <2>2 DEF Unique
  <2>4. Content(t)[k] = t.slot[c].value
    BY <1>1, <1>2, <2>1
  <2> QED BY <2>3, <2>4
<1> QED BY <1>1, <1>2

LEMMA ContentType ==
  ASSUME NEW t \in Tables, Unique(t)
  PROVE  Content(t) \in [Keys -> Values \cup {Absent}]
<1>1. ASSUME NEW k \in Keys
      PROVE  Content(t)[k] \in Values \cup {Absent}
  BY ContentAt, EntryAt
<1>2. Content(t) = [k \in Keys |-> Content(t)[k]]
  BY DEF Content
<1> QED BY <1>1, <1>2

(* A probe for the key of an entry on its chain ends at that entry.        *)
LEMMA ProbeFinds ==
  ASSUME NEW t \in Tables, NEW s \in Occupied(t), Unique(t), OnChain(t, s)
  PROVE  Stops(t, t.slot[s].key) # {} /\ StopSlot(t, t.slot[s].key) = s
<1>1. PICK k \in Keys : k = t.slot[s].key
  BY EntryAt
<1>2. s \in Slots(t)
  BY EntryAt
<1>3. ASSUME NEW u \in Slots(t), Far(t, k, u) < Far(t, k, s)
      PROVE  t.slot[u] # NoEntry /\ t.slot[u].key # k
  <2>1. t.slot[u] # NoEntry
    BY <1>1, <1>3 DEF OnChain
  <2>2. u # s
    <3>1. Far(t, k, s) \in Slots(t) /\ Slots(t) = 0 .. t.size - 1 /\ t.size \in Nat
      BY <1>2, FarRange, TableFields
    <3>2. ~(Far(t, k, s) < Far(t, k, s))
      BY <3>1
    <3> QED BY <1>3, <3>2
  <2> QED BY <1>1, <2>1, <2>2 DEF Unique, Occupied
<1>4. EndsAt(t, k, s)
  BY <1>1, <1>2, <1>3 DEF EndsAt
<1> QED BY <1>1, <1>4, StopsOnce

(* On a table whose chains are whole come_map_get answers what it holds.   *)
LEMMA GetAnswers ==
  ASSUME NEW t \in Tables, Unique(t), Chained(t, {})
  PROVE  Answers(t) = Content(t)
<1>1. ASSUME NEW k \in Keys
      PROVE  Get(t, k) = Content(t)[k]
  <2>1. CASE \E s \in Occupied(t) : t.slot[s].key = k
    <3>1. PICK s \in Occupied(t) : t.slot[s].key = k
      BY <2>1
    <3>2. Stops(t, k) # {} /\ StopSlot(t, k) = s
      BY <3>1, ProbeFinds DEF Chained
    <3>3. Get(t, k) = t.slot[s].value
      BY <3>2, EntryAt DEF Get
    <3> QED BY <3>1, <3>3, ContentAt
  <2>2. CASE \A s \in Occupied(t) : t.slot[s].key # k
    <3>1. Stops(t, k) # {} => t.slot[StopSlot(t, k)] = NoEntry
      BY <2>2, StopsThere DEF EndsAt, Occupied
    <3>2. Get(t, k) = Absent
      BY <3>1 DEF Get
    <3> QED BY <2>2, <3>2, ContentAt
  <2> QED BY <2>1, <2>2
<1> QED BY <1>1 DEF Answers, Content

(* A get answers what was put last under its key.                          *)
LEMMA GetStored ==
  ASSUME NEW t \in Tables, NEW e \in Entry, Stops(t, e.key) # {}
  PROVE  Get(Store(t, e), e.key) = e.value
<1>1. PICK u \in Tables : u = Store(t, e)
  BY StoreTable
<1>2. PICK y \in Slots(t) : y = StopSlot(t, e.key)
  BY StoreTable
<1>3. PICK k \in Keys : k = e.key
  BY DEF Entry
<1>4. Slots(u) = Slots(t)
  BY <1>1, StoreTable
<1>5. /\ u.slot[y] = e
      /\ \A s \in Slots(t) : s # y => u.slot[s] = t.slot[s]
      /\ \A s \in Slots(t) : Far(u, k, s) = Far(t, k, s)
      /\ \A s \in Slots(t) : Far(t, k, s) < Far(t, k, y) =>
           t.slot[s] # NoEntry /\ t.slot[s].key # k
  BY <1>1, <1>2, <1>3, StoreSlots
<1>6. Far(t, k, y) \in Nat
  BY FarRange, TableFields
<1>7. EndsAt(u, k, y)
  BY <1>3, <1>4, <1>5, <1>6 DEF EndsAt
<1>8. Stops(u, k) # {} /\ StopSlot(u, k) = y
  BY <1>7, StopsOnce
<1>9. Get(u, k) = e.value
  BY <1>5, <1>8, NoEntryAssumption DEF Get
<1> QED BY <1>1, <1>3, <1>9

(* u is t but for what is under key k, which is x.                         *)
Updates(t, u, k, x) ==
  u.owner = t.owner /\ Content(u) = [Content(t) EXCEPT ![k] = x]

LEMMA ContentStore ==
  ASSUME NEW t \in Tables, NEW e \in Entry, Stops(t, e.key) # {},
         NEW u, u = Store(t, e), Unique(t), Unique(u)
  PROVE  Updates(t, u, e.key, e.value)
<1>1. u \in Tables /\ u = Store(t, e) /\ u.owner = t.owner
  BY StoreTable
<1>2. PICK y \in Slots(t) : y = StopSlot(t, e.key)
  BY StoreTable
<1>3. Occupied(u) = Occupied(t) \cup {y}
  BY <1>1, <1>2, StoreTable, ZenonT(30)
<1>4. /\ u.slot[y] = e
      /\ t.slot[y] = NoEntry \/ t.slot[y].key = e.key
      /\ \A s \in Slots(t) : s # y => u.slot[s] = t.slot[s]
  BY <1>1, <1>2, StoreSlots
<1>5. ASSUME NEW k \in Keys
      PROVE  Content(u)[k] = IF k = e.key THEN e.value ELSE Content(t)[k]
  <2>1. CASE k = e.key
    BY <1>1, <1>3, <1>4, <2>1, ContentAt
  <2>2. CASE k # e.key /\ \E s \in Occupied(t) : t.slot[s].key = k
    <3>1. PICK s \in Occupied(t) : t.slot[s].key = k
      BY <2>2
    <3>2. s # y /\ s \in Slots(t)
      BY <1>4, <2>2, <3>1, EntryAt
    <3>3. s \in Occupied(u) /\ u.slot[s] = t.slot[s]
      BY <1>3, <1>4, <3>2
    <3>4. Content(t)[k] = t.slot[s].value
      BY <3>1, ContentAt
    <3>5. Content(u)[k] = u.slot[s].value
      BY <1>1, <3>1, <3>3, ContentAt
    <3> QED BY <2>2, <3>3, <3>4, <3>5
  <2>3. CASE k # e.key /\ \A s \in Occupied(t) : t.slot[s].key # k
    <3>1. \A s \in Occupied(u) : u.slot[s].key # k
      BY <1>3, <1>4, <2>3 DEF Occupied
    <3>2. Content(t)[k] = Absent
      BY <2>3, ContentAt
    <3>3. Content(u)[k] = Absent
      BY <1>1, <3>1, ContentAt
    <3> QED BY <2>3, <3>2, <3>3
  <2> QED BY <2>1, <2>2, <2>3
<1>6. Content(u) = [k \in Keys |-> Content(u)[k]] /\ Content(t) = [k \in Keys |-> Content(t)[k]]
  BY DEF Content
<1>7. Content(u) = [Content(t) EXCEPT ![e.key] = e.value]
  BY <1>5, <1>6
<1> QED BY <1>1, <1>7 DEF Updates

LEMMA ContentClear ==
  ASSUME NEW t \in Tables, NEW x \in Occupied(t), NEW u, u = Clear(t, x), Unique(t)
  PROVE  Updates(t, u, t.slot[x].key, Absent)
<1>1. u \in Tables /\ u = Clear(t, x) /\ u.owner = t.owner
  BY ClearTable
<1>2. Occupied(u) = Occupied(t) \ {x}
  BY <1>1, ClearTable
<1>3. \A s \in Occupied(u) : s \in Occupied(t) /\ u.slot[s] = t.slot[s]
  <2>1. u.slot = [t.slot EXCEPT ![x] = NoEntry]
    BY <1>1, ClearTable
  <2>2. t.slot \in [Slots(t) -> Entry \cup {NoEntry}]
    BY TableFields
  <2> QED BY <1>2, <2>1, <2>2 DEF Occupied
<1>4. Unique(u)
  BY <1>3 DEF Unique
<1>5. ASSUME NEW k \in Keys
      PROVE  Content(u)[k] = IF k = t.slot[x].key THEN Absent ELSE Content(t)[k]
  <2>1. CASE k = t.slot[x].key
    <3>1. \A s \in Occupied(u) : u.slot[s].key # k
      BY <1>2, <1>3, <2>1 DEF Unique
    <3> QED BY <1>1, <1>4, <2>1, <3>1, ContentAt
  <2>2. CASE k # t.slot[x].key /\ \E s \in Occupied(t) : t.slot[s].key = k
    <3>1. PICK s \in Occupied(t) : t.slot[s].key = k
      BY <2>2
    <3>2. s \in Occupied(u) /\ u.slot[s] = t.slot[s]
      BY <1>2, <1>3, <2>2, <3>1
    <3>3. Content(t)[k] = t.slot[s].value
      BY <3>1, ContentAt
    <3>4. Content(u)[k] = u.slot[s].value
      BY <1>1, <1>4, <3>1, <3>2, ContentAt
    <3> QED BY <2>2, <3>2, <3>3, <3>4
  <2>3. CASE k # t.slot[x].key /\ \A s \in Occupied(t) : t.slot[s].key # k
    <3>1. \A s \in Occupied(u) : u.slot[s].key # k
      BY <1>3, <2>3
    <3>2. Content(t)[k] = Absent
      BY <2>3, ContentAt
    <3>3. Content(u)[k] = Absent
      BY <1>1, <1>4, <3>1, ContentAt
    <3> QED BY <2>3, <3>2, <3>3
  <2> QED BY <2>1, <2>2, <2>3
<1>6. Content(u) = [k \in Keys |-> Content(u)[k]] /\ Content(t) = [k \in Keys |-> Content(t)[k]]
  BY DEF Content
<1>7. Content(u) = [Content(t) EXCEPT ![t.slot[x].key] = Absent]
  BY <1>5, <1>6
<1> QED BY <1>1, <1>7 DEF Updates

(* Tables with the same entries are the same dictionary.                   *)
LEMMA SameEntries ==
  ASSUME NEW t \in Tables, NEW u \in Tables, Unique(t), Unique(u),
         \A e \in Entry : (\E s \in Slots(t) : t.slot[s] = e) <=> (\E s \in Slots(u) : u.slot[s] = e)
  PROVE  Content(t) = Content(u)
<1>1. ASSUME NEW k \in Keys
      PROVE  Content(t)[k] = Content(u)[k]
  <2>1. CASE \E s \in Occupied(t) : t.slot[s].key = k
    <3>1. PICK s \in Occupied(t) : t.slot[s].key = k
      BY <2>1
    <3>2. PICK x \in Slots(u) : u.slot[x] = t.slot[s] /\ x \in Occupied(u)
      BY <3>1, EntryAt DEF Occupied
    <3>3. Content(t)[k] = t.slot[s].value
      BY <3>1, ContentAt
    <3>4. Content(u)[k] = u.slot[x].value
      BY <3>1, <3>2, ContentAt
    <3> QED BY <3>2, <3>3, <3>4
  <2>2. CASE \A s \in Occupied(t) : t.slot[s].key # k
    <3>1. ASSUME NEW x \in Occupied(u), u.slot[x].key = k
          PROVE  FALSE
      <4>1. PICK s \in Slots(t) : t.slot[s] = u.slot[x] /\ s \in Occupied(t)
        BY EntryAt DEF Occupied
      <4> QED BY <2>2, <3>1, <4>1
    <3>2. Content(u)[k] = Absent
      BY <3>1, ContentAt
    <3>3. Content(t)[k] = Absent
      BY <2>2, ContentAt
    <3> QED BY <3>2, <3>3
  <2> QED BY <2>1, <2>2
<1> QED BY <1>1 DEF Content

-----------------------------------------------------------------------------
(* Types. *)

(* The slots that rehash has copied when it is at slot i. *)
Before(t, i) == {s \in Occupied(t) : s < i}

(* The table that rehash fills is twice as large, has the same owner and   *)
(* holds no more than what was copied.                                     *)
Growing ==
  /\ frame.new \in DOMAIN heap /\ frame.new # frame.m
  /\ heap[frame.new].size = NewSize(heap[frame.m])
  /\ heap[frame.new].owner = heap[frame.m].owner
  /\ frame.i \in 0 .. heap[frame.m].size
  /\ heap[frame.new].count <= Cardinality(Before(heap[frame.m], frame.i))
  /\ frame.entry # NoEntry

Base ==
  /\ heap \in Seq(Tables)
  /\ ptr \in [Vars -> 0 .. Len(heap)]
  /\ pc \in {"idle", "copy", "reinsert", "spin"}
  /\ frame \in Frame
  /\ pc # "idle" => frame.m \in DOMAIN heap
  /\ pc = "copy" => Growing
  /\ pc = "reinsert" => frame.next \in Slots(heap[frame.m])

(* Table m of a heap replaced, or a table added. *)
LEMMA HeapExcept ==
  ASSUME NEW h \in Seq(Tables), NEW m \in DOMAIN h, NEW t \in Tables,
         NEW g, g = [h EXCEPT ![m] = t]
  PROVE  /\ g \in Seq(Tables) /\ DOMAIN g = DOMAIN h /\ Len(g) = Len(h)
         /\ g[m] = t /\ \A n \in DOMAIN h : n # m => g[n] = h[n]
         /\ DOMAIN h = 1 .. Len(h) /\ Len(h) \in Nat /\ h[m] \in Tables
BY LenProperties, ElementOfSeq, ExceptSeq

LEMMA HeapAppend ==
  ASSUME NEW h \in Seq(Tables), NEW t \in Tables, NEW g, g = Append(h, t)
  PROVE  /\ g \in Seq(Tables) /\ Len(g) = Len(h) + 1 /\ Len(h) \in Nat
         /\ DOMAIN h = 1 .. Len(h) /\ DOMAIN g = 1 .. Len(h) + 1
         /\ g[Len(h) + 1] = t /\ \A n \in DOMAIN h : g[n] = h[n]
BY LenProperties, AppendProperties

LEMMA FrameFields ==
  ASSUME NEW f \in Frame
  PROVE  /\ f.cell \in Vars \cup {Local} /\ f.entry \in Entry \cup {NoEntry}
         /\ f.m \in Nat /\ f.new \in Nat /\ f.i \in Nat /\ f.next \in Nat
BY DEF Frame

LEMMA NoFrameFits == NoFrame \in Frame
BY DEF NoFrame, Frame

LEMMA InitBase == Init => Base
<1> SUFFICES ASSUME Init
             PROVE  Base
  OBVIOUS
<1>1. heap = << >> /\ heap \in Seq(Tables) /\ Len(heap) = 0
  BY DEF Init
<1> QED BY <1>1, NoFrameFits DEF Init, Base

(* A put that stores, or spins.                                            *)
LEMMA StoreBase ==
  ASSUME NEW h \in Seq(Tables), NEW f \in Frame, f.m \in DOMAIN h, f.entry \in Entry,
         ptr' \in [Vars -> 0 .. Len(h)], StoreOrSpin(h, f)
  PROVE  Base'
<1>1. CASE Stops(h[f.m], f.entry.key) = {}
  BY <1>1 DEF StoreOrSpin, Base
<1>2. CASE Stops(h[f.m], f.entry.key) # {}
  <2>1. PICK t \in Tables : t = h[f.m]
    BY ElementOfSeq
  <2>2. Store(t, f.entry) \in Tables /\ Slots(Store(t, f.entry)) = Slots(t)
    BY <1>2, <2>1, StoreTable
  <2>3. heap' = [h EXCEPT ![f.m] = Store(t, f.entry)]
    BY <1>2, <2>1 DEF StoreOrSpin
  <2>4. /\ heap' \in Seq(Tables) /\ DOMAIN heap' = DOMAIN h /\ Len(heap') = Len(h)
        /\ heap'[f.m] = Store(t, f.entry)
    BY <2>2, <2>3, HeapExcept
  <2>5. CASE pc' = "idle" /\ frame' = NoFrame
    BY <2>4, <2>5, NoFrameFits DEF Base
  <2>6. CASE /\ pc' = "reinsert"
             /\ frame' = [f EXCEPT !.entry = NoEntry, !.i = 0, !.new = 0,
                                   !.next = (@ + 1) % h[f.m].size]
    <3>1. t.size \in Nat \ {0} /\ Slots(t) = 0 .. t.size - 1 /\ f.next \in Nat
      BY TableFields, FrameFields
    <3>2. PICK x \in Slots(t) : x = (f.next + 1) % t.size /\ x \in Nat
      <4>1. PICK j \in Nat : j = f.next + 1
        BY <3>1
      <4>2. j % t.size \in 0 .. t.size - 1
        BY <3>1, ModRange, Zenon
      <4> QED BY <3>1, <4>1, <4>2
    <3>3. frame' = [f EXCEPT !.entry = NoEntry, !.i = 0, !.new = 0, !.next = x]
      BY <2>1, <2>6, <3>2
    <3>4. frame' \in Frame /\ frame'.m = f.m /\ frame'.next = x
      BY <3>2, <3>3 DEF Frame
    <3> QED BY <2>2, <2>4, <2>6, <3>2, <3>4 DEF Base
  <2> QED BY <1>2, <2>5, <2>6 DEF StoreOrSpin
<1> QED BY <1>1, <1>2

(* A put, up to its rehash.                                                *)
LEMMA PutBase ==
  ASSUME NEW h \in Seq(Tables), NEW f \in Frame, f.m \in DOMAIN h, f.entry \in Entry,
         ptr' \in [Vars -> 0 .. Len(h)], PutInto(h, f)
  PROVE  Base'
<1>1. CASE StoreOrSpin(h, f)
  BY <1>1, StoreBase
<1>2. CASE /\ NewSize(h[f.m]) <= MaxSize
           /\ heap' = Append(h, EmptyTable(NewSize(h[f.m]), h[f.m].owner))
           /\ frame' = [f EXCEPT !.new = Len(h) + 1, !.i = 0]
           /\ pc' = "copy"
  <2>1. PICK t \in Tables : t = h[f.m]
    BY ElementOfSeq
  <2>2. NewSize(t) \in 1 .. MaxSize /\ t.size \in Nat \ {0} /\ t.owner \in Contexts
    <3>1. t.size \in Nat \ {0} /\ t.owner \in Contexts
      BY TableFields
    <3>2. 2 * t.size <= MaxSize
      BY <1>2, <2>1 DEF NewSize
    <3> QED BY <3>1, <3>2, CapacityAssumption DEF NewSize
  <2>3. PICK u \in Tables : /\ u = EmptyTable(NewSize(t), t.owner)
                            /\ u.size = NewSize(t) /\ u.owner = t.owner /\ u.count = 0
    BY <2>2, EmptyIsTable
  <2>4. heap' = Append(h, u)
    BY <1>2, <2>1, <2>3
  <2>5. /\ heap' \in Seq(Tables) /\ Len(heap') = Len(h) + 1 /\ Len(h) \in Nat
        /\ DOMAIN h = 1 .. Len(h) /\ DOMAIN heap' = 1 .. Len(h) + 1
        /\ heap'[Len(h) + 1] = u /\ heap'[f.m] = t
    BY <2>1, <2>4, HeapAppend
  <2>6. /\ frame' \in Frame /\ frame'.m = f.m /\ frame'.new = Len(h) + 1 /\ frame'.i = 0
        /\ frame'.entry = f.entry
    <3>1. PICK l \in Nat : l = Len(h) + 1
      BY <2>5
    <3>2. frame' = [f EXCEPT !.new = l, !.i = 0]
      BY <1>2, <3>1
    <3>3. frame' \in Frame /\ frame'.m = f.m /\ frame'.new = l /\ frame'.i = 0 /\ frame'.entry = f.entry
      BY <3>2 DEF Frame
    <3> QED BY <3>1, <3>3
  <2>7. Cardinality(Before(t, 0)) = 0
    <3>1. Before(t, 0) = {}
      BY EntryAt, TableFields DEF Before
    <3> QED BY <3>1, FS_EmptySet
  <2>8. Growing'
    BY <2>2, <2>3, <2>5, <2>6, <2>7, NoEntryAssumption DEF Growing
  <2>9. ptr' \in [Vars -> 0 .. Len(heap')]
    BY <2>5
  <2> QED BY <1>2, <2>5, <2>6, <2>8, <2>9 DEF Base
<1> QED BY <1>1, <1>2 DEF PutInto

(* A table under a new owner. *)
LEMMA ChownTable ==
  ASSUME NEW t \in Tables, NEW c \in Contexts, NEW u, u = [t EXCEPT !.owner = c]
  PROVE  /\ u \in Tables /\ u.size = t.size /\ u.count = t.count /\ u.owner = c
         /\ u.slot = t.slot /\ Occupied(u) = Occupied(t)
<1>1. PICK n \in 1 .. MaxSize : t \in TableOf(n)
  BY DEF Tables
<1>2. u \in TableOf(n) /\ u.size = t.size /\ u.count = t.count /\ u.owner = c /\ u.slot = t.slot
  BY <1>1 DEF TableOf
<1>3. Occupied(u) = Occupied(t)
  BY <1>2 DEF Occupied, Slots
<1> QED BY <1>1, <1>2, <1>3 DEF Tables

(* The tables at work are tables. *)
LEMMA HeapTables ==
  ASSUME Base
  PROVE  /\ Len(heap) \in Nat /\ DOMAIN heap = 1 .. Len(heap)
         /\ \A n \in DOMAIN heap : heap[n] \in Tables
         /\ \A v \in Vars : ptr[v] \in 0 .. Len(heap) /\ (ptr[v] # 0 => ptr[v] \in DOMAIN heap)
<1>1. heap \in Seq(Tables) /\ ptr \in [Vars -> 0 .. Len(heap)]
  BY DEF Base
<1>2. Len(heap) \in Nat /\ DOMAIN heap = 1 .. Len(heap)
  BY <1>1, LenProperties
<1>3. \A n \in DOMAIN heap : heap[n] \in Tables
  BY <1>1, ElementOfSeq
<1>4. ASSUME NEW v \in Vars
      PROVE  ptr[v] \in 0 .. Len(heap) /\ (ptr[v] # 0 => ptr[v] \in DOMAIN heap)
  BY <1>1, <1>2
<1> QED BY <1>2, <1>3, <1>4

(* What was copied fits into a table of twice the size. *)
LEMMA CopyRoom ==
  ASSUME Base, pc = "copy"
  PROVE  /\ heap[frame.new].count <= heap[frame.m].count
         /\ heap[frame.new].count < heap[frame.new].size
<1>1. PICK t \in Tables : t = heap[frame.m]
  BY HeapTables DEF Base
<1>2. PICK u \in Tables : u = heap[frame.new]
  BY HeapTables DEF Base, Growing
<1>3. /\ t.size \in Nat \ {0} /\ t.count = Cardinality(Occupied(t)) /\ t.count \in 0 .. t.size
      /\ u.count \in 0 .. u.size
  BY TableFields
<1>4. u.size = 2 * t.size /\ u.count <= Cardinality(Before(t, frame.i))
  BY <1>1, <1>2 DEF Base, Growing, NewSize
<1>5. IsFiniteSet(Occupied(t)) /\ Before(t, frame.i) \in SUBSET Occupied(t)
  BY Counting DEF Before
<1>6. Cardinality(Before(t, frame.i)) \in Nat /\ Cardinality(Before(t, frame.i)) <= t.count
  BY <1>3, <1>5, FS_Subset, FS_CardinalityType
<1> QED BY <1>1, <1>2, <1>3, <1>4, <1>6

LEMMA NewBase ==
  ASSUME Base, NEW v \in Vars, NEW c \in Contexts, New(v, c)
  PROVE  Base'
<1>1. heap \in Seq(Tables) /\ Len(heap) \in Nat /\ DOMAIN heap = 1 .. Len(heap)
  BY HeapTables DEF Base
<1>2. CASE /\ heap' = Append(heap, EmptyTable(InitialCapacity, c))
           /\ ptr' = [ptr EXCEPT ![v] = Len(heap) + 1]
  <2>1. EmptyTable(InitialCapacity, c) \in Tables
    BY EmptyIsTable, CapacityAssumption
  <2>2. heap' \in Seq(Tables) /\ Len(heap') = Len(heap) + 1
    BY <1>1, <1>2, <2>1, HeapAppend
  <2>3. ptr' \in [Vars -> 0 .. Len(heap')]
    BY <1>1, <1>2, <2>2 DEF Base
  <2> QED BY <2>2, <2>3 DEF New, Base
<1>3. CASE heap' = heap /\ ptr' = [ptr EXCEPT ![v] = 0]
  <2>1. ptr' \in [Vars -> 0 .. Len(heap')]
    BY <1>1, <1>3 DEF Base
  <2> QED BY <1>3, <2>1 DEF New, Base
<1> QED BY <1>2, <1>3 DEF New

LEMMA AssignBase ==
  ASSUME Base, NEW v \in Vars, NEW w \in Vars, Assign(v, w)
  PROVE  Base'
<1>1. ptr' \in [Vars -> 0 .. Len(heap')]
  BY DEF Assign, Base
<1> QED BY <1>1 DEF Assign, Base

LEMMA ChownBase ==
  ASSUME Base, NEW v \in Vars, NEW c \in Contexts, Chown(v, c)
  PROVE  Base'
<1>1. PICK m \in DOMAIN heap : m = ptr[v] /\ heap[m] \in Tables
  BY HeapTables DEF Chown
<1>2. [heap[m] EXCEPT !.owner = c] \in Tables
  BY <1>1, ChownTable
<1>3. heap' = [heap EXCEPT ![m] = [heap[m] EXCEPT !.owner = c]]
  BY <1>1 DEF Chown
<1>4. heap \in Seq(Tables)
  BY DEF Base
<1>5. heap' \in Seq(Tables) /\ Len(heap') = Len(heap)
  BY <1>2, <1>3, <1>4, HeapExcept
<1> QED BY <1>5 DEF Chown, Base

LEMMA PutCallBase ==
  ASSUME Base, NEW v \in Vars, NEW k \in Keys, NEW x \in Values, Put(v, k, x)
  PROVE  Base'
<1> DEFINE f == [NoFrame EXCEPT !.cell = v, !.entry = [key |-> k, value |-> x]]
<1>1. heap \in Seq(Tables) /\ Len(heap) \in Nat /\ DOMAIN heap = 1 .. Len(heap)
  BY HeapTables DEF Base
<1>2. ASSUME NEW m \in Nat
      PROVE  /\ [f EXCEPT !.m = m] \in Frame /\ [f EXCEPT !.m = m].m = m
             /\ [f EXCEPT !.m = m].entry \in Entry
  BY DEF Frame, NoFrame, Entry
<1>3. CASE ptr[v] # 0 /\ PutInto(heap, [f EXCEPT !.m = ptr[v]]) /\ ptr' = ptr
  <2>1. PICK m \in DOMAIN heap : m = ptr[v] /\ m \in Nat
    BY <1>1, <1>3, HeapTables
  <2>2. PICK g \in Frame : g = [f EXCEPT !.m = m] /\ g.m = m /\ g.entry \in Entry
    BY <1>2, <2>1
  <2>3. PutInto(heap, g)
    BY <1>3, <2>1, <2>2
  <2>4. PICK h \in Seq(Tables) : h = heap
    BY <1>1
  <2>5. PutInto(h, g) /\ g.m \in DOMAIN h /\ ptr' \in [Vars -> 0 .. Len(h)]
    BY <1>3, <2>1, <2>2, <2>3, <2>4 DEF Base
  <2> QED BY <2>2, <2>5, PutBase
<1>4. CASE /\ ptr' = [ptr EXCEPT ![v] = Len(heap) + 1]
           /\ PutInto(Append(heap, EmptyTable(InitialCapacity, Root)),
                      [f EXCEPT !.m = Len(heap) + 1])
  <2>1. PICK m \in Nat : m = Len(heap) + 1
    BY <1>1
  <2>2. PICK g \in Frame : g = [f EXCEPT !.m = m] /\ g.m = m /\ g.entry \in Entry
    BY <1>2, <2>1
  <2>3. EmptyTable(InitialCapacity, Root) \in Tables
    BY EmptyIsTable, CapacityAssumption, RootAssumption
  <2>4. PICK h \in Seq(Tables) : /\ h = Append(heap, EmptyTable(InitialCapacity, Root))
                                 /\ Len(h) = m /\ DOMAIN h = 1 .. m
    BY <1>1, <2>1, <2>3, HeapAppend
  <2>5. ptr' \in [Vars -> 0 .. Len(h)]
    BY <1>1, <1>4, <2>1, <2>4 DEF Base
  <2>6. PutInto(h, g) /\ g.m \in DOMAIN h
    BY <1>1, <1>4, <2>1, <2>2, <2>4
  <2> QED BY <2>2, <2>5, <2>6, PutBase
<1>5. CASE UNCHANGED vars
  BY <1>5 DEF vars, Base, Growing
<1> QED BY <1>3, <1>4, <1>5 DEF Put

(* The next slot that rehash copies from. *)
LEMMA BeforeNext ==
  ASSUME NEW t \in Tables, NEW i \in 0 .. t.size - 1
  PROVE  /\ t.slot[i] = NoEntry => Before(t, i + 1) = Before(t, i)
         /\ t.slot[i] # NoEntry =>
              Cardinality(Before(t, i + 1)) = Cardinality(Before(t, i)) + 1
<1>1. /\ t.size \in Nat /\ Slots(t) = 0 .. t.size - 1 /\ Occupied(t) \in SUBSET Slots(t)
      /\ IsFiniteSet(Before(t, i))
  <2>1. t.size \in Nat /\ Slots(t) = 0 .. t.size - 1
    BY TableFields
  <2>2. IsFiniteSet(Occupied(t)) /\ Occupied(t) \in SUBSET Slots(t)
    BY Counting
  <2>3. Before(t, i) \in SUBSET Occupied(t)
    BY DEF Before
  <2> QED BY <2>1, <2>2, <2>3, FS_Subset
<1>2. ASSUME t.slot[i] = NoEntry
      PROVE  Before(t, i + 1) = Before(t, i)
  BY <1>1, <1>2 DEF Before, Occupied
<1>3. ASSUME t.slot[i] # NoEntry
      PROVE  Cardinality(Before(t, i + 1)) = Cardinality(Before(t, i)) + 1
  <2>1. Before(t, i + 1) = Before(t, i) \cup {i} /\ i \notin Before(t, i)
    BY <1>1, <1>3 DEF Before, Occupied
  <2> QED BY <1>1, <2>1, FS_AddElement
<1> QED BY <1>2, <1>3

(* What one turn of rehash's loop does: nothing but count, or a store.     *)
LEMMA CopyStep ==
  ASSUME Base, Copy
  PROVE  /\ heap' \in Seq(Tables) /\ Len(heap') = Len(heap) /\ DOMAIN heap' = DOMAIN heap
         /\ \A n \in DOMAIN heap : n # frame.new => heap'[n] = heap[n]
         /\ frame' \in Frame /\ frame' = [frame EXCEPT !.i = frame.i + 1]
         /\ frame.i \in Slots(heap[frame.m])
         /\ heap[frame.m].slot[frame.i] = NoEntry => heap' = heap
         /\ heap[frame.m].slot[frame.i] # NoEntry =>
              /\ heap[frame.m].slot[frame.i] \in Entry
              /\ Stops(heap[frame.new], heap[frame.m].slot[frame.i].key) # {}
              /\ heap'[frame.new] = Store(heap[frame.new], heap[frame.m].slot[frame.i])
<1>1. pc = "copy" /\ Growing /\ heap \in Seq(Tables) /\ frame \in Frame
  BY DEF Base, Copy
<1>2. PICK t \in Tables : t = heap[frame.m]
  BY <1>1, HeapTables DEF Base
<1>3. PICK u \in Tables : u = heap[frame.new]
  BY <1>1, HeapTables DEF Growing
<1>4. t.size \in Nat /\ Slots(t) = 0 .. t.size - 1 /\ t.slot \in [Slots(t) -> Entry \cup {NoEntry}]
  BY TableFields
<1>5. PICK i \in Slots(t) : i = frame.i /\ i \in Nat
  BY <1>1, <1>2, <1>4 DEF Growing, Copy
<1>6. frame' = [frame EXCEPT !.i = frame.i + 1]
  BY DEF Copy
<1>7. frame' \in Frame
  BY <1>1, <1>5, <1>6 DEF Frame
<1>8. CASE t.slot[i] = NoEntry
  <2>1. heap' = heap
    BY <1>2, <1>5, <1>8 DEF Copy
  <2> QED BY <1>1, <1>2, <1>5, <1>6, <1>7, <1>8, <2>1
<1>9. CASE t.slot[i] # NoEntry
  <2>1. PICK e \in Entry : e = t.slot[i]
    BY <1>4, <1>9
  <2>2. Stops(u, e.key) # {}
    <3>1. u.count < u.size
      BY <1>1, <1>3, CopyRoom
    <3>2. PICK s \in Slots(u) : u.slot[s] = NoEntry
      BY <3>1, Counting
    <3> QED BY <3>2, StopsSomewhere DEF Entry
  <2>3. PICK w \in Tables : w = Store(u, e)
    BY <2>2, StoreTable
  <2>4. PICK n \in DOMAIN heap : n = frame.new
    BY <1>1 DEF Growing
  <2>5. heap' = [heap EXCEPT ![n] = w]
    BY <1>2, <1>3, <1>5, <1>9, <2>1, <2>3, <2>4 DEF Copy
  <2>6. /\ heap' \in Seq(Tables) /\ DOMAIN heap' = DOMAIN heap /\ Len(heap') = Len(heap)
        /\ heap'[n] = w /\ \A z \in DOMAIN heap : z # n => heap'[z] = heap[z]
    BY <1>1, <2>5, HeapExcept
  <2> QED BY <1>2, <1>3, <1>5, <1>6, <1>7, <1>9, <2>1, <2>2, <2>3, <2>4, <2>6
<1> QED BY <1>8, <1>9

LEMMA CopyBase == ASSUME Base, Copy PROVE Base'
<1>1. /\ heap' \in Seq(Tables) /\ Len(heap') = Len(heap) /\ DOMAIN heap' = DOMAIN heap
      /\ heap'[frame.m] = heap[frame.m]
      /\ frame' \in Frame /\ frame' = [frame EXCEPT !.i = frame.i + 1]
      /\ pc = "copy" /\ pc' = "copy" /\ ptr' = ptr /\ Growing
  BY CopyStep DEF Base, Growing, Copy
<1>2. PICK t \in Tables : t = heap[frame.m] /\ t = heap'[frame.m]
  BY <1>1, HeapTables DEF Base
<1>3. PICK u \in Tables : u = heap[frame.new]
  BY <1>1, HeapTables DEF Growing
<1>4. PICK w \in Tables : w = heap'[frame.new]
  BY <1>1, ElementOfSeq DEF Growing
<1>5. PICK i \in Nat : i = frame.i /\ i \in 0 .. t.size - 1 /\ t.size \in Nat
  <2>1. frame.i \in Slots(t) /\ t.size \in Nat /\ Slots(t) = 0 .. t.size - 1
    BY <1>2, CopyStep, TableFields
  <2> QED BY <2>1
<1>6. /\ frame'.m = frame.m /\ frame'.new = frame.new /\ frame'.i = i + 1
      /\ frame'.entry = frame.entry
  BY <1>1, <1>5, FrameFields DEF Frame, Base
<1>7. w.size = u.size /\ w.owner = u.owner /\ w.count <= Cardinality(Before(t, i + 1))
  <2>1. /\ u.count <= Cardinality(Before(t, i)) /\ u.count \in Nat
        /\ Cardinality(Before(t, i)) \in Nat
    <3>1. u.count \in Nat
      <4>1. u.count \in 0 .. u.size
        BY TableFields
      <4> QED BY <4>1
    <3>2. IsFiniteSet(Occupied(t)) /\ Before(t, i) \in SUBSET Occupied(t)
      BY Counting DEF Before
    <3> QED BY <1>1, <1>2, <1>3, <1>5, <3>1, <3>2, FS_Subset, FS_CardinalityType DEF Growing
  <2>2. CASE t.slot[i] = NoEntry
    <3>1. heap' = heap
      BY <1>2, <1>5, <2>2, CopyStep
    <3> QED BY <1>3, <1>4, <1>5, <2>1, <2>2, <3>1, BeforeNext
  <2>3. CASE t.slot[i] # NoEntry
    <3>1. PICK e \in Entry : e = t.slot[i] /\ Stops(u, e.key) # {} /\ w = Store(u, e)
      BY <1>2, <1>3, <1>4, <1>5, <2>3, CopyStep
    <3>2. w.size = u.size /\ w.owner = u.owner /\ w.count \in {u.count, u.count + 1}
      BY <3>1, StoreTable
    <3>3. Cardinality(Before(t, i + 1)) = Cardinality(Before(t, i)) + 1
      BY <1>5, <2>3, BeforeNext
    <3> QED BY <2>1, <3>2, <3>3
  <2> QED BY <2>2, <2>3
<1>8. Growing'
  BY <1>1, <1>2, <1>3, <1>4, <1>5, <1>6, <1>7 DEF Growing, NewSize
<1> QED BY <1>1, <1>6, <1>8 DEF Base

LEMMA FinishRehashBase == ASSUME Base, FinishRehash PROVE Base'
<1>1. /\ heap \in Seq(Tables) /\ Len(heap) \in Nat /\ DOMAIN heap = 1 .. Len(heap)
      /\ pc = "copy" /\ Growing /\ frame \in Frame
  BY HeapTables DEF Base, FinishRehash
<1>2. PICK g \in Frame : /\ g = [frame EXCEPT !.m = frame.new] /\ g.m = frame.new
                         /\ g.entry \in Entry /\ g.m \in DOMAIN heap
  <2>1. frame.new \in Nat
    BY <1>1, FrameFields
  <2>2. [frame EXCEPT !.m = frame.new] \in Frame
    BY <1>1, <2>1 DEF Frame
  <2>3. frame.entry \in Entry
    BY <1>1 DEF Growing, Frame
  <2> QED BY <1>1, <2>2, <2>3 DEF Growing, Frame
<1>3. PICK h \in Seq(Tables) : h = heap
  BY <1>1
<1>4. ptr' \in [Vars -> 0 .. Len(h)]
  BY <1>1, <1>2, <1>3 DEF FinishRehash, Base
<1>5. StoreOrSpin(h, g)
  BY <1>2, <1>3 DEF FinishRehash
<1> QED BY <1>2, <1>3, <1>4, <1>5, StoreBase

(* come_map_remove clears slot s of table t, the m-th. *)
Clears(v, k, m, t, s) ==
  /\ m \in DOMAIN heap /\ t \in Tables /\ s \in Occupied(t)
  /\ m = ptr[v] /\ t = heap[m] /\ t.slot[s].key = k
  /\ heap' \in Seq(Tables) /\ DOMAIN heap' = DOMAIN heap /\ Len(heap') = Len(heap)
  /\ heap'[m] = Clear(t, s)
  /\ \A n \in DOMAIN heap : n # m => heap'[n] = heap[n]
  /\ pc = "idle" /\ pc' = "reinsert" /\ ptr' = ptr /\ ptr[v] # 0
  /\ frame' \in Frame /\ frame'.m = m /\ frame'.next = (s + 1) % t.size
  /\ frame'.cell = Local

LEMMA RemoveStep ==
  ASSUME Base, NEW v \in Vars, NEW k \in Keys, Remove(v, k)
  PROVE  \E m \in DOMAIN heap : \E t \in Tables : \E s : Clears(v, k, m, t, s)
<1>1. PICK m \in DOMAIN heap : m = ptr[v] /\ heap[m] \in Tables /\ m \in Nat
  BY HeapTables DEF Remove
<1>2. PICK t \in Tables : t = heap[m]
  BY <1>1
<1>3. PICK s : s = StopSlot(t, k)
  OBVIOUS
<1>4. Stops(t, k) # {} /\ t.slot[s] # NoEntry
  BY <1>1, <1>2, <1>3 DEF Remove
<1>5. s \in Occupied(t) /\ t.slot[s].key = k
  BY <1>3, <1>4, StopsThere DEF EndsAt, Occupied
<1>6. Clear(t, s) \in Tables
  BY <1>5, ClearTable
<1>7. heap' = [heap EXCEPT ![m] = Clear(t, s)]
  BY <1>1, <1>2, <1>3 DEF Remove
<1>8. heap \in Seq(Tables)
  BY DEF Base
<1>9. /\ heap' \in Seq(Tables) /\ DOMAIN heap' = DOMAIN heap /\ Len(heap') = Len(heap)
      /\ heap'[m] = Clear(t, s) /\ \A n \in DOMAIN heap : n # m => heap'[n] = heap[n]
  BY <1>6, <1>7, <1>8, HeapExcept
<1>10. PICK x \in Nat : x = (s + 1) % t.size
  <2>1. t.size \in Nat \ {0} /\ s \in Nat
    BY <1>5, TableFields, EntryAt
  <2>2. PICK j \in Nat : j = s + 1
    BY <2>1
  <2>3. j % t.size \in 0 .. t.size - 1
    BY <2>1, ModRange
  <2> QED BY <2>1, <2>2, <2>3
<1>11. frame' = [NoFrame EXCEPT !.m = m, !.next = x]
  BY <1>1, <1>2, <1>3, <1>10 DEF Remove
<1>12. frame' \in Frame /\ frame'.m = m /\ frame'.next = x /\ frame'.cell = Local
  BY <1>1, <1>10, <1>11 DEF Frame, NoFrame
<1>13. Clears(v, k, m, t, s)
  BY <1>1, <1>2, <1>5, <1>9, <1>10, <1>12 DEF Remove, Clears
<1> QED BY <1>1, <1>13

LEMMA RemoveBase ==
  ASSUME Base, NEW v \in Vars, NEW k \in Keys, Remove(v, k)
  PROVE  Base'
<1>0. PICK m \in DOMAIN heap, t \in Tables : \E s : Clears(v, k, m, t, s)
  BY RemoveStep
<1>1. PICK s : Clears(v, k, m, t, s)
  BY <1>0
<1>2. /\ t.size \in Nat \ {0} /\ Slots(t) = 0 .. t.size - 1 /\ s \in Slots(t)
      /\ Slots(Clear(t, s)) = Slots(t)
  <2>1. s \in Occupied(t)
    BY <1>1 DEF Clears
  <2>2. t.size \in Nat \ {0} /\ Slots(t) = 0 .. t.size - 1
    BY TableFields
  <2> QED BY <2>1, <2>2, ClearTable DEF Occupied
<1>3. (s + 1) % t.size \in 0 .. t.size - 1
  BY <1>2, NextSlot
<1> QED BY <1>1, <1>2, <1>3 DEF Base, Clears

LEMMA ReinsertBase == ASSUME Base, Reinsert PROVE Base'
<1>1. /\ heap \in Seq(Tables) /\ pc = "reinsert" /\ frame \in Frame
      /\ frame.m \in DOMAIN heap /\ frame.next \in Slots(heap[frame.m])
  BY DEF Base, Reinsert
<1>2. PICK t \in Tables : t = heap[frame.m]
  BY <1>1, HeapTables
<1>3. PICK e \in Entry : e = t.slot[frame.next] /\ frame.next \in Occupied(t)
  BY <1>1, <1>2, EntryAt DEF Reinsert, Occupied
<1>4. Clear(t, frame.next) \in Tables
  BY <1>3, ClearTable
<1>5. PICK h \in Seq(Tables) : /\ h = [heap EXCEPT ![frame.m] = Clear(t, frame.next)]
                               /\ DOMAIN h = DOMAIN heap /\ Len(h) = Len(heap)
  <2>1. PICK h : h = [heap EXCEPT ![frame.m] = Clear(t, frame.next)]
    OBVIOUS
  <2> QED BY <1>1, <1>4, <2>1, HeapExcept
<1>6. PICK g \in Frame : g = [frame EXCEPT !.entry = e] /\ g.m = frame.m /\ g.entry = e
  <2>1. PICK g : g = [frame EXCEPT !.entry = e]
    OBVIOUS
  <2>2. g \in Frame /\ g.m = frame.m /\ g.entry = e
    BY <1>1, <2>1 DEF Frame
  <2> QED BY <2>1, <2>2
<1>7. PutInto(h, g)
  BY <1>2, <1>3, <1>5, <1>6 DEF Reinsert
<1>8. ptr' \in [Vars -> 0 .. Len(h)]
  BY <1>5 DEF Reinsert, Base
<1>9. g.m \in DOMAIN h /\ g.entry \in Entry
  BY <1>1, <1>5, <1>6
<1> QED BY <1>7, <1>8, <1>9, PutBase

LEMMA StepBase == Base /\ [Next]_vars => Base'
<1> SUFFICES ASSUME Base, [Next]_vars
             PROVE  Base'
  OBVIOUS
<1>1. ASSUME NEW v \in Vars, NEW c \in Contexts, New(v, c)
      PROVE  Base'
  BY <1>1, NewBase
<1>2. ASSUME NEW v \in Vars, NEW c \in Contexts, Chown(v, c)
      PROVE  Base'
  BY <1>2, ChownBase
<1>3. ASSUME NEW v \in Vars, NEW w \in Vars, Assign(v, w)
      PROVE  Base'
  BY <1>3, AssignBase
<1>4. ASSUME NEW v \in Vars, NEW k \in Keys, Remove(v, k)
      PROVE  Base'
  BY <1>4, RemoveBase
<1>5. ASSUME NEW v \in Vars, NEW k \in Keys, NEW x \in Values, Put(v, k, x)
      PROVE  Base'
  BY <1>5, PutCallBase
<1>6. CASE Copy
  BY <1>6, CopyBase
<1>7. CASE FinishRehash
  BY <1>7, FinishRehashBase
<1>8. CASE Reinsert
  BY <1>8, ReinsertBase
<1>9. CASE FinishRemove
  BY <1>9, NoFrameFits DEF FinishRemove, Base
<1>10. CASE UNCHANGED vars
  BY <1>10 DEF vars, Base, Growing
<1> QED BY <1>1, <1>2, <1>3, <1>4, <1>5, <1>6, <1>7, <1>8, <1>9, <1>10 DEF Next, Calling, Running

-----------------------------------------------------------------------------
(* Soundness, while growth succeeds. *)

(* No more than three quarters full, every key once, every entry on its    *)
(* chain or in S.                                                          *)
Good(t, S) == 4 * t.count <= 3 * t.size /\ Unique(t) /\ Chained(t, S)

(* What come_map_remove has yet to put back into table n is the run at its *)
(* next slot.                                                              *)
Waiting(n) ==
  IF pc = "reinsert" /\ n = frame.m THEN Run(heap[n], frame.next) ELSE {}

(* No table grows in the middle of a removal, and no probe goes round.     *)
Sound ==
  /\ \A n \in DOMAIN heap : Good(heap[n], Waiting(n))
  /\ pc # "spin"
  /\ pc = "copy" => frame.cell \in Vars
  /\ pc = "reinsert" => frame.cell = Local

LEMMA EmptyGood ==
  ASSUME NEW n \in 1 .. MaxSize, NEW c \in Contexts
  PROVE  Good(EmptyTable(n, c), {})
<1>1. PICK t \in Tables : t = EmptyTable(n, c) /\ t.count = 0 /\ Occupied(t) = {} /\ t.size \in Nat
  BY EmptyIsTable, CapacityAssumption
<1>2. Good(t, {})
  BY <1>1 DEF Good, Unique, Chained
<1> QED BY <1>1, <1>2

(* A table whose load is low has room, and stays good when it is used.     *)
LEMMA StoreGood ==
  ASSUME NEW t \in Tables, NEW e \in Entry, NEW S, Good(t, S), ~OverLoad(t),
         S = {} \/ \A s \in Occupied(t) : t.slot[s].key # e.key
  PROVE  Stops(t, e.key) # {} /\ Good(Store(t, e), S)
<1>1. t.size \in Nat \ {0} /\ t.count \in 0 .. t.size /\ 4 * (t.count + 1) <= 3 * t.size
  BY TableFields DEF OverLoad
<1>2. Stops(t, e.key) # {}
  <2>1. t.count < t.size
    BY <1>1
  <2>2. PICK s \in Slots(t) : t.slot[s] = NoEntry
    BY <2>1, Counting
  <2> QED BY <2>2, StopsSomewhere DEF Entry
<1>3. PICK u \in Tables : u = Store(t, e)
  BY <1>2, StoreTable
<1>4. u.size = t.size /\ u.count \in {t.count, t.count + 1}
  BY <1>2, <1>3, StoreTable
<1>5. 4 * u.count <= 3 * u.size
  BY <1>1, <1>4
<1>6. Unique(u) /\ Chained(u, S)
  BY <1>2, <1>3, StoreKeeps DEF Good
<1> QED BY <1>2, <1>3, <1>5, <1>6 DEF Good

LEMMA ChownGood ==
  ASSUME NEW t \in Tables, NEW c \in Contexts, NEW S, Good(t, S)
  PROVE  Good([t EXCEPT !.owner = c], S)
<1>1. PICK u \in Tables : /\ u = [t EXCEPT !.owner = c]
                          /\ u.size = t.size /\ u.count = t.count /\ u.slot = t.slot
                          /\ Occupied(u) = Occupied(t)
  BY ChownTable
<1>2. Unique(u) /\ Chained(u, S)
  BY <1>1 DEF Good, Unique, Chained, OnChain, Far, Slots
<1> QED BY <1>1, <1>2 DEF Good

(* A put whose table has a low load stores, and returns to its caller.     *)
LEMMA StoreReturns ==
  ASSUME NEW h \in Seq(Tables), NEW f \in Frame, f.m \in DOMAIN h, f.entry \in Entry,
         Stops(h[f.m], f.entry.key) # {}, StoreOrSpin(h, f)
  PROVE  /\ heap' \in Seq(Tables) /\ DOMAIN heap' = DOMAIN h /\ Len(heap') = Len(h)
         /\ heap'[f.m] = Store(h[f.m], f.entry) /\ heap'[f.m] \in Tables
         /\ \A n \in DOMAIN h : n # f.m => heap'[n] = h[n]
         /\ f.cell # Local => pc' = "idle"
         /\ f.cell = Local =>
              /\ pc' = "reinsert" /\ frame'.m = f.m /\ frame'.cell = Local
              /\ frame'.next = (f.next + 1) % h[f.m].size
<1>1. PICK t \in Tables : t = h[f.m]
  BY ElementOfSeq
<1>2. Store(t, f.entry) \in Tables
  BY <1>1, StoreTable
<1>3. heap' = [h EXCEPT ![f.m] = Store(t, f.entry)]
  BY <1>1 DEF StoreOrSpin
<1>4. /\ heap' \in Seq(Tables) /\ DOMAIN heap' = DOMAIN h /\ Len(heap') = Len(h)
      /\ heap'[f.m] = Store(t, f.entry) /\ \A n \in DOMAIN h : n # f.m => heap'[n] = h[n]
  BY <1>2, <1>3, HeapExcept
<1>5. f.cell = Local =>
              /\ pc' = "reinsert" /\ frame'.m = f.m /\ frame'.cell = Local
              /\ frame'.next = (f.next + 1) % h[f.m].size
  <2>1. SUFFICES ASSUME f.cell = Local
                 PROVE  /\ pc' = "reinsert" /\ frame'.m = f.m /\ frame'.cell = Local
                        /\ frame'.next = (f.next + 1) % h[f.m].size
    OBVIOUS
  <2>2. PICK x : x = (f.next + 1) % h[f.m].size
    OBVIOUS
  <2>3. /\ pc' = "reinsert"
        /\ frame' = [f EXCEPT !.entry = NoEntry, !.i = 0, !.new = 0, !.next = x]
    BY <2>1, <2>2 DEF StoreOrSpin
  <2>4. frame'.m = f.m /\ frame'.cell = f.cell /\ frame'.next = x
    BY <2>3 DEF Frame
  <2> QED BY <2>1, <2>2, <2>3, <2>4
<1>6. f.cell # Local => pc' = "idle"
  BY DEF StoreOrSpin
<1> QED BY <1>1, <1>2, <1>4, <1>5, <1>6

(* The load of a table that rehash has made is low to the end of it.       *)
LEMMA CopyLoad ==
  ASSUME Base, Sound, pc = "copy"
  PROVE  ~OverLoad(heap[frame.new])
<1>1. PICK t \in Tables : t = heap[frame.m]
  BY HeapTables DEF Base
<1>2. PICK u \in Tables : u = heap[frame.new]
  BY HeapTables DEF Base, Growing
<1>3. /\ t.size \in Nat \ {0} /\ t.count \in 0 .. t.size /\ u.count \in 0 .. u.size
      /\ u.size = 2 * t.size /\ u.count <= t.count
  BY <1>1, <1>2, TableFields, CopyRoom DEF Base, Growing, NewSize
<1>4. 4 * t.count <= 3 * t.size
  BY <1>1 DEF Base, Sound, Good
<1>5. ~(4 * (u.count + 1) > 3 * u.size)
  BY <1>3, <1>4
<1> QED BY <1>2, <1>5 DEF OverLoad

(* A put of the program.                                                   *)
LEMMA PutGood ==
  ASSUME MayRunOut = FALSE,
         NEW h \in Seq(Tables), NEW f \in Frame, f.m \in DOMAIN h, f.entry \in Entry,
         f.cell \in Vars, \A n \in DOMAIN h : Good(h[n], {}), PutInto(h, f)
  PROVE  Sound'
<1>1. f.cell # Local
  BY LocalAssumption
<1>2. PICK t \in Tables : t = h[f.m]
  BY ElementOfSeq
<1>3. CASE ~OverLoad(t) /\ StoreOrSpin(h, f)
  <2>1. Good(t, {})
    BY <1>2
  <2>2. Stops(t, f.entry.key) # {} /\ Good(Store(t, f.entry), {})
    BY <1>3, <2>1, StoreGood
  <2>3. /\ DOMAIN heap' = DOMAIN h /\ pc' = "idle" /\ heap'[f.m] = Store(t, f.entry)
        /\ \A n \in DOMAIN h : n # f.m => heap'[n] = h[n]
    BY <1>1, <1>2, <1>3, <2>2, StoreReturns
  <2>4. \A n \in DOMAIN h : Good(heap'[n], {})
    BY <2>2, <2>3
  <2> QED BY <2>3, <2>4 DEF Sound, Waiting
<1>4. CASE /\ NewSize(t) <= MaxSize
           /\ heap' = Append(h, EmptyTable(NewSize(t), t.owner))
           /\ frame' = [f EXCEPT !.new = Len(h) + 1, !.i = 0]
           /\ pc' = "copy"
  <2>1. NewSize(t) \in 1 .. MaxSize /\ t.owner \in Contexts
    <3>1. t.size \in Nat \ {0} /\ t.owner \in Contexts
      BY TableFields
    <3> QED BY <1>4, <3>1, CapacityAssumption DEF NewSize
  <2>2. PICK u \in Tables : u = EmptyTable(NewSize(t), t.owner) /\ Good(u, {})
    BY <2>1, EmptyIsTable, EmptyGood
  <2>3. /\ DOMAIN heap' = 1 .. Len(h) + 1 /\ DOMAIN h = 1 .. Len(h) /\ Len(h) \in Nat
        /\ heap'[Len(h) + 1] = u /\ \A n \in DOMAIN h : heap'[n] = h[n]
    BY <1>4, <2>2, HeapAppend
  <2>4. \A n \in DOMAIN heap' : Good(heap'[n], {})
    BY <2>2, <2>3
  <2>5. frame'.cell = f.cell
    BY <1>4 DEF Frame
  <2> QED BY <1>4, <2>4, <2>5 DEF Sound, Waiting
<1> QED BY <1>2, <1>3, <1>4 DEF PutInto

LEMMA NewGood ==
  ASSUME Base, Sound, NEW v \in Vars, NEW c \in Contexts, New(v, c)
  PROVE  Sound'
<1>1. /\ heap \in Seq(Tables) /\ Len(heap) \in Nat /\ DOMAIN heap = 1 .. Len(heap)
      /\ pc = "idle" /\ pc' = "idle"
  BY HeapTables DEF Base, New
<1>2. \A n \in DOMAIN heap : Good(heap[n], {})
  BY <1>1 DEF Sound, Waiting
<1>3. CASE heap' = Append(heap, EmptyTable(InitialCapacity, c))
  <2>1. PICK t \in Tables : t = EmptyTable(InitialCapacity, c) /\ Good(t, {})
    BY EmptyIsTable, EmptyGood, CapacityAssumption
  <2>2. /\ DOMAIN heap' = 1 .. Len(heap) + 1
        /\ heap'[Len(heap) + 1] = t /\ \A n \in DOMAIN heap : heap'[n] = heap[n]
    BY <1>1, <1>3, <2>1, HeapAppend
  <2>3. \A n \in DOMAIN heap' : Good(heap'[n], {})
    BY <1>1, <1>2, <2>1, <2>2
  <2> QED BY <1>1, <2>3 DEF Sound, Waiting
<1>4. CASE heap' = heap
  BY <1>1, <1>2, <1>4 DEF Sound, Waiting
<1> QED BY <1>3, <1>4 DEF New

LEMMA ChownSound ==
  ASSUME Base, Sound, NEW v \in Vars, NEW c \in Contexts, Chown(v, c)
  PROVE  Sound'
<1>1. PICK m \in DOMAIN heap : m = ptr[v] /\ heap[m] \in Tables
  BY HeapTables DEF Chown
<1>2. PICK t \in Tables : t = [heap[m] EXCEPT !.owner = c]
  BY <1>1, ChownTable
<1>3. heap' = [heap EXCEPT ![m] = t] /\ heap \in Seq(Tables) /\ pc = "idle" /\ pc' = "idle"
  BY <1>1, <1>2 DEF Chown, Base
<1>4. \A n \in DOMAIN heap : Good(heap[n], {})
  BY <1>3 DEF Sound, Waiting
<1>5. Good(t, {})
  BY <1>1, <1>2, <1>4, ChownGood
<1>6. DOMAIN heap' = DOMAIN heap /\ heap'[m] = t /\ \A n \in DOMAIN heap : n # m => heap'[n] = heap[n]
  BY <1>3, HeapExcept
<1>7. \A n \in DOMAIN heap' : Good(heap'[n], {})
  BY <1>4, <1>5, <1>6
<1> QED BY <1>3, <1>7 DEF Sound, Waiting

(* A put of the program, on its map or on the new one that it makes. *)
PutFrame(v, k, x, m) ==
  [NoFrame EXCEPT !.cell = v, !.entry = [key |-> k, value |-> x], !.m = m]

NewHeap == Append(heap, EmptyTable(InitialCapacity, Root))

LEMMA PutFrameFields ==
  ASSUME NEW v \in Vars, NEW k \in Keys, NEW x \in Values, NEW m \in Nat
  PROVE  /\ PutFrame(v, k, x, m) \in Frame /\ PutFrame(v, k, x, m).m = m
         /\ PutFrame(v, k, x, m).cell = v
         /\ PutFrame(v, k, x, m).entry.key = k /\ PutFrame(v, k, x, m).entry.value = x
         /\ PutFrame(v, k, x, m).entry \in Entry
BY DEF PutFrame, Frame, NoFrame, Entry

LEMMA NewHeapFields ==
  ASSUME Base
  PROVE  /\ NewHeap \in Seq(Tables) /\ DOMAIN NewHeap = 1 .. Len(heap) + 1
         /\ Len(NewHeap) = Len(heap) + 1
         /\ NewHeap[Len(heap) + 1] = EmptyTable(InitialCapacity, Root)
         /\ \A n \in DOMAIN heap : NewHeap[n] = heap[n]
<1>1. EmptyTable(InitialCapacity, Root) \in Tables
  BY EmptyIsTable, CapacityAssumption, RootAssumption
<1> QED BY <1>1, HeapAppend DEF NewHeap, Base

LEMMA PutCases ==
  ASSUME Base, NEW v \in Vars, NEW k \in Keys, NEW x \in Values, Put(v, k, x)
  PROVE  /\ pc = "idle" /\ Len(heap) \in Nat
         /\ \/ /\ ptr[v] # 0 /\ ptr[v] \in DOMAIN heap /\ ptr' = ptr /\ ptr[v] \in Nat
               /\ PutInto(heap, PutFrame(v, k, x, ptr[v]))
            \/ /\ ptr[v] = 0 /\ ptr' = [ptr EXCEPT ![v] = Len(heap) + 1]
               /\ PutInto(NewHeap, PutFrame(v, k, x, Len(heap) + 1))
            \/ /\ ptr[v] = 0 /\ MayRunOut = TRUE
               /\ UNCHANGED vars
<1> DEFINE f == [NoFrame EXCEPT !.cell = v, !.entry = [key |-> k, value |-> x]]
<1>1. \A m : [f EXCEPT !.m = m] = PutFrame(v, k, x, m)
  BY DEF NoFrame, PutFrame
<1> HIDE DEF f
<1>2. ptr[v] # 0 => ptr[v] \in DOMAIN heap /\ ptr[v] \in Nat
  BY HeapTables
<1>3. Len(heap) \in Nat
  BY HeapTables
<1> QED BY <1>1, <1>2, <1>3, FlagAssumption DEF Put, NewHeap, f

LEMMA PutSound ==
  ASSUME MayRunOut = FALSE, Base, Sound,
         NEW v \in Vars, NEW k \in Keys, NEW x \in Values, Put(v, k, x)
  PROVE  Sound'
<1>1. /\ pc = "idle" /\ heap \in Seq(Tables) /\ Len(heap) \in Nat /\ DOMAIN heap = 1 .. Len(heap)
  BY HeapTables DEF Base, Put
<1>2. \A n \in DOMAIN heap : Good(heap[n], {})
  BY <1>1 DEF Sound, Waiting
<1>3. CASE ptr[v] \in DOMAIN heap /\ ptr[v] \in Nat /\ PutInto(heap, PutFrame(v, k, x, ptr[v]))
  <2>1. PICK f \in Frame : /\ f = PutFrame(v, k, x, ptr[v]) /\ f.m = ptr[v] /\ f.cell = v
                           /\ f.entry \in Entry
    <3>1. PICK f : f = PutFrame(v, k, x, ptr[v])
      OBVIOUS
    <3>2. PICK j \in Nat : j = ptr[v]
      BY <1>3
    <3>3. f = PutFrame(v, k, x, j)
      BY <3>1, <3>2
    <3>4. f \in Frame /\ f.m = j /\ f.cell = v /\ f.entry \in Entry
      BY <3>3, PutFrameFields
    <3> QED BY <3>1, <3>2, <3>4
  <2>2. PICK h \in Seq(Tables) : h = heap
    BY <1>1
  <2>3. PutInto(h, f) /\ f.m \in DOMAIN h /\ \A n \in DOMAIN h : Good(h[n], {})
    BY <1>2, <1>3, <2>1, <2>2
  <2> QED BY <2>1, <2>3, PutGood
<1>4. CASE PutInto(NewHeap, PutFrame(v, k, x, Len(heap) + 1))
  <2>1. PICK m \in Nat : m = Len(heap) + 1
    BY <1>1
  <2>2. PICK f \in Frame : /\ f = PutFrame(v, k, x, m) /\ f.m = m /\ f.cell = v
                           /\ f.entry \in Entry
    <3>1. PICK f : f = PutFrame(v, k, x, m)
      OBVIOUS
    <3>2. f \in Frame /\ f.m = m /\ f.cell = v /\ f.entry \in Entry
      BY <3>1, PutFrameFields
    <3> QED BY <3>1, <3>2
  <2>3. PICK h \in Seq(Tables) : h = NewHeap
    BY NewHeapFields
  <2>4. /\ DOMAIN h = 1 .. m /\ h[m] = EmptyTable(InitialCapacity, Root)
        /\ \A n \in DOMAIN heap : h[n] = heap[n]
    BY <2>1, <2>3, NewHeapFields
  <2>5. Good(h[m], {})
    BY <2>4, EmptyGood, CapacityAssumption, RootAssumption
  <2>6. \A n \in DOMAIN h : Good(h[n], {})
    BY <1>1, <1>2, <2>1, <2>4, <2>5
  <2>7. PutInto(h, f) /\ f.m \in DOMAIN h
    BY <1>4, <2>1, <2>2, <2>3, <2>4
  <2> QED BY <2>2, <2>6, <2>7, PutGood
<1> QED BY <1>3, <1>4, PutCases

LEMMA CopySound ==
  ASSUME Base, Sound, Copy
  PROVE  Sound'
<1>1. /\ DOMAIN heap' = DOMAIN heap /\ \A n \in DOMAIN heap : n # frame.new => heap'[n] = heap[n]
      /\ frame' = [frame EXCEPT !.i = frame.i + 1] /\ pc = "copy" /\ pc' = "copy" /\ frame \in Frame
  BY CopyStep DEF Copy, Base
<1>2. \A n \in DOMAIN heap : Good(heap[n], {})
  BY <1>1 DEF Sound, Waiting
<1>3. PICK u \in Tables : u = heap[frame.new] /\ frame.new \in DOMAIN heap
  BY <1>1, HeapTables DEF Base, Growing
<1>4. Good(heap'[frame.new], {})
  <2>1. CASE heap' = heap
    BY <1>2, <1>3, <2>1
  <2>2. CASE heap' # heap
    <3>1. PICK e \in Entry : e = heap[frame.m].slot[frame.i] /\ heap'[frame.new] = Store(u, e)
      BY <1>3, <2>2, CopyStep
    <3>2. ~OverLoad(u)
      BY <1>1, <1>3, CopyLoad
    <3>3. Good(u, {})
      BY <1>2, <1>3
    <3> QED BY <3>1, <3>2, <3>3, StoreGood
  <2> QED BY <2>1, <2>2
<1>5. \A n \in DOMAIN heap' : Good(heap'[n], {})
  BY <1>1, <1>2, <1>4
<1>6. frame'.cell = frame.cell
  BY <1>1 DEF Frame
<1> QED BY <1>1, <1>5, <1>6 DEF Sound, Waiting

LEMMA FinishRehashSound ==
  ASSUME Base, Sound, FinishRehash
  PROVE  Sound'
<1>1. /\ heap \in Seq(Tables) /\ pc = "copy" /\ frame \in Frame
      /\ frame.new \in DOMAIN heap /\ frame.new \in Nat
      /\ frame.entry \in Entry /\ frame.cell \in Vars
  BY FrameFields DEF FinishRehash, Base, Growing, Sound, Frame
<1>2. \A n \in DOMAIN heap : Good(heap[n], {})
  BY <1>1 DEF Sound, Waiting
<1>3. PICK g \in Frame : /\ g = [frame EXCEPT !.m = frame.new]
                         /\ g.m = frame.new /\ g.cell = frame.cell /\ g.entry = frame.entry
  <2>1. PICK g : g = [frame EXCEPT !.m = frame.new]
    OBVIOUS
  <2>2. g \in Frame /\ g.m = frame.new /\ g.cell = frame.cell /\ g.entry = frame.entry
    BY <1>1, <2>1 DEF Frame
  <2> QED BY <2>1, <2>2
<1>4. PICK h \in Seq(Tables) : h = heap
  BY <1>1
<1>5. PICK t \in Tables : t = h[g.m]
  BY <1>1, <1>3, <1>4, HeapTables
<1>6. ~OverLoad(t) /\ Good(t, {})
  BY <1>1, <1>2, <1>3, <1>4, <1>5, CopyLoad
<1>7. Stops(t, g.entry.key) # {} /\ Good(Store(t, g.entry), {})
  BY <1>1, <1>3, <1>6, StoreGood
<1>8. StoreOrSpin(h, g) /\ g.m \in DOMAIN h /\ g.entry \in Entry /\ g.cell # Local
  BY <1>1, <1>3, <1>4, LocalAssumption DEF FinishRehash
<1>9. /\ DOMAIN heap' = DOMAIN h /\ pc' = "idle" /\ heap'[g.m] = Store(t, g.entry)
      /\ \A n \in DOMAIN h : n # g.m => heap'[n] = h[n]
  BY <1>5, <1>7, <1>8, StoreReturns
<1>10. \A n \in DOMAIN heap' : Good(heap'[n], {})
  BY <1>2, <1>4, <1>7, <1>9
<1> QED BY <1>9, <1>10 DEF Sound, Waiting

(* A table from which slot x was cleared, with what waits behind x.        *)
LEMMA ClearGood ==
  ASSUME NEW t \in Tables, NEW x \in Occupied(t), NEW S, Good(t, S),
         S \in SUBSET Run(t, x)
  PROVE  /\ Good(Clear(t, x), Run(Clear(t, x), (x + 1) % t.size))
         /\ ~OverLoad(Clear(t, x))
         /\ \A s \in Occupied(Clear(t, x)) : Clear(t, x).slot[s].key # t.slot[x].key
<1>1. PICK u \in Tables : u = Clear(t, x) /\ u.size = t.size /\ u.count = t.count - 1
  BY ClearTable
<1>2. /\ t.size \in Nat /\ t.count \in Nat /\ 4 * t.count <= 3 * t.size
      /\ Unique(t) /\ Chained(t, Run(t, x))
  <2>1. t.size \in Nat /\ t.count \in 0 .. t.size
    BY TableFields
  <2> QED BY <2>1 DEF Good, Chained
<1>3. /\ Unique(u) /\ Chained(u, Run(u, (x + 1) % t.size))
      /\ \A s \in Occupied(u) : u.slot[s].key # t.slot[x].key
  BY <1>1, <1>2, ClearKeeps
<1>4. 4 * u.count <= 3 * u.size /\ ~(4 * (u.count + 1) > 3 * u.size)
  BY <1>1, <1>2
<1> QED BY <1>1, <1>3, <1>4 DEF Good, OverLoad

LEMMA RemoveSound ==
  ASSUME Base, Sound, NEW v \in Vars, NEW k \in Keys, Remove(v, k)
  PROVE  Sound'
<1>0. PICK m \in DOMAIN heap, t \in Tables : \E s : Clears(v, k, m, t, s)
  BY RemoveStep
<1>1. PICK s : Clears(v, k, m, t, s)
  BY <1>0
<1>2. \A n \in DOMAIN heap : Good(heap[n], {})
  BY <1>1 DEF Clears, Sound, Waiting
<1>3. Good(t, {}) /\ s \in Occupied(t)
  BY <1>1, <1>2 DEF Clears
<1>4. Good(Clear(t, s), Run(Clear(t, s), (s + 1) % t.size))
  BY <1>3, ClearGood
<1>5. \A n \in DOMAIN heap' : n # m => Good(heap'[n], {})
  BY <1>1, <1>2 DEF Clears
<1>6. Good(heap'[m], Run(heap'[m], frame'.next))
  BY <1>1, <1>4 DEF Clears
<1> QED BY <1>1, <1>5, <1>6 DEF Clears, Sound, Waiting

(* What is put back fits, and what waits behind it still does.             *)
LEMMA ReinsertStep ==
  ASSUME MayRunOut = FALSE, Base, Sound, Reinsert
  PROVE  \E m \in DOMAIN heap, t \in Tables, x \in Nat :
           /\ m = frame.m /\ t = heap[m] /\ x = frame.next /\ x \in Occupied(t)
           /\ t.slot[x] \in Entry /\ Stops(Clear(t, x), t.slot[x].key) # {}
           /\ Good(t, Run(t, x))
           /\ heap' \in Seq(Tables) /\ DOMAIN heap' = DOMAIN heap
           /\ heap'[m] = Store(Clear(t, x), t.slot[x])
           /\ \A n \in DOMAIN heap : n # m => heap'[n] = heap[n]
           /\ pc = "reinsert" /\ pc' = "reinsert" /\ ptr' = ptr
           /\ frame'.m = m /\ frame'.cell = Local /\ frame'.next = (x + 1) % t.size
<1>1. /\ heap \in Seq(Tables) /\ pc = "reinsert" /\ frame \in Frame
      /\ frame.m \in DOMAIN heap /\ frame.next \in Slots(heap[frame.m])
      /\ frame.cell = Local
  BY DEF Base, Sound, Reinsert
<1>2. PICK m \in DOMAIN heap : m = frame.m
  BY <1>1
<1>3. PICK t \in Tables : t = heap[m]
  BY HeapTables
<1>4. PICK x \in Nat : x = frame.next /\ x \in Slots(t)
  <2>1. Slots(t) = 0 .. t.size - 1
    BY TableFields
  <2> QED BY <1>1, <1>2, <1>3, <2>1
<1>5. x \in Occupied(t)
  BY <1>2, <1>3, <1>4 DEF Reinsert, Occupied
<1>6. PICK e \in Entry : e = t.slot[x]
  BY <1>5, EntryAt
<1>7. Good(t, Run(t, x))
  BY <1>1, <1>2, <1>3, <1>4 DEF Sound, Waiting
<1>8. PICK u \in Tables : u = Clear(t, x) /\ u.size = t.size
  BY <1>5, ClearTable, ZenonT(30)
<1>9. /\ Good(u, Run(u, (x + 1) % t.size)) /\ ~OverLoad(u)
      /\ \A s \in Occupied(u) : u.slot[s].key # e.key
  BY <1>5, <1>6, <1>7, <1>8, ClearGood
<1>10. Stops(u, e.key) # {}
  BY <1>9, StoreGood
<1>11. PICK h : h = [heap EXCEPT ![m] = u]
  OBVIOUS
<1>12. /\ h \in Seq(Tables) /\ DOMAIN h = DOMAIN heap /\ h[m] = u
       /\ \A n \in DOMAIN heap : n # m => h[n] = heap[n]
  BY <1>1, <1>11, HeapExcept
<1>13. PICK g : g = [frame EXCEPT !.entry = e]
  OBVIOUS
<1>14. g \in Frame /\ g.m = m /\ g.entry = e /\ g.cell = Local /\ g.next = x
  BY <1>1, <1>2, <1>4, <1>13 DEF Frame
<1>15. PutInto(h, g)
  BY <1>2, <1>3, <1>4, <1>6, <1>8, <1>11, <1>13 DEF Reinsert
<1>16. StoreOrSpin(h, g)
  BY <1>9, <1>12, <1>14, <1>15 DEF PutInto
<1>17. /\ heap' \in Seq(Tables) /\ DOMAIN heap' = DOMAIN h
       /\ heap'[m] = Store(u, e)
       /\ \A n \in DOMAIN h : n # m => heap'[n] = h[n]
       /\ pc' = "reinsert" /\ frame'.m = m /\ frame'.cell = Local
       /\ frame'.next = (x + 1) % u.size
  BY <1>10, <1>12, <1>14, <1>16, StoreReturns
<1>18. ptr' = ptr
  BY DEF Reinsert
<1> QED BY <1>1, <1>2, <1>3, <1>4, <1>5, <1>6, <1>7, <1>8, <1>10, <1>12, <1>17, <1>18, ZenonT(30)

LEMMA ReinsertSound ==
  ASSUME MayRunOut = FALSE, Base, Sound, Reinsert
  PROVE  Sound'
<1>1. PICK m \in DOMAIN heap, t \in Tables, x \in Nat :
           /\ m = frame.m /\ t = heap[m] /\ x = frame.next /\ x \in Occupied(t)
           /\ t.slot[x] \in Entry /\ Stops(Clear(t, x), t.slot[x].key) # {}
           /\ Good(t, Run(t, x))
           /\ heap' \in Seq(Tables) /\ DOMAIN heap' = DOMAIN heap
           /\ heap'[m] = Store(Clear(t, x), t.slot[x])
           /\ \A n \in DOMAIN heap : n # m => heap'[n] = heap[n]
           /\ pc = "reinsert" /\ pc' = "reinsert" /\ ptr' = ptr
           /\ frame'.m = m /\ frame'.cell = Local /\ frame'.next = (x + 1) % t.size
  BY ReinsertStep
<1>2. PICK e \in Entry : e = t.slot[x]
  BY <1>1
<1>3. PICK u \in Tables : u = Clear(t, x)
  BY <1>1, ClearTable
<1>4. PICK z : z = (x + 1) % t.size
  OBVIOUS
<1>5. /\ Good(u, Run(u, z)) /\ ~OverLoad(u) /\ \A s \in Occupied(u) : u.slot[s].key # e.key
  BY <1>1, <1>2, <1>3, <1>4, ClearGood
<1>6. Stops(u, e.key) # {} /\ Good(Store(u, e), Run(u, z))
  BY <1>5, StoreGood
<1>7. Run(u, z) \in SUBSET Run(Store(u, e), z)
  BY <1>6, StoreRuns
<1>8. Good(Store(u, e), Run(Store(u, e), z))
  BY <1>6, <1>7 DEF Good, Chained
<1>9. Good(heap'[m], Run(heap'[m], frame'.next))
  BY <1>1, <1>2, <1>3, <1>4, <1>8
<1>10. \A n \in DOMAIN heap' : n # m => Good(heap'[n], {})
  BY <1>1 DEF Sound, Waiting
<1> QED BY <1>1, <1>9, <1>10 DEF Sound, Waiting

LEMMA FinishRemoveSound ==
  ASSUME Base, Sound, FinishRemove
  PROVE  Sound'
<1>1. PICK m \in DOMAIN heap : m = frame.m /\ heap[m] \in Tables
  BY HeapTables DEF Base, FinishRemove
<1>2. frame.next \in Slots(heap[m]) /\ heap[m].slot[frame.next] = NoEntry
  BY <1>1 DEF Base, FinishRemove
<1>3. Run(heap[m], frame.next) = {}
  BY <1>1, <1>2, RunEnds
<1>4. \A n \in DOMAIN heap : Good(heap[n], {})
  BY <1>1, <1>3 DEF Sound, Waiting
<1> QED BY <1>4 DEF FinishRemove, Sound, Waiting

LEMMA InitSound == Init => Sound
BY DEF Init, Sound

LEMMA StepSound ==
  ASSUME MayRunOut = FALSE
  PROVE  Base /\ Sound /\ [Next]_vars => Sound'
<1> SUFFICES ASSUME Base, Sound, [Next]_vars
             PROVE  Sound'
  OBVIOUS
<1>1. ASSUME NEW v \in Vars, NEW c \in Contexts, New(v, c)
      PROVE  Sound'
  BY <1>1, NewGood
<1>2. ASSUME NEW v \in Vars, NEW c \in Contexts, Chown(v, c)
      PROVE  Sound'
  BY <1>2, ChownSound
<1>3. ASSUME NEW v \in Vars, NEW w \in Vars, Assign(v, w)
      PROVE  Sound'
  BY <1>3 DEF Assign, Sound, Waiting
<1>4. ASSUME NEW v \in Vars, NEW k \in Keys, Remove(v, k)
      PROVE  Sound'
  BY <1>4, RemoveSound
<1>5. ASSUME NEW v \in Vars, NEW k \in Keys, NEW x \in Values, Put(v, k, x)
      PROVE  Sound'
  BY <1>5, PutSound
<1>6. CASE Copy
  BY <1>6, CopySound
<1>7. CASE FinishRehash
  BY <1>7, FinishRehashSound
<1>8. CASE Reinsert
  BY <1>8, ReinsertSound
<1>9. CASE FinishRemove
  BY <1>9, FinishRemoveSound
<1>10. CASE UNCHANGED vars
  BY <1>10 DEF vars, Sound, Waiting
<1> QED BY <1>1, <1>2, <1>3, <1>4, <1>5, <1>6, <1>7, <1>8, <1>9, <1>10 DEF Next, Calling, Running

(* The number come_map_len answers is that of the entries, in every table, *)
(* at every step of every loop, also when allocations fail.                *)
THEOREM MapCountsRight ==
  Spec => [](\A n \in DOMAIN heap : heap[n].count = Cardinality(Occupied(heap[n])))
<1>1. Base => \A n \in DOMAIN heap : heap[n].count = Cardinality(Occupied(heap[n]))
  BY HeapTables DEF Tables
<1> QED BY <1>1, InitBase, StepBase, PTL DEF Spec

(* The invariant of a program whose allocations succeed.                   *)
THEOREM MapInductive ==
  ASSUME MayRunOut = FALSE
  PROVE  Spec => [](Base /\ Sound)
<1>1. Base /\ Sound /\ [Next]_vars => Base' /\ Sound'
  BY StepBase, StepSound
<1> QED BY <1>1, InitBase, InitSound, PTL DEF Spec

(* While tables can grow, a probe of come_map_put, come_map_get or         *)
(* come_map_remove meets a free slot, and the puts of rehash need no       *)
(* rehash of their own.                                                    *)
THEOREM MapHasRoom ==
  ASSUME MayRunOut = FALSE
  PROVE  Spec => []RoomLeft
<1>1. ASSUME Base, Sound
      PROVE  RoomLeft
  <2>1. ASSUME NEW n \in DOMAIN heap
        PROVE  Occupied(heap[n]) # Slots(heap[n])
    <3>1. PICK t \in Tables : t = heap[n]
      BY <1>1, HeapTables
    <3>2. t.size \in Nat \ {0} /\ t.count \in 0 .. t.size
      BY TableFields
    <3>3. 4 * t.count <= 3 * t.size
      BY <1>1, <3>1 DEF Sound, Good
    <3>4. t.count < t.size
      BY <3>2, <3>3
    <3>5. PICK s \in Slots(t) : t.slot[s] = NoEntry
      BY <3>4, Counting
    <3> QED BY <3>1, <3>5 DEF Occupied
  <2>2. pc = "copy" => ~OverLoad(heap[frame.new])
    BY <1>1, CopyLoad
  <2> QED BY <2>1, <2>2 DEF RoomLeft
<1> QED BY <1>1, MapInductive, PTL

-----------------------------------------------------------------------------
(* Soundness of the tables that are not torn, also when growth fails.      *)

(* Every key once, every entry on its chain or in S.                       *)
Fine(t, S) == Unique(t) /\ Chained(t, S)

(* The tables that come_map_remove never left for a grown one are whole,   *)
(* and so is the one that rehash fills, whatever it copies from.           *)
Whole ==
  /\ torn \in SUBSET (DOMAIN heap)
  /\ \A n \in DOMAIN heap : n \notin torn => Fine(heap[n], Waiting(n))
  /\ pc = "copy" => frame.new \notin torn
  /\ pc = "reinsert" => frame.cell = Local

LEMMA EmptyFine ==
  ASSUME NEW n \in 1 .. MaxSize, NEW c \in Contexts
  PROVE  Fine(EmptyTable(n, c), {})
BY EmptyGood DEF Good, Fine

(* A put on a table, of the program or of the loop of come_map_remove,     *)
(* which leaves the table torn if it has to grow.                          *)
LEMMA PutFine ==
  ASSUME NEW h \in Seq(Tables), NEW f \in Frame, f.m \in DOMAIN h, f.entry \in Entry,
         torn \in SUBSET (DOMAIN h),
         \A n \in DOMAIN h : n \notin torn /\ n # f.m => Fine(h[n], {}),
         NEW S, f.m \notin torn => Fine(h[f.m], S),
         \/ f.cell # Local /\ S = {}
         \/ /\ f.cell = Local /\ S = Run(h[f.m], (f.next + 1) % h[f.m].size)
            /\ Stops(h[f.m], f.entry.key) # {}
            /\ f.m \notin torn =>
                 \A s \in Occupied(h[f.m]) : h[f.m].slot[s].key # f.entry.key,
         PutInto(h, f)
  PROVE  Whole'
<1>1. PICK t \in Tables : t = h[f.m]
  BY ElementOfSeq
<1>2. CASE StoreOrSpin(h, f) /\ Stops(t, f.entry.key) # {}
  <2>1. /\ DOMAIN heap' = DOMAIN h /\ heap'[f.m] = Store(t, f.entry)
        /\ \A n \in DOMAIN h : n # f.m => heap'[n] = h[n]
        /\ f.cell # Local => pc' = "idle"
        /\ f.cell = Local =>
             /\ pc' = "reinsert" /\ frame'.m = f.m /\ frame'.cell = Local
             /\ frame'.next = (f.next + 1) % t.size
    BY <1>1, <1>2, StoreReturns
  <2>2. PICK u \in Tables : u = Store(t, f.entry)
    BY <1>2, StoreTable
  <2>3. ASSUME f.m \notin torn
        PROVE  Fine(u, S)
    <3>1. PICK y : y = StopSlot(t, f.entry.key)
      OBVIOUS
    <3>2. S = {} \/ \A s \in Occupied(t) : t.slot[s].key # f.entry.key
      BY <1>1, <2>3
    <3>3. Unique(t) /\ Chained(t, S)
      BY <1>1, <2>3 DEF Fine
    <3>4. Unique(u) /\ Chained(u, S)
      BY <1>2, <2>2, <3>1, <3>2, <3>3, StoreKeeps
    <3> QED BY <3>4 DEF Fine
  <2>4. torn' = torn
    BY <1>2 DEF StoreOrSpin
  <2>5. CASE f.cell # Local /\ S = {}
    <3>1. \A n \in DOMAIN heap' : n \notin torn' => Fine(heap'[n], {})
      BY <2>1, <2>2, <2>3, <2>4, <2>5
    <3> QED BY <2>1, <2>4, <2>5, <3>1 DEF Whole, Waiting
  <2>6. CASE f.cell = Local /\ S = Run(t, (f.next + 1) % t.size)
    <3>1. PICK x : x = (f.next + 1) % t.size
      OBVIOUS
    <3>2. Run(t, x) \in SUBSET Run(u, x)
      BY <1>2, <2>2, StoreRuns
    <3>3. f.m \notin torn => Fine(u, Run(u, x))
      BY <2>3, <2>6, <3>1, <3>2 DEF Fine, Chained
    <3>4. \A n \in DOMAIN heap' : n \notin torn' /\ n # f.m => Fine(heap'[n], {})
      BY <2>1, <2>4
    <3>5. f.m \notin torn' => Fine(heap'[f.m], Run(heap'[f.m], frame'.next))
      BY <2>1, <2>2, <2>4, <2>6, <3>1, <3>3
    <3> QED BY <2>1, <2>4, <2>6, <3>4, <3>5 DEF Whole, Waiting
  <2> QED BY <1>1, <2>5, <2>6
<1>3. CASE StoreOrSpin(h, f) /\ Stops(t, f.entry.key) = {}
  <2>1. heap' = h /\ pc' = "spin" /\ torn' = torn /\ S = {}
    BY <1>1, <1>3 DEF StoreOrSpin
  <2> QED BY <2>1 DEF Whole, Waiting
<1>4. CASE /\ NewSize(t) <= MaxSize
           /\ heap' = Append(h, EmptyTable(NewSize(t), t.owner))
           /\ frame' = [f EXCEPT !.new = Len(h) + 1, !.i = 0]
           /\ pc' = "copy"
           /\ torn' = IF f.cell = Local THEN torn \cup {f.m} ELSE torn
  <2>1. NewSize(t) \in 1 .. MaxSize /\ t.owner \in Contexts
    <3>1. t.size \in Nat \ {0} /\ t.owner \in Contexts
      BY TableFields
    <3> QED BY <1>4, <3>1, CapacityAssumption DEF NewSize
  <2>2. PICK u \in Tables : u = EmptyTable(NewSize(t), t.owner) /\ Fine(u, {})
    BY <2>1, EmptyIsTable, EmptyFine
  <2>3. /\ DOMAIN heap' = 1 .. Len(h) + 1 /\ DOMAIN h = 1 .. Len(h) /\ Len(h) \in Nat
        /\ heap'[Len(h) + 1] = u /\ \A n \in DOMAIN h : heap'[n] = h[n]
    BY <1>4, <2>2, HeapAppend
  <2>4. torn' \in SUBSET (DOMAIN h) /\ torn \in SUBSET torn'
    BY <1>4
  <2>5. \A n \in DOMAIN heap' : n \notin torn' => Fine(heap'[n], {})
    <3>1. f.m \in torn' \/ (f.m \notin torn => Fine(h[f.m], {}))
      BY <1>4
    <3>2. \A n \in DOMAIN h : n \notin torn' => Fine(h[n], {})
      BY <2>4, <3>1
    <3> QED BY <2>2, <2>3, <3>2
  <2>6. frame'.new = Len(h) + 1
    BY <1>4, <2>3 DEF Frame
  <2>7. torn' \in SUBSET (DOMAIN heap') /\ Len(h) + 1 \notin torn'
    BY <2>3, <2>4
  <2> QED BY <1>4, <2>5, <2>6, <2>7 DEF Whole, Waiting
<1> QED BY <1>1, <1>2, <1>3, <1>4 DEF PutInto

LEMMA NewWhole ==
  ASSUME Base, Whole, NEW v \in Vars, NEW c \in Contexts, New(v, c)
  PROVE  Whole'
<1>1. /\ heap \in Seq(Tables) /\ Len(heap) \in Nat /\ DOMAIN heap = 1 .. Len(heap)
      /\ pc = "idle" /\ pc' = "idle" /\ torn' = torn /\ torn \in SUBSET (DOMAIN heap)
  BY HeapTables DEF Base, New, Whole
<1>2. \A n \in DOMAIN heap : n \notin torn => Fine(heap[n], {})
  BY <1>1 DEF Whole, Waiting
<1>3. CASE heap' = Append(heap, EmptyTable(InitialCapacity, c))
  <2>1. PICK t \in Tables : t = EmptyTable(InitialCapacity, c) /\ Fine(t, {})
    BY EmptyIsTable, EmptyFine, CapacityAssumption
  <2>2. /\ DOMAIN heap' = 1 .. Len(heap) + 1
        /\ heap'[Len(heap) + 1] = t /\ \A n \in DOMAIN heap : heap'[n] = heap[n]
    BY <1>1, <1>3, <2>1, HeapAppend
  <2>3. \A n \in DOMAIN heap' : n \notin torn' => Fine(heap'[n], {})
    BY <1>1, <1>2, <2>1, <2>2
  <2>4. torn' \in SUBSET (DOMAIN heap')
    BY <1>1, <2>2
  <2> QED BY <1>1, <2>3, <2>4 DEF Whole, Waiting
<1>4. CASE heap' = heap
  BY <1>1, <1>2, <1>4 DEF Whole, Waiting
<1> QED BY <1>3, <1>4 DEF New

LEMMA ChownWhole ==
  ASSUME Base, Whole, NEW v \in Vars, NEW c \in Contexts, Chown(v, c)
  PROVE  Whole'
<1>1. PICK m \in DOMAIN heap : m = ptr[v] /\ heap[m] \in Tables
  BY HeapTables DEF Chown
<1>2. PICK t \in Tables : /\ t = [heap[m] EXCEPT !.owner = c] /\ t.slot = heap[m].slot
                          /\ t.size = heap[m].size /\ Occupied(t) = Occupied(heap[m])
  <2>1. PICK r \in Tables : r = heap[m]
    BY <1>1
  <2>2. PICK t : t = [r EXCEPT !.owner = c]
    OBVIOUS
  <2>3. t \in Tables /\ t.slot = r.slot /\ t.size = r.size /\ Occupied(t) = Occupied(r)
    BY <2>2, ChownTable
  <2> QED BY <2>1, <2>2, <2>3
<1>3. /\ heap' = [heap EXCEPT ![m] = t] /\ heap \in Seq(Tables)
      /\ pc = "idle" /\ pc' = "idle" /\ torn' = torn
  BY <1>1, <1>2 DEF Chown, Base
<1>4. \A n \in DOMAIN heap : n \notin torn => Fine(heap[n], {})
  BY <1>3 DEF Whole, Waiting
<1>5. m \notin torn => Fine(t, {})
  <2>1. ASSUME Fine(heap[m], {})
        PROVE  Fine(t, {})
    BY <1>2, <2>1 DEF Fine, Unique, Chained, OnChain, Far, Slots
  <2> QED BY <1>1, <1>4, <2>1
<1>6. DOMAIN heap' = DOMAIN heap /\ heap'[m] = t /\ \A n \in DOMAIN heap : n # m => heap'[n] = heap[n]
  BY <1>3, HeapExcept
<1>7. \A n \in DOMAIN heap' : n \notin torn' => Fine(heap'[n], {})
  BY <1>3, <1>4, <1>5, <1>6
<1> QED BY <1>3, <1>6, <1>7 DEF Whole, Waiting

LEMMA PutWhole ==
  ASSUME Base, Whole, NEW v \in Vars, NEW k \in Keys, NEW x \in Values, Put(v, k, x)
  PROVE  Whole'
<1>1. /\ pc = "idle" /\ heap \in Seq(Tables) /\ Len(heap) \in Nat /\ DOMAIN heap = 1 .. Len(heap)
      /\ torn \in SUBSET (DOMAIN heap)
  BY HeapTables DEF Base, Put, Whole
<1>2. \A n \in DOMAIN heap : n \notin torn => Fine(heap[n], {})
  BY <1>1 DEF Whole, Waiting
<1>3. ASSUME NEW h \in Seq(Tables), NEW m \in Nat, m \in DOMAIN h,
             torn \in SUBSET (DOMAIN h),
             \A n \in DOMAIN h : n \notin torn => Fine(h[n], {}),
             PutInto(h, PutFrame(v, k, x, m))
      PROVE  Whole'
  <2>1. PICK f : f = PutFrame(v, k, x, m)
    OBVIOUS
  <2>2. f \in Frame /\ f.m = m /\ f.cell # Local /\ f.entry \in Entry
    BY <2>1, PutFrameFields, LocalAssumption
  <2>3. PutInto(h, f)
    BY <1>3, <2>1
  <2>4. PICK S : S = {}
    OBVIOUS
  <2> QED BY <1>3, <2>2, <2>3, <2>4, PutFine
<1>4. CASE ptr[v] \in DOMAIN heap /\ ptr[v] \in Nat /\ PutInto(heap, PutFrame(v, k, x, ptr[v]))
  <2>1. PICK h \in Seq(Tables) : h = heap
    BY <1>1
  <2>2. PICK m \in Nat : m = ptr[v]
    BY <1>4
  <2>3. m \in DOMAIN h /\ PutInto(h, PutFrame(v, k, x, m))
    BY <1>4, <2>1, <2>2
  <2> QED BY <1>1, <1>2, <1>3, <2>1, <2>3
<1>5. CASE PutInto(NewHeap, PutFrame(v, k, x, Len(heap) + 1))
  <2>1. PICK m \in Nat : m = Len(heap) + 1
    BY <1>1
  <2>2. PICK h \in Seq(Tables) : h = NewHeap
    BY NewHeapFields
  <2>3. /\ DOMAIN h = 1 .. m /\ h[m] = EmptyTable(InitialCapacity, Root)
        /\ \A n \in DOMAIN heap : h[n] = heap[n]
    BY <2>1, <2>2, NewHeapFields
  <2>4. Fine(h[m], {})
    BY <2>3, EmptyFine, CapacityAssumption, RootAssumption
  <2>5. \A n \in DOMAIN h : n \notin torn => Fine(h[n], {})
    BY <1>1, <1>2, <2>1, <2>3, <2>4
  <2>6. m \in DOMAIN h /\ PutInto(h, PutFrame(v, k, x, m)) /\ torn \in SUBSET (DOMAIN h)
    BY <1>1, <1>5, <2>1, <2>2, <2>3
  <2> QED BY <1>3, <2>5, <2>6
<1>6. CASE UNCHANGED vars
  BY <1>6 DEF vars, Whole, Waiting
<1> QED BY <1>4, <1>5, <1>6, PutCases

LEMMA CopyWhole ==
  ASSUME Base, Whole, Copy
  PROVE  Whole'
<1>1. /\ DOMAIN heap' = DOMAIN heap /\ \A n \in DOMAIN heap : n # frame.new => heap'[n] = heap[n]
      /\ frame' = [frame EXCEPT !.i = frame.i + 1] /\ pc = "copy" /\ pc' = "copy"
      /\ frame \in Frame /\ torn' = torn
  BY CopyStep DEF Copy, Base
<1>2. \A n \in DOMAIN heap : n \notin torn => Fine(heap[n], {})
  BY <1>1 DEF Whole, Waiting
<1>3. PICK u \in Tables : u = heap[frame.new] /\ frame.new \in DOMAIN heap
  BY <1>1, HeapTables DEF Base, Growing
<1>4. Fine(u, {}) /\ frame.new \notin torn
  BY <1>1, <1>2, <1>3 DEF Whole
<1>5. Fine(heap'[frame.new], {})
  <2>1. CASE heap' = heap
    BY <1>3, <1>4, <2>1
  <2>2. CASE heap' # heap
    <3>1. PICK e \in Entry : /\ e = heap[frame.m].slot[frame.i] /\ Stops(u, e.key) # {}
                             /\ heap'[frame.new] = Store(u, e)
      BY <1>3, <2>2, CopyStep
    <3>2. PICK w : w = Store(u, e)
      OBVIOUS
    <3>3. PICK S : S = {}
      OBVIOUS
    <3>4. Unique(w) /\ Chained(w, S)
      BY <1>4, <3>1, <3>2, <3>3, StoreKeeps DEF Fine
    <3> QED BY <3>1, <3>2, <3>3, <3>4 DEF Fine
  <2> QED BY <2>1, <2>2
<1>6. \A n \in DOMAIN heap' : n \notin torn' => Fine(heap'[n], {})
  BY <1>1, <1>2, <1>5
<1>7. frame'.new = frame.new
  BY <1>1 DEF Frame
<1> QED BY <1>1, <1>4, <1>6, <1>7 DEF Whole, Waiting

LEMMA FinishRehashWhole ==
  ASSUME Base, Whole, FinishRehash
  PROVE  Whole'
<1>1. /\ heap \in Seq(Tables) /\ pc = "copy" /\ frame \in Frame
      /\ frame.new \in DOMAIN heap /\ frame.new \in Nat
      /\ frame.entry \in Entry /\ frame.new \notin torn
  BY FrameFields DEF FinishRehash, Base, Growing, Whole, Frame
<1>2. \A n \in DOMAIN heap : n \notin torn => Fine(heap[n], {})
  BY <1>1 DEF Whole, Waiting
<1>3. PICK g \in Frame : /\ g = [frame EXCEPT !.m = frame.new]
                         /\ g.m = frame.new /\ g.entry = frame.entry
  <2>1. PICK g : g = [frame EXCEPT !.m = frame.new]
    OBVIOUS
  <2>2. g \in Frame /\ g.m = frame.new /\ g.entry = frame.entry
    BY <1>1, <2>1 DEF Frame
  <2> QED BY <2>1, <2>2
<1>4. PICK h \in Seq(Tables) : h = heap
  BY <1>1
<1>5. PICK t \in Tables : t = h[g.m]
  BY <1>1, <1>3, <1>4, HeapTables
<1>6. Stops(t, g.entry.key) # {}
  <2>1. t.count < t.size
    BY <1>1, <1>3, <1>4, <1>5, CopyRoom
  <2>2. PICK s \in Slots(t) : t.slot[s] = NoEntry
    BY <2>1, Counting
  <2> QED BY <1>1, <1>3, <2>2, StopsSomewhere DEF Entry
<1>7. PICK u \in Tables : u = Store(t, g.entry)
  BY <1>1, <1>3, <1>6, StoreTable
<1>8. \A S : Fine(u, S)
  <2>1. Fine(t, {})
    BY <1>1, <1>2, <1>3, <1>4, <1>5
  <2>2. Unique(u) /\ Chained(u, {})
    BY <1>1, <1>3, <1>6, <1>7, <2>1, StoreKeeps DEF Fine
  <2> QED BY <2>2 DEF Fine, Chained
<1>9. StoreOrSpin(h, g) /\ g.m \in DOMAIN h /\ g.entry \in Entry
  BY <1>1, <1>3, <1>4 DEF FinishRehash
<1>10. /\ DOMAIN heap' = DOMAIN h /\ heap'[g.m] = u
       /\ \A n \in DOMAIN h : n # g.m => heap'[n] = h[n]
       /\ pc' = "idle" \/ (pc' = "reinsert" /\ frame'.m = g.m /\ frame'.cell = Local)
  BY <1>5, <1>6, <1>7, <1>9, StoreReturns
<1>11. torn' = torn
  BY <1>9 DEF StoreOrSpin
<1>12. \A n \in DOMAIN heap' : n \notin torn' /\ n # g.m => Fine(heap'[n], {})
  BY <1>2, <1>4, <1>10, <1>11
<1>13. \A S : Fine(heap'[g.m], S)
  BY <1>8, <1>10
<1>14. torn' \in SUBSET (DOMAIN heap')
  BY <1>4, <1>10, <1>11 DEF Whole
<1> QED BY <1>10, <1>12, <1>13, <1>14 DEF Whole, Waiting

LEMMA RemoveWhole ==
  ASSUME Base, Whole, NEW v \in Vars, NEW k \in Keys, Remove(v, k)
  PROVE  Whole'
<1>0. PICK m \in DOMAIN heap, t \in Tables : \E s : Clears(v, k, m, t, s)
  BY RemoveStep
<1>1. PICK s : Clears(v, k, m, t, s)
  BY <1>0
<1>2. torn' = torn
  BY DEF Remove
<1>3. \A n \in DOMAIN heap : n \notin torn => Fine(heap[n], {})
  BY <1>1 DEF Clears, Whole, Waiting
<1>4. \A n \in DOMAIN heap' : n \notin torn' /\ n # m => Fine(heap'[n], {})
  BY <1>1, <1>2, <1>3 DEF Clears
<1>5. ASSUME m \notin torn
      PROVE  Fine(heap'[m], Run(heap'[m], frame'.next))
  <2>1. PICK u : u = Clear(t, s)
    OBVIOUS
  <2>2. s \in Occupied(t) /\ Unique(t) /\ Chained(t, Run(t, s))
    BY <1>1, <1>3, <1>5 DEF Clears, Fine, Chained
  <2>3. Unique(u) /\ Chained(u, Run(u, (s + 1) % t.size))
    BY <2>1, <2>2, ClearKeeps
  <2> QED BY <1>1, <2>1, <2>3 DEF Clears, Fine
<1>6. torn' \in SUBSET (DOMAIN heap') /\ pc' = "reinsert" /\ frame'.m = m /\ frame'.cell = Local
  BY <1>1, <1>2 DEF Clears, Whole
<1> QED BY <1>2, <1>4, <1>5, <1>6 DEF Whole, Waiting

LEMMA ReinsertWhole ==
  ASSUME Base, Whole, Reinsert
  PROVE  Whole'
<1>1. /\ heap \in Seq(Tables) /\ pc = "reinsert" /\ frame \in Frame
      /\ frame.m \in DOMAIN heap /\ frame.next \in Slots(heap[frame.m])
      /\ frame.cell = Local /\ torn \in SUBSET (DOMAIN heap)
  BY DEF Base, Whole, Reinsert
<1>2. PICK m \in DOMAIN heap : m = frame.m
  BY <1>1
<1>3. PICK t \in Tables : t = heap[m]
  BY HeapTables
<1>4. PICK x \in Nat : x = frame.next /\ x \in Slots(t)
  <2>1. Slots(t) = 0 .. t.size - 1
    BY TableFields
  <2> QED BY <1>1, <1>2, <1>3, <2>1
<1>5. x \in Occupied(t)
  BY <1>2, <1>3, <1>4 DEF Reinsert, Occupied
<1>6. PICK e \in Entry : e = t.slot[x] /\ e.key \in Keys
  BY <1>5, EntryAt
<1>7. PICK u \in Tables : /\ u = Clear(t, x) /\ u.size = t.size /\ Slots(u) = Slots(t)
                          /\ u.slot[x] = NoEntry
  <2>1. PICK u \in Tables : /\ u = Clear(t, x) /\ u.size = t.size /\ Slots(u) = Slots(t)
                            /\ u.slot = [t.slot EXCEPT ![x] = NoEntry]
    BY <1>5, ClearTable
  <2>2. t.slot \in [Slots(t) -> Entry \cup {NoEntry}]
    BY TableFields
  <2> QED BY <1>4, <2>1, <2>2
<1>8. Stops(u, e.key) # {}
  BY <1>4, <1>6, <1>7, StopsSomewhere
<1>9. ASSUME m \notin torn
      PROVE  Unique(t) /\ Chained(t, Run(t, x))
  BY <1>1, <1>2, <1>3, <1>4, <1>9 DEF Whole, Waiting, Fine
<1>10. PICK h : h = [heap EXCEPT ![m] = u]
  OBVIOUS
<1>11. /\ h \in Seq(Tables) /\ DOMAIN h = DOMAIN heap /\ h[m] = u
       /\ \A n \in DOMAIN heap : n # m => h[n] = heap[n]
  BY <1>1, <1>10, HeapExcept
<1>12. PICK g : g = [frame EXCEPT !.entry = e]
  OBVIOUS
<1>13. g \in Frame /\ g.m = m /\ g.entry = e /\ g.cell = Local /\ g.next = x
  BY <1>1, <1>2, <1>4, <1>12 DEF Frame
<1>14. PutInto(h, g)
  BY <1>2, <1>3, <1>4, <1>6, <1>7, <1>10, <1>12 DEF Reinsert
<1>15. \A n \in DOMAIN h : n \notin torn /\ n # g.m => Fine(h[n], {})
  BY <1>2, <1>11, <1>13 DEF Whole, Waiting
<1>16. PICK S : S = Run(u, (x + 1) % u.size)
  OBVIOUS
<1>17. /\ g.cell = Local /\ S = Run(h[g.m], (g.next + 1) % h[g.m].size)
       /\ Stops(h[g.m], g.entry.key) # {} /\ g.m \in DOMAIN h /\ g.entry \in Entry
       /\ torn \in SUBSET (DOMAIN h)
  BY <1>1, <1>8, <1>11, <1>13, <1>16
<1>18. g.m \notin torn =>
         /\ Fine(h[g.m], S)
         /\ \A s \in Occupied(h[g.m]) : h[g.m].slot[s].key # g.entry.key
  <2>1. SUFFICES ASSUME m \notin torn
                 PROVE  Fine(u, S) /\ \A s \in Occupied(u) : u.slot[s].key # e.key
    BY <1>11, <1>13
  <2>2. /\ Unique(u) /\ Chained(u, Run(u, (x + 1) % t.size))
        /\ \A s \in Occupied(u) : u.slot[s].key # t.slot[x].key
    BY <1>5, <1>7, <1>9, <2>1, ClearKeeps
  <2> QED BY <1>6, <1>7, <1>16, <2>2 DEF Fine
<1> QED BY <1>11, <1>13, <1>14, <1>15, <1>17, <1>18, PutFine

LEMMA FinishRemoveWhole ==
  ASSUME Base, Whole, FinishRemove
  PROVE  Whole'
<1>1. PICK m \in DOMAIN heap : m = frame.m /\ heap[m] \in Tables
  BY HeapTables DEF Base, FinishRemove
<1>2. frame.next \in Slots(heap[m]) /\ heap[m].slot[frame.next] = NoEntry
  BY <1>1 DEF Base, FinishRemove
<1>3. Run(heap[m], frame.next) = {}
  BY <1>1, <1>2, RunEnds
<1>4. \A n \in DOMAIN heap : n \notin torn => Fine(heap[n], {})
  BY <1>1, <1>3 DEF Whole, Waiting
<1> QED BY <1>4 DEF FinishRemove, Whole, Waiting

LEMMA InitWhole == Init => Whole
BY DEF Init, Whole

LEMMA StepWhole == Base /\ Whole /\ [Next]_vars => Whole'
<1> SUFFICES ASSUME Base, Whole, [Next]_vars
             PROVE  Whole'
  OBVIOUS
<1>1. ASSUME NEW v \in Vars, NEW c \in Contexts, New(v, c)
      PROVE  Whole'
  BY <1>1, NewWhole
<1>2. ASSUME NEW v \in Vars, NEW c \in Contexts, Chown(v, c)
      PROVE  Whole'
  BY <1>2, ChownWhole
<1>3. ASSUME NEW v \in Vars, NEW w \in Vars, Assign(v, w)
      PROVE  Whole'
  BY <1>3 DEF Assign, Whole, Waiting
<1>4. ASSUME NEW v \in Vars, NEW k \in Keys, Remove(v, k)
      PROVE  Whole'
  BY <1>4, RemoveWhole
<1>5. ASSUME NEW v \in Vars, NEW k \in Keys, NEW x \in Values, Put(v, k, x)
      PROVE  Whole'
  BY <1>5, PutWhole
<1>6. CASE Copy
  BY <1>6, CopyWhole
<1>7. CASE FinishRehash
  BY <1>7, FinishRehashWhole
<1>8. CASE Reinsert
  BY <1>8, ReinsertWhole
<1>9. CASE FinishRemove
  BY <1>9, FinishRemoveWhole
<1>10. CASE UNCHANGED vars
  BY <1>10 DEF vars, Whole, Waiting
<1> QED BY <1>1, <1>2, <1>3, <1>4, <1>5, <1>6, <1>7, <1>8, <1>9, <1>10 DEF Next, Calling, Running

(* The invariant of every program. *)
LEMMA MapWhole == Spec => [](Base /\ Whole)
<1>1. Base /\ Whole /\ [Next]_vars => Base' /\ Whole'
  BY StepBase, StepWhole
<1> QED BY <1>1, InitBase, InitWhole, PTL DEF Spec

(* Tables, pointers and locals are what map.c declares, also when          *)
(* allocations fail: no table is counted wrong, no table is indexed        *)
(* outside of it, and rehash finds room for all that it copies.            *)
THEOREM MapTypeCorrect == Spec => []TypeOK
<1>1. ASSUME Base, Whole
      PROVE  TypeOK
  <2>1. Len(heap) \in Nat /\ DOMAIN heap = 1 .. Len(heap) /\ \A n \in DOMAIN heap : heap[n] \in Tables
    BY <1>1, HeapTables
  <2>2. heap = [n \in 1 .. Len(heap) |-> heap[n]]
    BY <1>1, <2>1 DEF Base
  <2>3. ASSUME NEW n \in DOMAIN heap
        PROVE  \E size \in 1 .. MaxSize : heap[n] \in TableOf(size)
    BY <2>1 DEF Tables
  <2>4. torn \subseteq DOMAIN heap
    BY <1>1 DEF Whole
  <2> QED BY <1>1, <2>2, <2>3, <2>4 DEF Base, Growing, TypeOK
<1> QED BY <1>1, MapWhole, PTL

(* Also when tables cannot grow, no table that come_map_remove has not     *)
(* left for a grown one has a key twice or an entry that a probe for its   *)
(* key does not find, but what come_map_remove has yet to put back.        *)
THEOREM MapTablesSound == Spec => []TableSound
<1>1. ASSUME Base, Whole
      PROVE  TableSound
  <2> SUFFICES ASSUME NEW n \in DOMAIN heap
               PROVE  /\ heap[n].count = Cardinality(Occupied(heap[n]))
                      /\ n \notin torn =>
                           /\ \A s, u \in Occupied(heap[n]) :
                                heap[n].slot[s].key = heap[n].slot[u].key => s = u
                           /\ \/ pc = "reinsert" /\ n = frame.m
                              \/ \A s \in Occupied(heap[n]) :
                                   StopSlot(heap[n], heap[n].slot[s].key) = s
    BY DEF TableSound
  <2>1. PICK t \in Tables : t = heap[n]
    BY <1>1, HeapTables
  <2>2. n \notin torn => Unique(t) /\ Chained(t, Waiting(n))
    BY <1>1, <2>1 DEF Whole, Fine
  <2>3. ASSUME n \notin torn, ~(pc = "reinsert" /\ n = frame.m), NEW s \in Occupied(t)
        PROVE  StopSlot(t, t.slot[s].key) = s
    BY <2>2, <2>3, ProbeFinds DEF Waiting, Chained
  <2> QED BY <2>1, <2>2, <2>3 DEF Unique, Tables
<1> QED BY <1>1, MapWhole, PTL

-----------------------------------------------------------------------------
(* What a get answers. *)

(* What StoreOrSpin leaves when the call returns is found by a get.        *)
LEMMA StoreSeen ==
  ASSUME NEW h \in Seq(Tables), NEW f \in Frame, f.m \in DOMAIN h, f.entry \in Entry,
         StoreOrSpin(h, f), pc' = "idle"
  PROVE  Get(heap'[f.m], f.entry.key) = f.entry.value
<1>1. PICK t \in Tables : t = h[f.m]
  BY ElementOfSeq
<1>2. Stops(t, f.entry.key) # {}
  BY <1>1 DEF StoreOrSpin
<1>3. heap'[f.m] = Store(t, f.entry)
  BY <1>1, <1>2, StoreReturns
<1> QED BY <1>2, <1>3, GetStored

LEMMA PutSeen ==
  ASSUME MayRunOut = FALSE, Base, NEW v \in Vars, NEW k \in Keys, NEW x \in Values,
         Put(v, k, x), pc' = "idle"
  PROVE  Get(heap'[ptr'[v]], k) = x
<1>1. ASSUME NEW h \in Seq(Tables), NEW m \in Nat, m \in DOMAIN h, PutInto(h, PutFrame(v, k, x, m))
      PROVE  Get(heap'[m], k) = x
  <2>1. PICK f : f = PutFrame(v, k, x, m)
    OBVIOUS
  <2>2. f \in Frame /\ f.m = m /\ f.entry \in Entry /\ f.entry.key = k /\ f.entry.value = x
    BY <2>1, PutFrameFields
  <2>3. StoreOrSpin(h, f)
    BY <1>1, <2>1 DEF PutInto
  <2> QED BY <1>1, <2>2, <2>3, StoreSeen
<1>2. heap \in Seq(Tables) /\ ptr \in [Vars -> 0 .. Len(heap)] /\ Len(heap) \in Nat
  BY HeapTables DEF Base
<1>3. CASE ptr[v] \in DOMAIN heap /\ ptr[v] \in Nat /\ ptr' = ptr
             /\ PutInto(heap, PutFrame(v, k, x, ptr[v]))
  <2>1. PICK h \in Seq(Tables) : h = heap
    BY <1>2
  <2>2. PICK m \in Nat : m = ptr[v]
    BY <1>3
  <2>3. m \in DOMAIN h /\ PutInto(h, PutFrame(v, k, x, m)) /\ ptr'[v] = m
    BY <1>3, <2>1, <2>2
  <2> QED BY <1>1, <2>3
<1>4. CASE /\ ptr' = [ptr EXCEPT ![v] = Len(heap) + 1]
           /\ PutInto(NewHeap, PutFrame(v, k, x, Len(heap) + 1))
  <2>1. PICK h \in Seq(Tables) : h = NewHeap /\ DOMAIN h = 1 .. Len(heap) + 1
    BY NewHeapFields
  <2>2. PICK m \in Nat : m = Len(heap) + 1
    BY <1>2
  <2>3. m \in DOMAIN h /\ PutInto(h, PutFrame(v, k, x, m)) /\ ptr'[v] = m
    BY <1>2, <1>4, <2>1, <2>2
  <2> QED BY <1>1, <2>3
<1> QED BY <1>3, <1>4, PutCases

LEMMA RehashSeen ==
  ASSUME Base, FinishRehash, pc' = "idle"
  PROVE  Get(heap'[ptr'[frame.cell]], frame.entry.key) = frame.entry.value
<1>1. /\ heap \in Seq(Tables) /\ frame \in Frame /\ pc = "copy"
      /\ frame.new \in DOMAIN heap /\ frame.new \in Nat /\ frame.entry \in Entry
  BY FrameFields DEF FinishRehash, Base, Growing, Frame
<1>2. PICK g : g = [frame EXCEPT !.m = frame.new]
  OBVIOUS
<1>3. g \in Frame /\ g.m = frame.new /\ g.cell = frame.cell /\ g.entry = frame.entry
  BY <1>1, <1>2 DEF Frame
<1>4. PICK h \in Seq(Tables) : h = heap
  BY <1>1
<1>5. StoreOrSpin(h, g) /\ g.m \in DOMAIN h
  BY <1>1, <1>2, <1>3, <1>4 DEF FinishRehash
<1>6. Get(heap'[g.m], g.entry.key) = g.entry.value
  BY <1>1, <1>3, <1>5, StoreSeen
<1>7. g.cell # Local
  BY <1>5 DEF StoreOrSpin
<1>8. frame.cell \in Vars
  BY <1>1, <1>3, <1>7, FrameFields
<1>9. ptr'[frame.cell] = frame.new
  BY <1>8 DEF FinishRehash
<1> QED BY <1>3, <1>6, <1>9

(* A put that has returned is seen by a get, also when the table grew.     *)
THEOREM MapPutsAreSeen ==
  ASSUME MayRunOut = FALSE
  PROVE  Spec => PutTakesEffect
<1> DEFINE Seen ==
      pc' = "idle" =>
       /\ \A v \in Vars, k \in Keys, x \in Values :
            Put(v, k, x) => Get(heap'[ptr'[v]], k) = x
       /\ pc = "copy" =>
            Get(heap'[ptr'[frame.cell]], frame.entry.key) = frame.entry.value
<1>1. ASSUME Base, [Next]_vars
      PROVE  [Seen]_vars
  <2> SUFFICES ASSUME Next, pc' = "idle"
               PROVE  Seen
    BY <1>1
  <2>1. ASSUME NEW v \in Vars, NEW k \in Keys, NEW x \in Values, Put(v, k, x)
        PROVE  Get(heap'[ptr'[v]], k) = x
    BY <1>1, <2>1, PutSeen
  <2>2. ASSUME pc = "copy"
        PROVE  FinishRehash
    BY <2>2 DEF Next, Calling, Running, New, Chown, Assign, Put, Remove, Copy, Reinsert, FinishRemove
  <2>3. ASSUME pc = "copy"
        PROVE  Get(heap'[ptr'[frame.cell]], frame.entry.key) = frame.entry.value
    BY <1>1, <2>2, <2>3, RehashSeen
  <2> QED BY <2>1, <2>3
<1>2. Spec => [][Seen]_vars
  BY <1>1, InitBase, StepBase, PTL DEF Spec
<1> QED BY <1>2 DEF PutTakesEffect

-----------------------------------------------------------------------------
(* The promise of MapStore, in a program that does not copy map variables  *)
(* and whose allocations succeed.                                          *)

Holds(t, e) == \E s \in Slots(t) : t.slot[s] = e

(* No two variables share a table; the one that rehash fills is no one's,  *)
(* and holds what was copied.                                              *)
Apart ==
  /\ \A v, w \in Vars : ptr[v] = ptr[w] /\ ptr[v] # 0 => v = w
  /\ pc = "copy" =>
       /\ ptr[frame.cell] = frame.m
       /\ \A v \in Vars : ptr[v] # frame.new
       /\ \A e \in Entry :
            Holds(heap[frame.new], e)
              <=> \E s \in Slots(heap[frame.m]) : s < frame.i /\ heap[frame.m].slot[s] = e

LEMMA PutApart ==
  ASSUME MayRunOut = FALSE,
         NEW h \in Seq(Tables), NEW f \in Frame, f.m \in DOMAIN h, f.entry \in Entry,
         f.cell \in Vars, Good(h[f.m], {}), PutInto(h, f),
         NEW p \in [Vars -> 0 .. Len(h)], ptr' = p, p[f.cell] = f.m,
         \A v, w \in Vars : p[v] = p[w] /\ p[v] # 0 => v = w
  PROVE  Apart'
<1>1. f.cell # Local
  BY LocalAssumption
<1>2. PICK t \in Tables : t = h[f.m] /\ Good(t, {})
  BY ElementOfSeq
<1>3. CASE ~OverLoad(t) /\ StoreOrSpin(h, f)
  <2>1. Stops(t, f.entry.key) # {}
    BY <1>2, <1>3, StoreGood
  <2>2. pc' = "idle"
    BY <1>1, <1>2, <1>3, <2>1, StoreReturns
  <2> QED BY <2>2 DEF Apart
<1>4. CASE /\ NewSize(t) <= MaxSize
           /\ heap' = Append(h, EmptyTable(NewSize(t), t.owner))
           /\ frame' = [f EXCEPT !.new = Len(h) + 1, !.i = 0]
           /\ pc' = "copy"
  <2>1. NewSize(t) \in 1 .. MaxSize /\ t.owner \in Contexts
    <3>1. t.size \in Nat \ {0} /\ t.owner \in Contexts
      BY TableFields
    <3> QED BY <1>4, <3>1, CapacityAssumption DEF NewSize
  <2>2. PICK u \in Tables : u = EmptyTable(NewSize(t), t.owner) /\ Occupied(u) = {}
    BY <2>1, EmptyIsTable
  <2>3. /\ heap'[Len(h) + 1] = u /\ heap'[f.m] = t /\ Len(h) \in Nat
    BY <1>2, <1>4, <2>2, HeapAppend
  <2>4. frame'.cell = f.cell /\ frame'.m = f.m /\ frame'.new = Len(h) + 1 /\ frame'.i = 0
    <3>1. PICK l \in Nat : l = Len(h) + 1
      BY <2>3
    <3>2. frame' = [f EXCEPT !.new = l, !.i = 0]
      BY <1>4, <3>1
    <3>3. frame'.cell = f.cell /\ frame'.m = f.m /\ frame'.new = l /\ frame'.i = 0
      BY <3>2 DEF Frame
    <3> QED BY <3>1, <3>3
  <2>5. \A v \in Vars : p[v] # Len(h) + 1
    BY <2>3
  <2>6. \A e \in Entry : ~Holds(u, e)
    BY <2>2, NoEntryAssumption DEF Holds, Occupied
  <2>7. \A s \in Slots(t) : ~(s < 0)
    BY TableFields
  <2> QED BY <2>3, <2>4, <2>5, <2>6, <2>7 DEF Apart
<1> QED BY <1>2, <1>3, <1>4 DEF PutInto

LEMMA PutCallApart ==
  ASSUME MayRunOut = FALSE, Base, Sound, Apart,
         NEW v \in Vars, NEW k \in Keys, NEW x \in Values, Put(v, k, x)
  PROVE  Apart'
<1>1. /\ pc = "idle" /\ heap \in Seq(Tables) /\ Len(heap) \in Nat /\ DOMAIN heap = 1 .. Len(heap)
      /\ ptr \in [Vars -> 0 .. Len(heap)]
  BY HeapTables DEF Base, Put
<1>2. \A n \in DOMAIN heap : Good(heap[n], {})
  BY <1>1 DEF Sound, Waiting
<1>3. ASSUME NEW h \in Seq(Tables), NEW m \in Nat, m \in DOMAIN h, Good(h[m], {}),
             PutInto(h, PutFrame(v, k, x, m)),
             NEW p \in [Vars -> 0 .. Len(h)], ptr' = p, p[v] = m,
             \A a, w \in Vars : p[a] = p[w] /\ p[a] # 0 => a = w
      PROVE  Apart'
  <2>1. PICK f : f = PutFrame(v, k, x, m)
    OBVIOUS
  <2>2. f \in Frame /\ f.m = m /\ f.entry \in Entry /\ f.cell = v
    BY <2>1, PutFrameFields
  <2> QED BY <1>3, <2>1, <2>2, PutApart
<1>4. CASE ptr[v] \in DOMAIN heap /\ ptr[v] \in Nat /\ ptr' = ptr
             /\ PutInto(heap, PutFrame(v, k, x, ptr[v]))
  <2>1. PICK h \in Seq(Tables) : h = heap
    BY <1>1
  <2>2. PICK m \in Nat : m = ptr[v]
    BY <1>4
  <2>3. PICK p \in [Vars -> 0 .. Len(h)] : p = ptr
    BY <1>1, <2>1
  <2>4. m \in DOMAIN h /\ Good(h[m], {}) /\ PutInto(h, PutFrame(v, k, x, m))
    BY <1>2, <1>4, <2>1, <2>2
  <2>5. ptr' = p /\ p[v] = m /\ \A a, w \in Vars : p[a] = p[w] /\ p[a] # 0 => a = w
    BY <1>4, <2>2, <2>3 DEF Apart
  <2> QED BY <1>3, <2>4, <2>5
<1>5. CASE /\ ptr[v] = 0 /\ ptr' = [ptr EXCEPT ![v] = Len(heap) + 1]
           /\ PutInto(NewHeap, PutFrame(v, k, x, Len(heap) + 1))
  <2>1. PICK h \in Seq(Tables) : h = NewHeap /\ DOMAIN h = 1 .. Len(heap) + 1
                                 /\ Len(h) = Len(heap) + 1
                                 /\ h[Len(heap) + 1] = EmptyTable(InitialCapacity, Root)
    BY NewHeapFields
  <2>2. PICK m \in Nat : m = Len(heap) + 1
    BY <1>1
  <2>3. PICK p : p = ptr'
    OBVIOUS
  <2>4. /\ p \in [Vars -> 0 .. Len(h)] /\ p[v] = m
        /\ \A w \in Vars : w # v => p[w] = ptr[w] /\ p[w] # m
    BY <1>1, <1>5, <2>1, <2>2, <2>3
  <2>5. \A a, w \in Vars : p[a] = p[w] /\ p[a] # 0 => a = w
    BY <2>4 DEF Apart
  <2>6. Good(h[m], {})
    BY <2>1, <2>2, EmptyGood, CapacityAssumption, RootAssumption
  <2>7. m \in DOMAIN h /\ PutInto(h, PutFrame(v, k, x, m))
    BY <1>1, <1>5, <2>1, <2>2
  <2> QED BY <1>3, <2>3, <2>4, <2>5, <2>6, <2>7
<1> QED BY <1>4, <1>5, PutCases

LEMMA NewApart ==
  ASSUME Base, Apart, NEW v \in Vars, NEW c \in Contexts, New(v, c)
  PROVE  Apart'
<1>1. Len(heap) \in Nat /\ ptr \in [Vars -> 0 .. Len(heap)] /\ pc' = "idle"
  BY HeapTables DEF Base, New
<1>2. PICK m \in {0, Len(heap) + 1} : ptr' = [ptr EXCEPT ![v] = m]
  BY DEF New
<1>3. \A w \in Vars : ptr'[w] = IF w = v THEN m ELSE ptr[w]
  BY <1>1, <1>2
<1>4. ASSUME NEW a \in Vars, NEW w \in Vars, ptr'[a] = ptr'[w], ptr'[a] # 0
      PROVE  a = w
  <2>1. \A b \in Vars : ptr[b] # Len(heap) + 1
    BY <1>1
  <2> QED BY <1>2, <1>3, <1>4, <2>1 DEF Apart
<1> QED BY <1>1, <1>4 DEF Apart

LEMMA CopyApart ==
  ASSUME Base, Sound, Apart, Copy
  PROVE  Apart'
<1>1. /\ DOMAIN heap' = DOMAIN heap /\ heap'[frame.m] = heap[frame.m]
      /\ frame' = [frame EXCEPT !.i = frame.i + 1] /\ frame \in Frame
      /\ pc = "copy" /\ pc' = "copy" /\ ptr' = ptr /\ Growing
      /\ frame.m \in DOMAIN heap /\ frame.new \in DOMAIN heap
  BY CopyStep DEF Base, Growing, Copy
<1>2. PICK t \in Tables : t = heap[frame.m] /\ t = heap'[frame.m]
  BY <1>1, HeapTables
<1>3. PICK u \in Tables : u = heap[frame.new]
  BY <1>1, HeapTables
<1>4. PICK w : w = heap'[frame.new]
  OBVIOUS
<1>5. PICK i \in Nat : i = frame.i /\ i \in Slots(t) /\ Slots(t) = 0 .. t.size - 1 /\ t.size \in Nat
  BY <1>1, <1>2, CopyStep, TableFields, FrameFields
<1>6. frame'.m = frame.m /\ frame'.new = frame.new /\ frame'.i = i + 1 /\ frame'.cell = frame.cell
  BY <1>1, <1>5 DEF Frame
<1>7. \A e \in Entry : Holds(u, e) <=> \E s \in Slots(t) : s < i /\ t.slot[s] = e
  BY <1>1, <1>2, <1>3, <1>5 DEF Apart
<1>8. \A e \in Entry : Holds(w, e) <=> \E s \in Slots(t) : s < i + 1 /\ t.slot[s] = e
  <2>1. \A s \in Slots(t) : s < i + 1 <=> (s < i \/ s = i)
    BY <1>5
  <2>2. CASE t.slot[i] = NoEntry
    <3>1. w = u
      BY <1>2, <1>3, <1>4, <1>5, <2>2, CopyStep
    <3> QED BY <1>7, <2>1, <2>2, <3>1, NoEntryAssumption
  <2>3. CASE t.slot[i] # NoEntry
    <3>1. PICK g \in Entry : g = t.slot[i] /\ Stops(u, g.key) # {} /\ w = Store(u, g)
      BY <1>2, <1>3, <1>4, <1>5, <2>3, CopyStep
    <3>2. PICK y \in Slots(u) : y = StopSlot(u, g.key) /\ Slots(w) = Slots(u)
      BY <3>1, StoreTable
    <3>3. /\ w.slot[y] = g
          /\ u.slot[y] = NoEntry \/ u.slot[y].key = g.key
          /\ \A s \in Slots(u) : s # y => w.slot[s] = u.slot[s]
      <4>1. Stops(u, g.key) # {} /\ y = StopSlot(u, g.key) /\ w = Store(u, g)
        BY <3>1, <3>2
      <4> QED BY <4>1, StoreSlots
    <3>4. u.slot[y] = NoEntry
      <4>1. SUFFICES ASSUME u.slot[y] # NoEntry
                     PROVE  FALSE
        OBVIOUS
      <4>2. PICK e \in Entry : e = u.slot[y] /\ e.key = g.key /\ Holds(u, e)
        BY <3>3, <4>1, EntryAt DEF Occupied, Holds
      <4>3. PICK s \in Slots(t) : s < i /\ t.slot[s] = e
        BY <1>7, <4>2
      <4>4. s \in Occupied(t) /\ i \in Occupied(t)
        BY <1>5, <2>3, <4>2, <4>3, NoEntryAssumption DEF Occupied
      <4>5. Unique(t)
        BY <1>1, <1>2 DEF Sound, Good
      <4> QED BY <1>5, <3>1, <4>2, <4>3, <4>4, <4>5 DEF Unique
    <3>5. \A e \in Entry : Holds(w, e) <=> Holds(u, e) \/ e = g
      BY <3>2, <3>3, <3>4, NoEntryAssumption DEF Holds
    <3> QED BY <1>5, <1>7, <2>1, <3>1, <3>5
  <2> QED BY <2>2, <2>3
<1>9. /\ ptr'[frame'.cell] = frame'.m /\ \A v \in Vars : ptr'[v] # frame'.new
      /\ \A v, z \in Vars : ptr'[v] = ptr'[z] /\ ptr'[v] # 0 => v = z
  BY <1>1, <1>6 DEF Apart
<1> QED BY <1>1, <1>2, <1>4, <1>6, <1>8, <1>9 DEF Apart

LEMMA FinishRehashApart ==
  ASSUME Base, Sound, Sound', Apart, FinishRehash
  PROVE  Apart'
<1>1. pc' # "copy"
  BY DEF FinishRehash, StoreOrSpin
<1>2. \A v \in Vars : ptr'[v] = IF v = frame.cell THEN frame.new ELSE ptr[v]
  BY DEF FinishRehash
<1>3. \A v \in Vars : ptr[v] # frame.new
  BY DEF Apart, FinishRehash
<1>4. ASSUME NEW a \in Vars, NEW w \in Vars, ptr'[a] = ptr'[w], ptr'[a] # 0
      PROVE  a = w
  BY <1>2, <1>3, <1>4 DEF Apart
<1> QED BY <1>1, <1>4 DEF Apart

LEMMA StepApart ==
  ASSUME MayRunOut = FALSE, MayAlias = FALSE
  PROVE  Base /\ Sound /\ Sound' /\ Apart /\ [Next]_vars => Apart'
<1> SUFFICES ASSUME Base, Sound, Sound', Apart, [Next]_vars
             PROVE  Apart'
  OBVIOUS
<1>1. ASSUME NEW v \in Vars, NEW c \in Contexts, New(v, c)
      PROVE  Apart'
  BY <1>1, NewApart
<1>2. ASSUME NEW v \in Vars, NEW c \in Contexts, Chown(v, c)
      PROVE  Apart'
  BY <1>2 DEF Chown, Apart
<1>3. ASSUME NEW v \in Vars, NEW w \in Vars, Assign(v, w)
      PROVE  FALSE
  BY <1>3 DEF Assign
<1>4. ASSUME NEW v \in Vars, NEW k \in Keys, Remove(v, k)
      PROVE  Apart'
  BY <1>4 DEF Remove, Apart
<1>5. ASSUME NEW v \in Vars, NEW k \in Keys, NEW x \in Values, Put(v, k, x)
      PROVE  Apart'
  BY <1>5, PutCallApart
<1>6. CASE Copy
  BY <1>6, CopyApart
<1>7. CASE FinishRehash
  BY <1>7, FinishRehashApart
<1>8. CASE Reinsert
  <2>1. pc' = "reinsert" /\ ptr' = ptr
    BY <1>8, ReinsertStep
  <2> QED BY <2>1 DEF Apart
<1>9. CASE FinishRemove
  BY <1>9 DEF FinishRemove, Apart
<1>10. CASE UNCHANGED vars
  BY <1>10 DEF vars, Apart
<1> QED BY <1>1, <1>2, <1>3, <1>4, <1>5, <1>6, <1>7, <1>8, <1>9, <1>10 DEF Next, Calling, Running

(* What the program sees of a table, and of its variables.                 *)
MapOf(t) == [owner |-> t.owner, dict |-> Content(t)]

ViewOf(h, p) == [v \in Vars |-> IF p[v] = 0 THEN NoEntry ELSE MapOf(h[p[v]])]

(* What come_map_get answers is what the tables hold.                      *)
SeesTables == AbsStore = ViewOf(heap, ptr)

LEMMA AnswersAreContents == Base /\ Sound => SeesTables
<1> SUFFICES ASSUME Base, Sound
             PROVE  SeesTables
  OBVIOUS
<1>1. ASSUME NEW n \in DOMAIN heap
      PROVE  pc = "reinsert" \/ Answers(heap[n]) = Content(heap[n])
  <2>1. PICK t \in Tables : t = heap[n]
    BY HeapTables
  <2>2. Unique(t) /\ (pc = "reinsert" \/ Chained(t, {}))
    BY <2>1 DEF Sound, Good, Waiting
  <2> QED BY <2>1, <2>2, GetAnswers
<1>2. DOMAIN heap = 1 .. Len(heap) /\ Len(heap) \in Nat /\ ptr \in [Vars -> 0 .. Len(heap)]
  BY HeapTables DEF Base
<1>3. ASSUME NEW v \in Vars, ptr[v] # 0
      PROVE  [owner |-> heap[ptr[v]].owner,
              dict |-> IF pc = "reinsert" THEN Content(heap[ptr[v]]) ELSE Answers(heap[ptr[v]])]
             = MapOf(heap[ptr[v]])
  <2>1. ptr[v] \in DOMAIN heap
    BY <1>2, <1>3
  <2> QED BY <1>1, <2>1 DEF MapOf
<1> QED BY <1>3 DEF SeesTables, AbsStore, ViewOf

(* A step that leaves what the tables of the variables hold is invisible.  *)
LEMMA ViewSame ==
  ASSUME NEW h, NEW g, NEW p, \A v \in Vars : p[v] # 0 => MapOf(h[p[v]]) = MapOf(g[p[v]])
  PROVE  ViewOf(g, p) = ViewOf(h, p)
BY Zenon DEF ViewOf

(* What v sees becomes x, all else stays. *)
Becomes(S, T, v, x) == T = [S EXCEPT ![v] = x]

(* The variables other than v see what they saw. *)
Elsewhere(h, p, g, q, v) ==
  \A w \in Vars :
    w # v => q[w] = p[w] /\ (p[w] # 0 => MapOf(g[p[w]]) = MapOf(h[p[w]]))

(* A step on the table of one variable, or on a table of its own.          *)
LEMMA ViewExcept ==
  ASSUME NEW h, NEW g, NEW p, NEW q, NEW v \in Vars, q[v] # 0, Elsewhere(h, p, g, q, v)
  PROVE  Becomes(ViewOf(h, p), ViewOf(g, q), v, MapOf(g[q[v]]))
<1>1. ASSUME NEW w \in Vars
      PROVE  ViewOf(g, q)[w] = IF w = v THEN MapOf(g[q[v]]) ELSE ViewOf(h, p)[w]
  <2>1. CASE w = v
    BY <2>1 DEF ViewOf
  <2>2. CASE w # v
    BY <2>2 DEF ViewOf, Elsewhere
  <2> QED BY <2>1, <2>2
<1>2. /\ ViewOf(g, q) = [w \in Vars |-> ViewOf(g, q)[w]]
      /\ ViewOf(h, p) = [w \in Vars |-> ViewOf(h, p)[w]]
  BY DEF ViewOf
<1> QED BY <1>1, <1>2 DEF Becomes

(* What a variable with a table sees is a map.                             *)
LEMMA ViewIsMap ==
  ASSUME Base, Sound, NEW v \in Vars, ptr[v] # 0
  PROVE  /\ ptr[v] \in DOMAIN heap /\ heap[ptr[v]] \in Tables /\ Unique(heap[ptr[v]])
         /\ ViewOf(heap, ptr)[v] = MapOf(heap[ptr[v]])
         /\ ViewOf(heap, ptr)[v] # NoEntry
<1>1. ptr[v] \in DOMAIN heap
  BY HeapTables DEF Base
<1>2. PICK t \in Tables : t = heap[ptr[v]] /\ Unique(t)
  BY <1>1, HeapTables DEF Sound, Good
<1>3. ViewOf(heap, ptr)[v] = MapOf(t)
  BY <1>2 DEF ViewOf
<1>4. MapOf(t) # NoEntry
  <2>1. t.owner \in Contexts
    BY TableFields
  <2>2. Content(t) \in [Keys -> Values \cup {Absent}]
    BY <1>2, ContentType
  <2>3. MapOf(t) \in [owner : Contexts, dict : [Keys -> Values \cup {Absent}]]
    BY <2>1, <2>2 DEF MapOf
  <2> QED BY <2>3, NoMapAssumption
<1> QED BY <1>1, <1>2, <1>3, <1>4

LEMMA ViewIsFunction ==
  ASSUME NEW h, NEW p
  PROVE  ViewOf(h, p) = [w \in Vars |-> ViewOf(h, p)[w]]
BY DEF ViewOf

(* A new table is an empty dictionary. *)
EmptyMapOf(c) == [owner |-> c, dict |-> [k \in Keys |-> Absent]]

LEMMA EmptyMap ==
  ASSUME NEW n \in 1 .. MaxSize, NEW c \in Contexts
  PROVE  MapOf(EmptyTable(n, c)) = EmptyMapOf(c)
<1>1. PICK t \in Tables : t = EmptyTable(n, c) /\ t.owner = c /\ Occupied(t) = {}
  BY EmptyIsTable
<1>2. Content(t) = [k \in Keys |-> Absent]
  BY <1>1 DEF Content
<1>3. MapOf(t) = EmptyMapOf(c)
  BY <1>1, <1>2 DEF MapOf, EmptyMapOf
<1> QED BY <1>1, <1>3

(* A variable is given a new table.                                        *)
GivesTable(v, c, g, q) ==
  /\ g = Append(heap, EmptyTable(InitialCapacity, c))
  /\ q = [ptr EXCEPT ![v] = Len(heap) + 1]

LEMMA ViewNew ==
  ASSUME Base, NEW v \in Vars, NEW c \in Contexts, NEW g, NEW q, GivesTable(v, c, g, q)
  PROVE  Becomes(ViewOf(heap, ptr), ViewOf(g, q), v, EmptyMapOf(c))
<1>1. /\ heap \in Seq(Tables) /\ Len(heap) \in Nat /\ DOMAIN heap = 1 .. Len(heap)
      /\ ptr \in [Vars -> 0 .. Len(heap)]
  BY HeapTables DEF Base
<1>2. PICK t \in Tables : t = EmptyTable(InitialCapacity, c)
  BY EmptyIsTable, CapacityAssumption
<1>3. g = Append(heap, t) /\ q = [ptr EXCEPT ![v] = Len(heap) + 1]
  BY <1>2 DEF GivesTable
<1>4. g[Len(heap) + 1] = t /\ \A n \in DOMAIN heap : g[n] = heap[n]
  BY <1>1, <1>3, HeapAppend
<1>5. q[v] = Len(heap) + 1 /\ q[v] # 0
  BY <1>1, <1>3
<1>6. ASSUME NEW w \in Vars, w # v
      PROVE  q[w] = ptr[w] /\ (ptr[w] # 0 => g[ptr[w]] = heap[ptr[w]])
  BY <1>1, <1>3, <1>4, <1>6
<1>7. Elsewhere(heap, ptr, g, q, v)
  BY <1>6 DEF Elsewhere
<1>8. MapOf(g[q[v]]) = EmptyMapOf(c)
  BY <1>2, <1>4, <1>5, EmptyMap, CapacityAssumption
<1>9. Becomes(ViewOf(heap, ptr), ViewOf(g, q), v, MapOf(g[q[v]]))
  BY <1>5, <1>7, ViewExcept
<1> QED BY <1>8, <1>9

LEMMA NewImplements ==
  ASSUME MayRunOut = FALSE, Base, SeesTables, SeesTables',
         NEW v \in Vars, NEW c \in Contexts, New(v, c)
  PROVE  Abstract!New(v, c)
<1>1. PICK g, q : g = heap' /\ q = ptr' /\ GivesTable(v, c, g, q)
  BY DEF New, GivesTable
<1>2. Becomes(ViewOf(heap, ptr), ViewOf(g, q), v, EmptyMapOf(c))
  BY <1>1, ViewNew
<1>3. AbsStore' = ViewOf(g, q) /\ AbsStore = ViewOf(heap, ptr)
  BY <1>1 DEF SeesTables, ViewOf
<1> QED BY <1>2, <1>3 DEF Becomes, EmptyMapOf, Abstract!New, Abstract!Nothing

(* The table of one variable is changed in place.                          *)
LEMMA ViewInPlace ==
  ASSUME Base, Apart, NEW v \in Vars, ptr[v] # 0, NEW g,
         \A n \in DOMAIN heap : n # ptr[v] => g[n] = heap[n]
  PROVE  Becomes(ViewOf(heap, ptr), ViewOf(g, ptr), v, MapOf(g[ptr[v]]))
<1>1. DOMAIN heap = 1 .. Len(heap) /\ Len(heap) \in Nat /\ ptr \in [Vars -> 0 .. Len(heap)]
  BY HeapTables DEF Base
<1>2. ASSUME NEW w \in Vars, w # v, ptr[w] # 0
      PROVE  g[ptr[w]] = heap[ptr[w]]
  BY <1>1, <1>2 DEF Apart
<1>3. Elsewhere(heap, ptr, g, ptr, v)
  BY <1>2 DEF Elsewhere
<1> QED BY <1>3, ViewExcept

LEMMA ChownImplements ==
  ASSUME Base, Sound, Apart, SeesTables, SeesTables',
         NEW v \in Vars, NEW c \in Contexts, Chown(v, c)
  PROVE  Abstract!Chown(v, c)
<1>1. /\ ptr[v] # 0 /\ ptr' = ptr /\ heap \in Seq(Tables)
      /\ heap' = [heap EXCEPT ![ptr[v]].owner = c]
  BY DEF Chown, Base
<1>2. PICK m \in DOMAIN heap : m = ptr[v]
  BY <1>1, ViewIsMap
<1>3. PICK t \in Tables : t = heap[m] /\ ViewOf(heap, ptr)[v] = MapOf(t)
  BY <1>1, <1>2, ViewIsMap
<1>4. PICK u : u = [t EXCEPT !.owner = c]
  OBVIOUS
<1>5. u.owner = c /\ u.slot = t.slot /\ u.size = t.size
  <2>1. t = [size |-> t.size, count |-> t.count, owner |-> t.owner, slot |-> t.slot]
    BY TableFields
  <2> QED BY <1>4, <2>1
<1>6. Content(u) = Content(t)
  BY <1>5 DEF Content, Occupied, Slots
<1>7. PICK g : g = heap' /\ g = [heap EXCEPT ![m] = u]
  BY <1>1, <1>2, <1>3, <1>4
<1>8. g[m] = u /\ \A n \in DOMAIN heap : n # m => g[n] = heap[n]
  BY <1>7
<1>9. Becomes(ViewOf(heap, ptr), ViewOf(g, ptr), v, MapOf(u))
  BY <1>1, <1>2, <1>8, ViewInPlace
<1>10. PICK S : S = ViewOf(heap, ptr) /\ S = [w \in Vars |-> S[w]]
  BY ViewIsFunction
<1>11. PICK r : r = S[v]
  OBVIOUS
<1>12. r = [owner |-> t.owner, dict |-> Content(t)]
       /\ MapOf(u) = [owner |-> c, dict |-> Content(t)]
  BY <1>3, <1>5, <1>6, <1>10, <1>11 DEF MapOf
<1>13. [S EXCEPT ![v].owner = c] = [S EXCEPT ![v] = MapOf(u)]
  <2>1. [r EXCEPT !.owner = c] = MapOf(u)
    BY <1>12
  <2>2. [S EXCEPT ![v].owner = c] = [S EXCEPT ![v] = [S[v] EXCEPT !.owner = c]]
    BY <1>10
  <2> QED BY <1>11, <2>1, <2>2
<1>14. AbsStore = S /\ AbsStore' = ViewOf(g, ptr)
  BY <1>1, <1>7, <1>10 DEF SeesTables, ViewOf
<1>15. AbsStore[v] # NoEntry
  BY <1>1, <1>10, <1>14, ViewIsMap
<1> QED BY <1>9, <1>10, <1>13, <1>14, <1>15 DEF Becomes, Abstract!Chown

(* A change of the dictionary of the map of v that leaves its owner.       *)
Changes(S, T, v, k, x) == S[v] # NoEntry /\ T = [S EXCEPT ![v].dict[k] = x]

LEMMA DictChange ==
  ASSUME Base, Sound, SeesTables, NEW v \in Vars, ptr[v] # 0,
         NEW u, NEW k, NEW x, NEW T, Becomes(AbsStore, T, v, MapOf(u)),
         Updates(heap[ptr[v]], u, k, x)
  PROVE  Changes(AbsStore, T, v, k, x)
<1>1. PICK S : S = AbsStore /\ S = ViewOf(heap, ptr) /\ S = [w \in Vars |-> S[w]]
  BY ViewIsFunction DEF SeesTables
<1>2. PICK o, d : o = heap[ptr[v]].owner /\ d = Content(heap[ptr[v]])
  OBVIOUS
<1>3. PICK r : r = S[v]
  OBVIOUS
<1>4. r = [owner |-> o, dict |-> d] /\ r.dict = d /\ r # NoEntry
  BY <1>1, <1>2, <1>3, ViewIsMap DEF MapOf
<1>5. MapOf(u) = [owner |-> o, dict |-> [d EXCEPT ![k] = x]]
  BY <1>2 DEF MapOf, Updates
<1>6. [r EXCEPT !.dict = [d EXCEPT ![k] = x]] = MapOf(u)
  BY <1>4, <1>5
<1>7. [S EXCEPT ![v].dict[k] = x]
        = [S EXCEPT ![v] = [S[v] EXCEPT !.dict = [S[v].dict EXCEPT ![k] = x]]]
  BY <1>1
<1>8. [S EXCEPT ![v].dict[k] = x] = [S EXCEPT ![v] = MapOf(u)]
  BY <1>3, <1>4, <1>6, <1>7
<1> QED BY <1>1, <1>3, <1>4, <1>8 DEF Becomes, Changes

LEMMA RemoveImplements ==
  ASSUME Base, Sound, Apart, SeesTables, SeesTables',
         NEW v \in Vars, NEW k \in Keys, Remove(v, k)
  PROVE  Abstract!Remove(v, k)
<1>1. PICK m \in DOMAIN heap : \E t \in Tables : \E s : Clears(v, k, m, t, s)
  BY RemoveStep
<1>2. PICK t \in Tables : \E s : Clears(v, k, m, t, s)
  BY <1>1
<1>3. PICK s : Clears(v, k, m, t, s)
  BY <1>2
<1>4. /\ s \in Occupied(t) /\ m = ptr[v] /\ t = heap[m] /\ t.slot[s].key = k
      /\ heap'[m] = Clear(t, s) /\ \A n \in DOMAIN heap : n # m => heap'[n] = heap[n]
      /\ ptr' = ptr /\ ptr[v] # 0
  BY <1>3 DEF Clears
<1>5. PICK u : u = Clear(t, s)
  OBVIOUS
<1>6. Unique(t)
  BY <1>4 DEF Sound, Good
<1>7. Updates(t, u, t.slot[s].key, Absent)
  BY <1>4, <1>5, <1>6, ContentClear
<1>8. Updates(heap[ptr[v]], u, k, Absent)
  BY <1>4, <1>7
<1>9. PICK g : g = heap' /\ g[ptr[v]] = u /\ \A n \in DOMAIN heap : n # ptr[v] => g[n] = heap[n]
  BY <1>4, <1>5
<1>10. Becomes(ViewOf(heap, ptr), ViewOf(g, ptr), v, MapOf(u))
  BY <1>4, <1>9, ViewInPlace
<1>11. PICK T : T = AbsStore' /\ T = ViewOf(g, ptr)
  BY <1>4, <1>9 DEF SeesTables, ViewOf
<1>12. Becomes(AbsStore, T, v, MapOf(u))
  BY <1>10, <1>11 DEF SeesTables
<1>13. Changes(AbsStore, T, v, k, Absent)
  BY <1>4, <1>8, <1>12, DictChange
<1> QED BY <1>11, <1>13 DEF Changes, Abstract!Remove

(* What an entry that is put does to the table, and to what it holds.      *)
LEMMA StoredMap ==
  ASSUME NEW t \in Tables, NEW e \in Entry, Stops(t, e.key) # {}, Good(t, {}), ~OverLoad(t)
  PROVE  Updates(t, Store(t, e), e.key, e.value)
<1>1. PICK u : u = Store(t, e)
  OBVIOUS
<1>2. Good(u, {})
  BY <1>1, StoreGood
<1>3. Unique(t) /\ Unique(u)
  BY <1>2 DEF Good
<1> QED BY <1>1, <1>3, ContentStore

(* A put of e into table m of the heap h either stores at once, or leaves  *)
(* what is there for rehash to copy.                                       *)
Stored(h, g, m, e) ==
  \E u : /\ Updates(h[m], u, e.key, e.value)
         /\ g[m] = u /\ \A n \in DOMAIN h : n # m => g[n] = h[n]

Kept(h, g) == \A n \in DOMAIN h : g[n] = h[n]

LEMMA PutSteps ==
  ASSUME MayRunOut = FALSE,
         NEW h \in Seq(Tables), NEW f \in Frame, f.m \in DOMAIN h, f.entry \in Entry,
         Good(h[f.m], {}), PutInto(h, f)
  PROVE  Kept(h, heap') \/ Stored(h, heap', f.m, f.entry)
<1>1. PICK t \in Tables : t = h[f.m] /\ Good(t, {})
  BY ElementOfSeq
<1>2. PICK e \in Entry : e = f.entry
  OBVIOUS
<1>3. CASE ~OverLoad(t) /\ StoreOrSpin(h, f)
  <2>1. Stops(t, e.key) # {}
    BY <1>1, <1>3, StoreGood
  <2>2. heap'[f.m] = Store(t, e) /\ \A n \in DOMAIN h : n # f.m => heap'[n] = h[n]
    BY <1>1, <1>2, <1>3, <2>1, StoreReturns
  <2>3. PICK u : u = Store(t, e) /\ Updates(t, u, e.key, e.value)
    BY <1>1, <1>3, <2>1, StoredMap
  <2> QED BY <1>1, <1>2, <2>2, <2>3 DEF Stored
<1>4. CASE /\ NewSize(t) <= MaxSize
           /\ heap' = Append(h, EmptyTable(NewSize(t), t.owner))
  <2>1. NewSize(t) \in 1 .. MaxSize /\ t.owner \in Contexts
    <3>1. t.size \in Nat \ {0} /\ t.owner \in Contexts
      BY TableFields
    <3> QED BY <1>4, <3>1, CapacityAssumption DEF NewSize
  <2>2. PICK u \in Tables : u = EmptyTable(NewSize(t), t.owner)
    BY <2>1, EmptyIsTable
  <2> QED BY <1>4, <2>2, HeapAppend DEF Kept
<1> QED BY <1>1, <1>3, <1>4 DEF PutInto

(* A put through a variable with a table.                                  *)
LEMMA PutOldImplements ==
  ASSUME MayRunOut = FALSE, Base, Sound, Apart, SeesTables, SeesTables', pc = "idle",
         NEW v \in Vars, NEW k \in Keys, NEW x \in Values,
         ptr[v] # 0, ptr' = ptr, PutInto(heap, PutFrame(v, k, x, ptr[v]))
  PROVE  Abstract!Put(v, k, x) \/ AbsStore' = AbsStore
<1>1. PICK h \in Seq(Tables) : h = heap
  BY DEF Base
<1>2. PICK m \in Nat : m = ptr[v] /\ m \in DOMAIN h
  BY <1>1, HeapTables DEF Base
<1>3. Good(h[m], {}) /\ Unique(h[m])
  BY <1>1, <1>2 DEF Sound, Good, Waiting
<1>4. PICK f \in Frame : /\ f = PutFrame(v, k, x, m) /\ f.m = m
                         /\ f.entry \in Entry /\ f.entry.key = k /\ f.entry.value = x
  BY PutFrameFields
<1>5. PutInto(h, f)
  BY <1>1, <1>2, <1>4
<1>6. PICK g : g = heap'
  OBVIOUS
<1>7. AbsStore = ViewOf(heap, ptr) /\ AbsStore' = ViewOf(g, ptr)
  BY <1>6 DEF SeesTables, ViewOf
<1>8. CASE Kept(h, heap')
  <2>1. \A w \in Vars : ptr[w] # 0 => ptr[w] \in DOMAIN heap
    BY HeapTables DEF Base
  <2>2. \A w \in Vars : ptr[w] # 0 => heap[ptr[w]] = g[ptr[w]]
    BY <1>1, <1>6, <1>8, <2>1 DEF Kept
  <2>3. ViewOf(g, ptr) = ViewOf(heap, ptr)
    BY <2>2, ViewSame
  <2> QED BY <1>7, <2>3
<1>9. CASE Stored(h, heap', f.m, f.entry)
  <2>1. PICK u : /\ Updates(h[m], u, k, x)
                 /\ g[m] = u /\ \A n \in DOMAIN h : n # m => g[n] = h[n]
    BY <1>4, <1>6, <1>9 DEF Stored
  <2>2. Updates(heap[ptr[v]], u, k, x)
    BY <1>1, <1>2, <2>1
  <2>3. g[ptr[v]] = u /\ \A n \in DOMAIN heap : n # ptr[v] => g[n] = heap[n]
    BY <1>1, <1>2, <2>1
  <2>4. Becomes(ViewOf(heap, ptr), ViewOf(g, ptr), v, MapOf(u))
    BY <2>3, ViewInPlace
  <2>5. PICK T : T = AbsStore' /\ T = ViewOf(g, ptr)
    BY <1>7
  <2>6. Becomes(AbsStore, T, v, MapOf(u))
    BY <1>7, <2>4, <2>5
  <2>7. Changes(AbsStore, T, v, k, x)
    BY <2>2, <2>6, DictChange
  <2> QED BY <2>5, <2>7 DEF Changes, Abstract!Put
<1>10. Kept(h, heap') \/ Stored(h, heap', f.m, f.entry)
  BY <1>2, <1>3, <1>4, <1>5, PutSteps
<1> QED BY <1>8, <1>9, <1>10

(* A put through a variable without one: it is given one, in which the     *)
(* entry is stored unless the new table is so small that it grows first.   *)
LEMMA PutNewImplements ==
  ASSUME MayRunOut = FALSE, Base, SeesTables, SeesTables',
         NEW v \in Vars, NEW k \in Keys, NEW x \in Values,
         ptr[v] = 0, ptr' = [ptr EXCEPT ![v] = Len(heap) + 1],
         PutInto(NewHeap, PutFrame(v, k, x, Len(heap) + 1))
  PROVE  Abstract!Put(v, k, x) \/ Abstract!New(v, Root)
<1>0. /\ ptr \in [Vars -> 0 .. Len(heap)] /\ Len(heap) \in Nat
      /\ InitialCapacity \in 1 .. MaxSize /\ Root \in Contexts
  BY HeapTables, CapacityAssumption, RootAssumption DEF Base
<1>1. PICK h \in Seq(Tables) : /\ h = NewHeap /\ DOMAIN h = 1 .. Len(heap) + 1
                               /\ h[Len(heap) + 1] = EmptyTable(InitialCapacity, Root)
  BY NewHeapFields
<1>2. PICK m \in Nat : m = Len(heap) + 1 /\ m \in DOMAIN h
  BY <1>0, <1>1
<1>3. PICK t \in Tables : /\ t = h[m] /\ Good(t, {}) /\ MapOf(t) = EmptyMapOf(Root)
  BY <1>0, <1>1, <1>2, EmptyIsTable, EmptyGood, EmptyMap
<1>4. t.owner = Root /\ Content(t) = [k0 \in Keys |-> Absent]
  BY <1>3 DEF MapOf, EmptyMapOf
<1>5. PICK f \in Frame : /\ f = PutFrame(v, k, x, m) /\ f.m = m
                         /\ f.entry \in Entry /\ f.entry.key = k /\ f.entry.value = x
  BY PutFrameFields
<1>6. PutInto(h, f)
  BY <1>1, <1>2, <1>5
<1>7. PICK g, q : g = heap' /\ q = ptr'
  OBVIOUS
<1>8. PICK A, B : A = AbsStore /\ A = ViewOf(heap, ptr) /\ B = AbsStore' /\ B = ViewOf(g, q)
  BY <1>7 DEF SeesTables, ViewOf
<1>9. A[v] = NoEntry /\ A = [w \in Vars |-> A[w]]
  BY <1>8 DEF ViewOf
<1>10. Becomes(A, ViewOf(h, q), v, EmptyMapOf(Root))
  <2>1. GivesTable(v, Root, h, q)
    BY <1>1, <1>7 DEF GivesTable, NewHeap
  <2>2. Becomes(ViewOf(heap, ptr), ViewOf(h, q), v, EmptyMapOf(Root))
    BY <1>0, <2>1, ViewNew
  <2> QED BY <1>8, <2>2
<1>11. q[v] = m /\ m # 0 /\ \A w \in Vars : w # v => q[w] # m /\ (q[w] # 0 => q[w] \in DOMAIN h)
  BY <1>0, <1>1, <1>2, <1>7
<1>12. CASE Kept(h, heap')
  <2>1. \A w \in Vars : q[w] # 0 => h[q[w]] = g[q[w]]
    BY <1>2, <1>7, <1>11, <1>12 DEF Kept
  <2>2. ViewOf(g, q) = ViewOf(h, q)
    BY <2>1, ViewSame
  <2>3. AbsStore' = [AbsStore EXCEPT ![v] = EmptyMapOf(Root)]
    BY <1>8, <1>10, <2>2 DEF Becomes
  <2> QED BY <2>3 DEF EmptyMapOf, Abstract!New, Abstract!Nothing
<1>13. CASE Stored(h, heap', f.m, f.entry)
  <2>1. PICK u : /\ Updates(t, u, k, x)
                 /\ g[m] = u /\ \A n \in DOMAIN h : n # m => g[n] = h[n]
    BY <1>3, <1>5, <1>7, <1>13 DEF Stored
  <2>2. MapOf(u) = [owner |-> Root, dict |-> [[k0 \in Keys |-> Absent] EXCEPT ![k] = x]]
    BY <1>4, <2>1 DEF MapOf, Updates
  <2>3. \A w \in Vars : w # v /\ q[w] # 0 => g[q[w]] = h[q[w]]
    BY <1>11, <2>1
  <2>4. Elsewhere(h, q, g, q, v)
    BY <2>3 DEF Elsewhere
  <2>5. Becomes(ViewOf(h, q), ViewOf(g, q), v, MapOf(g[q[v]]))
    BY <1>11, <2>4, ViewExcept
  <2>6. MapOf(g[q[v]]) = MapOf(u)
    BY <1>11, <2>1
  <2>7. B = [A EXCEPT ![v] = MapOf(u)]
    BY <1>8, <1>9, <1>10, <2>5, <2>6 DEF Becomes
  <2>8. AbsStore[v] = NoEntry /\ AbsStore' = [AbsStore EXCEPT ![v] = MapOf(u)]
    BY <1>8, <1>9, <2>7
  <2> QED BY <2>2, <2>8 DEF Abstract!Put, Abstract!Nothing
<1>14. Kept(h, heap') \/ Stored(h, heap', f.m, f.entry)
  BY <1>2, <1>3, <1>5, <1>6, PutSteps
<1> QED BY <1>12, <1>13, <1>14

LEMMA PutImplements ==
  ASSUME MayRunOut = FALSE, Base, Sound, Apart, SeesTables, SeesTables',
         NEW v \in Vars, NEW k \in Keys, NEW x \in Values, Put(v, k, x)
  PROVE  Abstract!Put(v, k, x) \/ Abstract!New(v, Root) \/ AbsStore' = AbsStore
<1>1. pc = "idle"
  BY DEF Put
<1>2. CASE ptr[v] # 0 /\ ptr' = ptr /\ PutInto(heap, PutFrame(v, k, x, ptr[v]))
  BY <1>1, <1>2, PutOldImplements
<1>3. CASE /\ ptr[v] = 0 /\ ptr' = [ptr EXCEPT ![v] = Len(heap) + 1]
           /\ PutInto(NewHeap, PutFrame(v, k, x, Len(heap) + 1))
  BY <1>3, PutNewImplements
<1> QED BY <1>2, <1>3, PutCases

LEMMA StepUnseen ==
  ASSUME Base, SeesTables, SeesTables', ptr' = ptr, NEW g, g = heap',
         \A n \in DOMAIN heap :
           MapOf(heap[n]) = MapOf(g[n]) \/ \A v \in Vars : ptr[v] # n
  PROVE  AbsStore' = AbsStore
<1>1. \A v \in Vars : ptr[v] # 0 => ptr[v] \in DOMAIN heap
  BY HeapTables DEF Base
<1>2. \A v \in Vars : ptr[v] # 0 => MapOf(heap[ptr[v]]) = MapOf(g[ptr[v]])
  BY <1>1
<1>3. ViewOf(g, ptr) = ViewOf(heap, ptr)
  BY <1>2, ViewSame
<1>4. AbsStore = ViewOf(heap, ptr) /\ AbsStore' = ViewOf(g, ptr)
  BY DEF SeesTables, ViewOf
<1> QED BY <1>3, <1>4

LEMMA CopyImplements ==
  ASSUME Base, Apart, SeesTables, SeesTables', Copy
  PROVE  AbsStore' = AbsStore
<1>1. ptr' = ptr /\ pc = "copy"
  BY DEF Copy
<1>2. PICK g : g = heap' /\ \A n \in DOMAIN heap : n # frame.new => g[n] = heap[n]
  BY CopyStep
<1>3. \A v \in Vars : ptr[v] # frame.new
  BY <1>1 DEF Apart
<1>4. \A n \in DOMAIN heap :
        MapOf(heap[n]) = MapOf(g[n]) \/ \A v \in Vars : ptr[v] # n
  BY <1>2, <1>3
<1> QED BY <1>1, <1>2, <1>4, StepUnseen

(* An entry that come_map_remove puts back is where it was looked up.      *)
LEMMA ReinsertImplements ==
  ASSUME MayRunOut = FALSE, Base, Sound, SeesTables, SeesTables', Reinsert
  PROVE  AbsStore' = AbsStore
<1>1. PICK m \in DOMAIN heap, t \in Tables, x \in Nat :
           /\ m = frame.m /\ t = heap[m] /\ x = frame.next /\ x \in Occupied(t)
           /\ t.slot[x] \in Entry /\ Stops(Clear(t, x), t.slot[x].key) # {}
           /\ Good(t, Run(t, x))
           /\ heap' \in Seq(Tables) /\ DOMAIN heap' = DOMAIN heap
           /\ heap'[m] = Store(Clear(t, x), t.slot[x])
           /\ \A n \in DOMAIN heap : n # m => heap'[n] = heap[n]
           /\ pc = "reinsert" /\ pc' = "reinsert" /\ ptr' = ptr
           /\ frame'.m = m /\ frame'.cell = Local /\ frame'.next = (x + 1) % t.size
  BY ReinsertStep
<1>2. PICK e \in Entry : e = t.slot[x]
  BY <1>1
<1>0. PICK u : u = Clear(t, x)
  OBVIOUS
<1>3. /\ u \in Tables /\ u.owner = t.owner
      /\ Occupied(u) = Occupied(t) \ {x}
      /\ u.slot = [t.slot EXCEPT ![x] = NoEntry]
  <2>1. x \in Occupied(t)
    BY <1>1
  <2> QED BY <1>0, <2>1, ClearTable
<1>4. Unique(t)
  BY <1>1 DEF Good
<1>5. \A s \in Occupied(u) : s \in Occupied(t) /\ u.slot[s] = t.slot[s] /\ t.slot[s].key # e.key
  <2>1. t.slot \in [Slots(t) -> Entry \cup {NoEntry}]
    BY TableFields
  <2>2. \A s \in Occupied(u) : s \in Occupied(t) /\ s # x /\ u.slot[s] = t.slot[s]
    BY <1>3, <2>1 DEF Occupied
  <2> QED BY <1>1, <1>2, <1>4, <2>2 DEF Unique
<1>6. Unique(u)
  BY <1>4, <1>5 DEF Unique
<1>7. Stops(u, e.key) # {}
  BY <1>0, <1>1, <1>2
<1>8. PICK w : w = Store(u, e)
  OBVIOUS
<1>9. w = heap'[m]
  BY <1>0, <1>1, <1>2, <1>8
<1>10. Unique(w)
  <2>1. PICK y : y = StopSlot(u, e.key)
    OBVIOUS
  <2>2. w.slot[y] = e /\ \A s \in Slots(u) : s # y => w.slot[s] = u.slot[s]
    <3>1. u \in Tables
      BY <1>3
    <3> QED BY <1>7, <1>8, <2>1, <3>1, StoreSlots, SMTT(30)
  <2>3. Occupied(w) = Occupied(u) \cup {y}
    BY <1>3, <1>7, <1>8, <2>1, StoreTable
  <2>4. \A s \in Occupied(u) : s \in Slots(u)
    BY DEF Occupied
  <2>5. ASSUME NEW s \in Occupied(w), s # y
        PROVE  w.slot[s] = u.slot[s] /\ s \in Occupied(u) /\ w.slot[s].key # e.key
    BY <1>5, <2>2, <2>3, <2>4, <2>5
  <2> QED BY <1>6, <2>2, <2>5 DEF Unique
<1>11. Updates(u, w, e.key, e.value)
  BY <1>3, <1>6, <1>7, <1>8, <1>10, ContentStore
<1>12. Updates(t, u, e.key, Absent)
  <2>1. Updates(t, u, t.slot[x].key, Absent)
    BY <1>0, <1>1, <1>4, ContentClear
  <2> QED BY <1>2, <2>1
<1>13. e.key \in Keys /\ Content(t)[e.key] = e.value
  BY <1>1, <1>2, <1>4, EntryAt, ContentAt
<1>14. Content(w) = Content(t)
  <2>1. PICK C, D : C = Content(t) /\ D = Content(u) /\ C = [k \in Keys |-> C[k]]
    BY DEF Content
  <2>2. D = [C EXCEPT ![e.key] = Absent] /\ Content(w) = [D EXCEPT ![e.key] = e.value]
    BY <1>11, <1>12, <2>1 DEF Updates
  <2>3. [D EXCEPT ![e.key] = C[e.key]] = C
    BY <1>13, <2>1, <2>2
  <2> QED BY <1>13, <2>1, <2>2, <2>3
<1>15. MapOf(w) = MapOf(t)
  BY <1>11, <1>12, <1>14 DEF MapOf, Updates
<1>16. PICK g : g = heap'
  OBVIOUS
<1>17. \A n \in DOMAIN heap :
         MapOf(heap[n]) = MapOf(g[n]) \/ \A v \in Vars : ptr[v] # n
  BY <1>1, <1>9, <1>15, <1>16
<1> QED BY <1>1, <1>16, <1>17, StepUnseen

(* When rehash is done the variable moves to a table that holds the same,  *)
(* and the entry is stored there.                                          *)
LEMMA FinishRehashImplements ==
  ASSUME Base, Sound, Sound', Apart, SeesTables, SeesTables', FinishRehash
  PROVE  \E v \in Vars, k \in Keys, x \in Values : Abstract!Put(v, k, x)
<1>1. /\ heap \in Seq(Tables) /\ frame \in Frame /\ pc = "copy" /\ Growing
      /\ frame.m \in DOMAIN heap /\ frame.new \in DOMAIN heap
      /\ frame.entry \in Entry /\ frame.cell \in Vars
      /\ frame.i = heap[frame.m].size /\ ptr \in [Vars -> 0 .. Len(heap)]
  BY FrameFields DEF FinishRehash, Base, Growing, Sound
<1>2. PICK v \in Vars, e \in Entry, m \in DOMAIN heap, n \in DOMAIN heap :
        v = frame.cell /\ m = frame.m /\ n = frame.new /\ e = frame.entry
  BY <1>1
<1>3. ptr[v] = m /\ m # 0 /\ n # 0 /\ \A w \in Vars : ptr[w] # n
  BY <1>1, <1>2, HeapTables DEF Apart
<1>4. PICK t \in Tables : t = heap[m] /\ Unique(t)
  BY <1>1, <1>2, HeapTables DEF Sound, Good
<1>5. PICK r \in Tables : r = heap[n] /\ Good(r, {}) /\ r.owner = t.owner
  BY <1>1, <1>2, <1>4, HeapTables DEF Sound, Waiting, Growing
<1>6. Content(r) = Content(t)
  <2>1. \A s \in Slots(t) : s < frame.i
    BY <1>1, <1>2, <1>4, TableFields, SMTT(30)
  <2>2. \A a \in Entry :
          (\E s \in Slots(t) : t.slot[s] = a) <=> (\E s \in Slots(r) : r.slot[s] = a)
    BY <1>1, <1>2, <1>4, <1>5, <2>1 DEF Apart, Holds
  <2>3. Unique(r)
    BY <1>5 DEF Good
  <2> QED BY <1>4, <2>2, <2>3, SameEntries
<1>7. PICK f \in Frame : f = [frame EXCEPT !.m = frame.new] /\ f.m = n /\ f.entry = e /\ f.cell = v
  <2>1. PICK f : f = [frame EXCEPT !.m = frame.new]
    OBVIOUS
  <2>2. f \in Frame /\ f.m = n /\ f.entry = e /\ f.cell = v
    BY <1>1, <1>2, <2>1 DEF Frame
  <2> QED BY <2>1, <2>2
<1>8. PICK h \in Seq(Tables) : h = heap
  BY <1>1
<1>9. StoreOrSpin(h, f) /\ f.m \in DOMAIN h /\ f.entry \in Entry
  BY <1>2, <1>7, <1>8 DEF FinishRehash
<1>10. ~OverLoad(r)
  BY <1>1, <1>2, <1>5, CopyLoad
<1>11. Stops(r, e.key) # {}
  BY <1>5, <1>10, StoreGood
<1>12. heap'[n] = Store(r, e) /\ \A a \in DOMAIN heap : a # n => heap'[a] = heap[a]
  <2>1. Stops(h[f.m], f.entry.key) # {}
    BY <1>5, <1>7, <1>8, <1>11
  <2>2. heap'[f.m] = Store(h[f.m], f.entry) /\ \A a \in DOMAIN h : a # f.m => heap'[a] = h[a]
    BY <1>9, <2>1, StoreReturns
  <2> QED BY <1>5, <1>7, <1>8, <2>2
<1>13. PICK k \in Keys, x \in Values : k = e.key /\ x = e.value
  BY DEF Entry
<1>14. PICK u : u = Store(r, e) /\ Updates(r, u, k, x)
  BY <1>5, <1>10, <1>11, <1>13, StoredMap
<1>15. Updates(heap[ptr[v]], u, k, x)
  BY <1>3, <1>4, <1>5, <1>6, <1>14 DEF Updates
<1>16. PICK g, q : g = heap' /\ q = ptr'
  OBVIOUS
<1>17. \A w \in Vars : q[w] = IF w = v THEN n ELSE ptr[w]
  BY <1>2, <1>16 DEF FinishRehash
<1>18. Elsewhere(heap, ptr, g, q, v)
  <2>1. \A w \in Vars : ptr[w] # 0 => ptr[w] \in DOMAIN heap
    BY <1>1, HeapTables
  <2>2. \A w \in Vars : ptr[w] # 0 => g[ptr[w]] = heap[ptr[w]]
    BY <1>3, <1>12, <1>16, <2>1
  <2> QED BY <1>17, <2>2 DEF Elsewhere
<1>19. q[v] # 0 /\ g[q[v]] = u
  BY <1>3, <1>12, <1>14, <1>16, <1>17
<1>20. Becomes(ViewOf(heap, ptr), ViewOf(g, q), v, MapOf(g[q[v]]))
  BY <1>18, <1>19, ViewExcept
<1>21. PICK T : T = AbsStore' /\ Becomes(AbsStore, T, v, MapOf(u))
  <2>1. AbsStore' = ViewOf(g, q) /\ AbsStore = ViewOf(heap, ptr)
    BY <1>16 DEF SeesTables, ViewOf
  <2> QED BY <1>19, <1>20, <2>1
<1>22. Changes(AbsStore, T, v, k, x)
  BY <1>3, <1>15, <1>21, DictChange
<1>23. Abstract!Put(v, k, x)
  BY <1>21, <1>22 DEF Changes, Abstract!Put
<1> QED BY <1>23

LEMMA StepImplements ==
  ASSUME MayRunOut = FALSE, MayAlias = FALSE
  PROVE  Base /\ Sound /\ Sound' /\ Apart /\ SeesTables /\ SeesTables' /\ [Next]_vars
           => [Abstract!Next]_AbsStore
<1> SUFFICES ASSUME Base, Sound, Sound', Apart, SeesTables, SeesTables', [Next]_vars
             PROVE  Abstract!Next \/ AbsStore' = AbsStore
  OBVIOUS
<1>1. ASSUME NEW v \in Vars, NEW c \in Contexts, New(v, c)
      PROVE  Abstract!Next
  BY <1>1, NewImplements DEF Abstract!Next
<1>2. ASSUME NEW v \in Vars, NEW c \in Contexts, Chown(v, c)
      PROVE  Abstract!Next
  BY <1>2, ChownImplements DEF Abstract!Next
<1>3. ASSUME NEW v \in Vars, NEW w \in Vars, Assign(v, w)
      PROVE  FALSE
  BY <1>3 DEF Assign
<1>4. ASSUME NEW v \in Vars, NEW k \in Keys, Remove(v, k)
      PROVE  Abstract!Next
  BY <1>4, RemoveImplements DEF Abstract!Next
<1>5. ASSUME NEW v \in Vars, NEW k \in Keys, NEW x \in Values, Put(v, k, x)
      PROVE  Abstract!Next \/ AbsStore' = AbsStore
  BY <1>5, PutImplements, RootAssumption DEF Abstract!Next
<1>6. CASE Copy
  BY <1>6, CopyImplements
<1>7. CASE FinishRehash
  BY <1>7, FinishRehashImplements DEF Abstract!Next
<1>8. CASE Reinsert
  BY <1>8, ReinsertImplements
<1>9. CASE FinishRemove
  <2>1. ptr' = ptr /\ heap' = heap
    BY <1>9 DEF FinishRemove
  <2> QED BY <2>1, StepUnseen
<1>10. CASE UNCHANGED vars
  <2>1. ptr' = ptr /\ heap' = heap
    BY <1>10 DEF vars
  <2> QED BY <2>1, StepUnseen
<1> QED BY <1>1, <1>2, <1>3, <1>4, <1>5, <1>6, <1>7, <1>8, <1>9, <1>10 DEF Next, Calling, Running

LEMMA InitImplements == Init => Apart /\ Abstract!Init
<1> SUFFICES ASSUME Init
             PROVE  Apart /\ Abstract!Init
  OBVIOUS
<1>1. Apart
  BY DEF Init, Apart
<1>2. AbsStore = [v \in Vars |-> NoEntry]
  BY DEF Init, AbsStore
<1> QED BY <1>1, <1>2 DEF Abstract!Init

(* The hash table behaves as the dictionary that a program may take its    *)
(* maps for: put, remove, chown and the declaration of a map take effect   *)
(* at one step, and the slots, the growth, the loops of rehash and         *)
(* come_map_remove between the steps are invisible.                        *)
THEOREM MapImplementsMapStore ==
  ASSUME MayRunOut = FALSE, MayAlias = FALSE
  PROVE  Spec => ImplementsMapStore
<1> DEFINE Inv == Base /\ Sound
<1>1. Spec => []Inv
  BY MapInductive
<1>2. Inv => SeesTables
  BY AnswersAreContents
<1>3. Init => Apart /\ Abstract!Init
  BY InitImplements
<1>4. Inv /\ Inv' /\ Apart /\ [Next]_vars => Apart'
  BY StepApart
<1>5. Inv /\ Inv' /\ Apart /\ SeesTables /\ SeesTables' /\ [Next]_vars => [Abstract!Next]_AbsStore
  BY StepImplements
<1>6. Spec => Abstract!Init /\ [][Abstract!Next]_AbsStore
  BY <1>1, <1>2, <1>3, <1>4, <1>5, PTL DEF Spec
<1> QED BY <1>6 DEF ImplementsMapStore, Abstract!Spec
=============================================================================
