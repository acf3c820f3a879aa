------------------------------- MODULE ComeMap -------------------------------
(***************************************************************************)
(* The hash table behind Come's `map` type (src/src/map/map.c): open       *)
(* addressing with linear probing, growth by doubling when an insertion    *)
(* would pass a load of 3/4, and removal that re-inserts the entries that  *)
(* follow the removed one up to the next free slot.                        *)
(*                                                                         *)
(* The two loops whose intermediate tables matter are step by step: the    *)
(* copying loop of rehash (pc = "copy") and the re-insertion loop of       *)
(* come_map_remove (pc = "reinsert").  A probing loop reads the table and  *)
(* nothing else, so it is one expression, Stops.  A map variable is a      *)
(* pointer: come_map_put is given its address and moves it to the grown    *)
(* table, come_map_get and come_map_remove are given a copy of it.         *)
(* A call with a NULL key, and a removal of a key that is not there, return *)
(* at once: they are stuttering steps.                                     *)
(***************************************************************************)
EXTENDS Naturals, Sequences, FiniteSets, FiniteSetsExt

CONSTANTS
  Keys,             \* the strings used as keys
  Values,           \* the pointers stored under a key
  Hash,             \* hash_string, as a function of the key
  Vars,             \* the program's variables of type map
  Contexts,         \* the memory contexts that can own a table
  Root,             \* the context of an allocation that names none
  InitialCapacity,  \* INITIAL_CAPACITY
  MaxTables,        \* bound on the number of tables ever allocated
  MaxSize,          \* bound on the slots of a table
  MayRunOut,        \* TRUE if an allocation may fail
  MayAlias,         \* TRUE if the program copies map variables
  Local,            \* the variable m of come_map_remove
  NoEntry,          \* a slot that is not occupied
  Absent            \* the NULL that come_map_get answers

ASSUME HashAssumption == Hash \in [Keys -> Nat]
ASSUME CapacityAssumption == MaxSize \in Nat /\ InitialCapacity \in 1 .. MaxSize
ASSUME RootAssumption == Root \in Contexts
ASSUME FlagAssumption == MayRunOut \in BOOLEAN /\ MayAlias \in BOOLEAN
ASSUME AbsentAssumption == Absent \notin Values
ASSUME LocalAssumption == Local \notin Vars

Entry == [key : Keys, value : Values]

ASSUME NoEntryAssumption == NoEntry \notin Entry

(* NoEntry is also the NULL that a variable without a map holds: no map.   *)
ASSUME NoMapAssumption ==
  NoEntry \notin [owner : Contexts, dict : [Keys -> Values \cup {Absent}]]

VARIABLES
  heap,   \* every table allocated so far; a table is named by its index
  ptr,    \* the table each map variable points to, 0 for NULL
  pc,     \* what runs: "idle", "copy", "reinsert", or "spin" for ever
  frame,  \* the locals of the running calls
  torn    \* history: the tables that a removal left for a grown one when it
          \* had taken out, and not put back, an entry of their cluster

vars == <<heap, ptr, pc, frame, torn>>

(* The locals: the cell whose address come_map_put was given and the entry *)
(* it puts, the table it and come_map_remove work on (m), rehash's new_m   *)
(* and i, and come_map_remove's next.                                      *)
NoFrame == [cell |-> Local, entry |-> NoEntry, m |-> 0,
            new |-> 0, i |-> 0, next |-> 0]

-----------------------------------------------------------------------------
(* Tables. *)

Slots(t) == 0 .. t.size - 1

EmptyTable(size, owner) ==
  [size |-> size, count |-> 0, owner |-> owner,
   slot |-> [s \in 0 .. size - 1 |-> NoEntry]]

Occupied(t) == {s \in Slots(t) : t.slot[s] # NoEntry}

(* The d-th slot a probe for key k visits. *)
Probe(t, k, d) == (Hash[k] + d) % t.size

(* The probe lengths at which `while (occupied)` ends for key k: a free    *)
(* slot, or one that holds k.  Empty when the table is full without k.     *)
Stops(t, k) ==
  {d \in Slots(t) : LET e == t.slot[Probe(t, k, d)]
                    IN e = NoEntry \/ e.key = k}

StopSlot(t, k) == Probe(t, k, Min(Stops(t, k)))

(* come_map_get: a probe that comes back to its start answers NULL. *)
Get(t, k) ==
  IF Stops(t, k) = {} \/ t.slot[StopSlot(t, k)] = NoEntry
    THEN Absent
    ELSE t.slot[StopSlot(t, k)].value

(* The store at the end of come_map_put. *)
Store(t, e) ==
  LET s == StopSlot(t, e.key)
  IN [t EXCEPT !.slot[s] = e,
               !.count = IF t.slot[s] = NoEntry THEN @ + 1 ELSE @]

(* An entry is taken out, by come_map_remove or its loop. *)
Clear(t, s) == [t EXCEPT !.slot[s] = NoEntry, !.count = @ - 1]

(* Mutant of OverLoad: the table may be filled to its last slot. *)
OverFull(t) == t.count + 1 > t.size

(* (float)(m->count + 1) / m->size > LOAD_FACTOR_THRESHOLD *)
OverLoad(t) == 4 * (t.count + 1) > 3 * t.size

(* The size of the table that rehash makes for t. *)
NewSize(t) == 2 * t.size

CanAllocate == Len(heap) < MaxTables

-----------------------------------------------------------------------------
Init ==
  /\ heap = << >>
  /\ ptr = [v \in Vars |-> 0]
  /\ pc = "idle"
  /\ frame = NoFrame
  /\ torn = {}

(* `map v = {}`: come_map_new(COME_CTX), which answers NULL out of memory. *)
New(v, c) ==
  /\ pc = "idle"
  /\ \/ /\ CanAllocate
        /\ heap' = Append(heap, EmptyTable(InitialCapacity, c))
        /\ ptr' = [ptr EXCEPT ![v] = Len(heap) + 1]
     \/ /\ MayRunOut
        /\ ptr' = [ptr EXCEPT ![v] = 0]
        /\ UNCHANGED heap
  /\ UNCHANGED <<pc, frame, torn>>

(* `map v = w`: the pointer is copied, the table is not. *)
Assign(v, w) ==
  /\ pc = "idle" /\ MayAlias
  /\ ptr' = [ptr EXCEPT ![v] = ptr[w]]
  /\ UNCHANGED <<heap, pc, frame, torn>>

(* v.chown(c) *)
Chown(v, c) ==
  /\ pc = "idle" /\ ptr[v] # 0
  /\ heap' = [heap EXCEPT ![ptr[v]].owner = c]
  /\ UNCHANGED <<ptr, pc, frame, torn>>

(* The end of come_map_put, on table f.m of the heap h: the entry is       *)
(* stored, or the probe goes round a full table for ever.  What runs next  *)
(* is the caller: the program, or the loop of come_map_remove.             *)
StoreOrSpin(h, f) ==
  /\ IF Stops(h[f.m], f.entry.key) = {}
       THEN /\ heap' = h
            /\ pc' = "spin"
            /\ frame' = f
       ELSE /\ heap' = [h EXCEPT ![f.m] = Store(@, f.entry)]
            /\ \/ /\ f.cell # Local
                  /\ pc' = "idle"
                  /\ frame' = NoFrame
               \/ /\ f.cell = Local
                  /\ pc' = "reinsert"
                  /\ frame' = [f EXCEPT !.entry = NoEntry, !.i = 0, !.new = 0,
                                        !.next = (@ + 1) % h[f.m].size]
  /\ UNCHANGED torn

(* come_map_put on table f.m of the heap h.  The load is looked at before  *)
(* the key is; rehash allocates a table twice as large under the parent of *)
(* the old one, and when it cannot, come_map_put goes on with the old one. *)
PutInto(h, f) ==
  \/ /\ OverLoad(h[f.m])
     /\ Len(h) < MaxTables /\ NewSize(h[f.m]) <= MaxSize
     /\ heap' = Append(h, EmptyTable(NewSize(h[f.m]), h[f.m].owner))
     /\ frame' = [f EXCEPT !.new = Len(h) + 1, !.i = 0]
     /\ pc' = "copy"
     /\ torn' = IF f.cell = Local THEN torn \cup {f.m} ELSE torn
  \/ /\ ~OverLoad(h[f.m]) \/ MayRunOut
     /\ StoreOrSpin(h, f)

(* come_map_put(&v, k, x), up to its rehash if it needs one; a variable    *)
(* that holds no map is given one first.                                   *)
Put(v, k, x) ==
  /\ pc = "idle"
  /\ LET f == [NoFrame EXCEPT !.cell = v, !.entry = [key |-> k, value |-> x]]
     IN \/ /\ ptr[v] # 0
           /\ PutInto(heap, [f EXCEPT !.m = ptr[v]])
           /\ UNCHANGED ptr
        \/ /\ ptr[v] = 0 /\ CanAllocate
           /\ ptr' = [ptr EXCEPT ![v] = Len(heap) + 1]
           /\ PutInto(Append(heap, EmptyTable(InitialCapacity, Root)),
                      [f EXCEPT !.m = Len(heap) + 1])
        \/ /\ ptr[v] = 0 /\ MayRunOut
           /\ UNCHANGED vars

(* Mutant of Copy: the step to the next slot is skipped with the free ones.*)
CopyStuck ==
  /\ pc = "copy" /\ frame.i < heap[frame.m].size
  /\ LET e == heap[frame.m].slot[frame.i]
     IN IF e = NoEntry
          THEN UNCHANGED <<heap, frame>>
          ELSE /\ heap' = [heap EXCEPT ![frame.new] = Store(@, e)]
               /\ frame' = [frame EXCEPT !.i = @ + 1]
  /\ UNCHANGED <<ptr, pc, torn>>

(* One iteration of rehash's loop.  Its put finds room without a rehash of *)
(* its own: RoomLeft.                                                      *)
Copy ==
  /\ pc = "copy" /\ frame.i < heap[frame.m].size
  /\ LET e == heap[frame.m].slot[frame.i]
     IN heap' = IF e = NoEntry THEN heap
                               ELSE [heap EXCEPT ![frame.new] = Store(@, e)]
  /\ frame' = [frame EXCEPT !.i = @ + 1]
  /\ UNCHANGED <<ptr, pc, torn>>

(* Mutant of FinishRehash: the variable is left on the old table. *)
FinishRehashUnassigned ==
  /\ pc = "copy" /\ frame.i = heap[frame.m].size
  /\ StoreOrSpin(heap, [frame EXCEPT !.m = frame.new])
  /\ UNCHANGED ptr

(* The end of rehash: *m_ptr = new_m moves the one cell whose address was  *)
(* passed, the program's variable or the local m of come_map_remove, and   *)
(* come_map_put stores its entry.                                          *)
FinishRehash ==
  /\ pc = "copy" /\ frame.i = heap[frame.m].size
  /\ ptr' = [v \in Vars |-> IF v = frame.cell THEN frame.new ELSE ptr[v]]
  /\ StoreOrSpin(heap, [frame EXCEPT !.m = frame.new])

(* Mutants of Remove: nothing is put back after it; the slot after the     *)
(* last is not the first.                                                  *)
RemoveOnly(v, k) ==
  /\ pc = "idle" /\ ptr[v] # 0
  /\ LET t == heap[ptr[v]]
     IN /\ Stops(t, k) # {} /\ t.slot[StopSlot(t, k)] # NoEntry
        /\ heap' = [heap EXCEPT ![ptr[v]] = Clear(@, StopSlot(t, k))]
  /\ UNCHANGED <<ptr, pc, frame, torn>>

RemoveUnwrapped(v, k) ==
  /\ pc = "idle" /\ ptr[v] # 0
  /\ LET t == heap[ptr[v]]
         s == StopSlot(t, k)
     IN /\ Stops(t, k) # {} /\ t.slot[s] # NoEntry
        /\ heap' = [heap EXCEPT ![ptr[v]] = Clear(@, s)]
        /\ frame' = [NoFrame EXCEPT !.m = ptr[v], !.next = s + 1]
  /\ pc' = "reinsert"
  /\ UNCHANGED <<ptr, torn>>

(* come_map_remove(v, k): the entry is cleared and the loop over the rest  *)
(* of its cluster begins.                                                  *)
Remove(v, k) ==
  /\ pc = "idle" /\ ptr[v] # 0
  /\ LET t == heap[ptr[v]]
         s == StopSlot(t, k)
     IN /\ Stops(t, k) # {} /\ t.slot[s] # NoEntry
        /\ heap' = [heap EXCEPT ![ptr[v]] = Clear(@, s)]
        /\ frame' = [NoFrame EXCEPT !.m = ptr[v], !.next = (s + 1) % t.size]
  /\ pc' = "reinsert"
  /\ UNCHANGED <<ptr, torn>>

(* One iteration of that loop: the entry at next is taken out and put into *)
(* the table of the local m.                                               *)
Reinsert ==
  /\ pc = "reinsert"
  /\ LET e == heap[frame.m].slot[frame.next]
     IN /\ e # NoEntry
        /\ PutInto([heap EXCEPT ![frame.m] = Clear(@, frame.next)],
                   [frame EXCEPT !.entry = e])
  /\ UNCHANGED ptr

(* The loop ends at the first free slot, and come_map_remove returns. *)
FinishRemove ==
  /\ pc = "reinsert" /\ heap[frame.m].slot[frame.next] = NoEntry
  /\ pc' = "idle"
  /\ frame' = NoFrame
  /\ UNCHANGED <<heap, ptr, torn>>

Running == Copy \/ FinishRehash \/ Reinsert \/ FinishRemove

Calling ==
  \E v \in Vars :
    \/ \E c \in Contexts : New(v, c) \/ Chown(v, c)
    \/ \E w \in Vars : Assign(v, w)
    \/ \E k \in Keys : Remove(v, k) \/ \E x \in Values : Put(v, k, x)

Next == Calling \/ Running

(* A call that has begun runs to its end: there is one thread, and nothing *)
(* in the loops waits.                                                     *)
Spec == Init /\ [][Next]_vars /\ WF_vars(Running)

-----------------------------------------------------------------------------
TableOf(n) == [size : {n}, count : 0 .. n, owner : Contexts,
               slot : [0 .. n - 1 -> Entry \cup {NoEntry}]]

Frame == [cell : Vars \cup {Local}, entry : Entry \cup {NoEntry}, m : Nat,
          new : Nat, i : Nat, next : Nat]

(* Tables are well formed, pointers are to tables that exist, and the      *)
(* locals index inside the tables they are used on.                        *)
TypeOK ==
  /\ heap = [n \in 1 .. Len(heap) |-> heap[n]]
  /\ \A n \in DOMAIN heap : \E size \in 1 .. MaxSize : heap[n] \in TableOf(size)
  /\ ptr \in [Vars -> 0 .. Len(heap)]
  /\ pc \in {"idle", "copy", "reinsert", "spin"}
  /\ frame \in Frame
  /\ pc # "idle" => frame.m \in DOMAIN heap
  /\ pc = "copy" => /\ frame.new \in DOMAIN heap
                    /\ frame.i \in 0 .. heap[frame.m].size
                    /\ frame.entry # NoEntry
  /\ pc = "reinsert" => frame.next \in Slots(heap[frame.m])
  /\ torn \subseteq DOMAIN heap

(***************************************************************************)
(* Safety.                                                                 *)
(***************************************************************************)

(* Every table is sound, also when tables cannot grow.  It holds no key    *)
(* twice, which a chain broken by a removal would lead to at the next put; *)
(* count, which come_map_len answers and the load is computed from, is the *)
(* number of occupied slots at every step of every loop; and every         *)
(* occupied slot is on the chain of its key, where come_map_get and        *)
(* come_map_remove find it, but while come_map_remove re-inserts into that *)
(* table.  Of a torn table only count is still right: when a growth that   *)
(* failed for a put succeeds inside come_map_remove, its loop goes on in   *)
(* the grown table and leaves the rest of a cluster where no probe comes.  *)
TableSound ==
  \A n \in DOMAIN heap :
    LET t == heap[n]
    IN /\ t.count = Cardinality(Occupied(t))
       /\ n \notin torn =>
            /\ \A s, u \in Occupied(t) : t.slot[s].key = t.slot[u].key => s = u
            /\ \/ pc = "reinsert" /\ n = frame.m
               \/ \A s \in Occupied(t) : StopSlot(t, t.slot[s].key) = s

(* A probe always meets a free slot: the loops of come_map_put and         *)
(* come_map_remove, which do not look for their starting point as that of  *)
(* come_map_get does, end because of it.  It needs every rehash to succeed.*)
(* And the puts that rehash makes find the load of the new table low       *)
(* enough: rehash and come_map_put, which call each other, nest no deeper. *)
RoomLeft ==
  /\ \A n \in DOMAIN heap : Occupied(heap[n]) # Slots(heap[n])
  /\ pc = "copy" => ~OverLoad(heap[frame.new])

-----------------------------------------------------------------------------
(***************************************************************************)
(* What the program sees is the abstract map: the dictionary of a variable *)
(* is what come_map_get answers on its table for every key.  While         *)
(* come_map_remove runs its chains are broken, and the dictionary is that  *)
(* of the slots; no call of the program runs meanwhile.                    *)
(***************************************************************************)
Content(t) ==
  [k \in Keys |->
     IF \E s \in Occupied(t) : t.slot[s].key = k
       THEN t.slot[CHOOSE s \in Occupied(t) : t.slot[s].key = k].value
       ELSE Absent]

Answers(t) == [k \in Keys |-> Get(t, k)]

AbsStore ==
  [v \in Vars |->
     IF ptr[v] = 0
       THEN NoEntry
       ELSE LET t == heap[ptr[v]]
            IN [owner |-> t.owner,
                dict |-> IF pc = "reinsert" THEN Content(t) ELSE Answers(t)]]

Abstract == INSTANCE MapStore WITH store <- AbsStore, NULL <- NoEntry

(* come_map_put, get, remove, new and chown behave as the operations of a  *)
(* dictionary that keeps its owner, when no two variables share a table    *)
(* and no allocation fails.                                                *)
ImplementsMapStore == Abstract!Spec

(* A put that has returned is seen by a get, through the variable it was   *)
(* made through, also when the table had to grow on the way.               *)
PutTakesEffect ==
  [][pc' = "idle" =>
       /\ \A v \in Vars, k \in Keys, x \in Values :
            Put(v, k, x) => Get(heap'[ptr'[v]], k) = x
       /\ pc = "copy" =>
            Get(heap'[ptr'[frame.cell]], frame.entry.key) = frame.entry.value]_vars

(* Every call returns: the loops of come_map_put, rehash and               *)
(* come_map_remove end.                                                    *)
CallsReturn == (pc # "idle") ~> (pc = "idle")
=============================================================================
