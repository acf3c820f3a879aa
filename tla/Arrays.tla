------------------------------- MODULE Arrays -------------------------------
(***************************************************************************)
(* Dynamic arrays (src/src/array/array.c, come_array.h) over Ownership:    *)
(* int arrays and string lists, the variables that point to them, resize,  *)
(* which may move the array and moves one variable with it, and slices,    *)
(* which belong to the array they were cut from.                           *)
(*                                                                         *)
(* An array has size items, of which the first count are in use: fewer     *)
(* only where `int a[10] = {1, 2}` made it, which leaves the others as     *)
(* they were in memory.  An item is a number or, in a list, the address of *)
(* a string.  A variable whose array is no longer at its address is        *)
(* Dangling; the program is taken not to use one.  A byte array is an int  *)
(* array.  Root is both the context of the module, which generated code    *)
(* gives its arrays, and the root of the runtime, to which resize and      *)
(* slice of NULL give theirs: the program frees the one, the other is left *)
(* to the end of the process.                                              *)
(***************************************************************************)
EXTENDS Ownership, Naturals, Sequences

CONSTANTS Vars,      \* the variables of array type
          Null,      \* the NULL pointer, as a variable or an item of a list
          Unset,     \* an item that was never written
          Dangling,  \* a pointer to an address that its block has left
          MaxItems,  \* bound on the length of an array
          Given,     \* bound: how many values an array is declared with
          Parts,     \* bound: the start and end that slices are asked for
          MayRunOut, \* TRUE if an allocation may fail
          MayPart    \* TRUE if a slice of a list may be given another owner

ASSUME PointersAssumption == Null # Dangling /\ {Null, Dangling} \cap (Blocks \cup {Root}) = {}
ASSUME BoundsAssumption ==
  /\ MaxItems \in Nat /\ Given \subseteq 0 .. MaxItems /\ Parts \subseteq Nat \X Nat
  /\ {MayRunOut, MayPart} \subseteq BOOLEAN

VARIABLES obj,   \* what is at each address: an array, a string or nothing
          var    \* what each variable points to

arrays == <<parent, obj, var>>

Array(kind, items) == [kind |-> kind, items |-> items, count |-> Len(items)]

Nothing == Array("none", << >>)

IsArray(b) == b \in Live /\ obj[b].kind \in {"int", "list"}

Blank(kind) == IF kind = "list" THEN Null ELSE 0

(* The blocks that live on, with o at the addresses On. *)
Placed(On, o) ==
  [b \in Blocks |-> IF b \in On THEN o
                    ELSE IF parent'[b] # Dead THEN obj[b] ELSE Nothing]

(* Every variable but those in vs is left pointing where it did. *)
Repointed(vs, p, gone) ==
  [w \in Vars |-> IF w \in vs THEN p ELSE IF var[w] \in gone THEN Dangling ELSE var[w]]

ArraysInit ==
  /\ Init
  /\ obj = [b \in Blocks |-> Nothing]
  /\ var = [v \in Vars |-> Null]

(* An array declared with used values, here zeros: generated code          *)
(* allocates it in the module's context.                                   *)
NewInts(v, b, used) ==
  /\ Alloc(Root, b)
  /\ obj' = Placed({b}, [kind |-> "int", count |-> used,
                         items |-> [i \in 1 .. MaxItems |-> IF i <= used THEN 0 ELSE Unset]])
  /\ var' = Repointed({v}, b, {})

(* What split, regex_groups and the arguments of main answer: a list that  *)
(* owns its strings, here the same one MaxItems times.                     *)
NewList(v, b, s) ==
  /\ b \notin Live /\ s \notin Live /\ s # b
  /\ parent' = [parent EXCEPT ![b] = Root, ![s] = b]
  /\ obj' = [Placed({b}, Array("list", [i \in 1 .. MaxItems |-> s]))
               EXCEPT ![s] = Array("string", << >>)]
  /\ var' = Repointed({v}, b, {})

(* `int w[] = v`: the pointer is copied. *)
Assign(v, w) ==
  /\ var[w] # Dangling
  /\ var' = Repointed({v}, var[w], {})
  /\ UNCHANGED <<parent, obj>>

(* o with n items, those it has first, used or not, and then blank ones. *)
Resized(o, n) ==
  Array(o.kind, [i \in 1 .. n |-> IF i <= Len(o.items) THEN o.items[i] ELSE Blank(o.kind)])

(* Mutant of Resize: the answer is not assigned to the variable. *)
ResizeUnassigned(v, b, n) ==
  /\ IsArray(var[v]) /\ Realloc(var[v], b)
  /\ obj' = Placed({b}, Resized(obj[var[v]], n))
  /\ var' = Repointed({}, b, IF b = var[v] THEN {} ELSE {var[v]})

(* v.resize(n), come_array_realloc and the assignment of its answer, where *)
(* the block moves to b: items past the old size are zero, other variables *)
(* stay behind.                                                            *)
Resize(v, b, n) ==
  /\ IsArray(var[v]) /\ Realloc(var[v], b)
  /\ obj' = Placed({b}, Resized(obj[var[v]], n))
  /\ var' = Repointed({v}, b, IF b = var[v] THEN {} ELSE {var[v]})

(* A NULL array is allocated by resize, for the root. *)
ResizeNull(v, b, n) ==
  /\ var[v] = Null /\ Alloc(Root, b)
  /\ obj' = Placed({b}, Resized(Array("int", << >>), n))
  /\ var' = Repointed({v}, b, {})

(* Out of memory resize and slice answer NULL, which is assigned too: the   *)
(* array stays with its owner and the variable no longer has it.           *)
OutOfMemory(v) ==
  /\ MayRunOut /\ var[v] # Dangling
  /\ var' = Repointed({v}, Null, {})
  /\ UNCHANGED <<parent, obj>>

(* The items of o from start, counted from 0, up to end, cut at its count. *)
Cut(o, start, end) ==
  Array(o.kind, IF start >= o.count \/ start >= end THEN << >>
                ELSE SubSeq(o.items, start + 1, IF end > o.count THEN o.count ELSE end))

(* Mutant of Slice: the slice belongs to whoever owns the array. *)
SliceBeside(v, w, b, start, end) ==
  /\ IsArray(var[w]) /\ Alloc(parent[var[w]], b)
  /\ obj' = Placed({b}, Cut(obj[var[w]], start, end))
  /\ var' = Repointed({v}, b, {})

(* `v = w.slice(start, end)`: the items, for a list the pointers to its    *)
(* strings, are copied to a new array that belongs to the old one.         *)
Slice(v, w, b, start, end) ==
  /\ IsArray(var[w]) /\ Alloc(var[w], b)
  /\ obj' = Placed({b}, Cut(obj[var[w]], start, end))
  /\ var' = Repointed({v}, b, {})

(* A slice of no array is an empty one that belongs to the root. *)
SliceNull(v, w, b) ==
  /\ var[w] = Null /\ Alloc(Root, b)
  /\ obj' = Placed({b}, Array("int", << >>))
  /\ var' = Repointed({v}, b, {})

(* v.chown(w) *)
Chown(v, w) ==
  /\ IsArray(var[v]) /\ IsArray(var[w]) /\ Steal(var[w], var[v])
  /\ MayPart \/ ~IsArray(parent[var[v]])
  /\ UNCHANGED <<obj, var>>

(* v.free() *)
FreeArray(v) ==
  /\ IsArray(var[v]) /\ Free(var[v])
  /\ obj' = Placed({}, Nothing)
  /\ var' = Repointed({}, Null, {b \in Live : parent'[b] = Dead})

(* The end of main: its context is freed, and with it what is below. *)
End ==
  /\ Shutdown
  /\ obj' = Placed({}, Nothing)
  /\ var' = Repointed({}, Null, Live)

ArraysNext ==
  \/ \E v \in Vars :
       \/ FreeArray(v) \/ OutOfMemory(v)
       \/ \E w \in Vars : Assign(v, w) \/ Chown(v, w)
       \/ \E b \in Blocks, n \in 0 .. MaxItems :
            \/ Resize(v, b, n) \/ ResizeNull(v, b, n)
       \/ \E b \in Blocks :
            \/ \E used \in Given : NewInts(v, b, used)
            \/ \E s \in Blocks : NewList(v, b, s)
            \/ \E w \in Vars :
                 \/ SliceNull(v, w, b)
                 \/ \E part \in Parts : Slice(v, w, b, part[1], part[2])
  \/ End

ArraysSpec == ArraysInit /\ [][ArraysNext]_arrays

-----------------------------------------------------------------------------
(* Every item of a list is a string that is there: lists, their slices and *)
(* the strings, which only the first list owns, die in an order that never *)
(* leaves a list with an address that was freed, or that is reused by      *)
(* something else.  It needs slices to stay with their list: MayPart.      *)
ItemsLive ==
  \A b \in Live : obj[b].kind = "list" =>
    \A i \in DOMAIN obj[b].items :
      obj[b].items[i] # Null => /\ obj[b].items[i] \in Live
                                /\ obj[obj[b].items[i]].kind = "string"

(* A resize never takes an array from under a variable that points to      *)
(* another one, a slice of it or what it was sliced from, and leaves that  *)
(* array's items alone; its own variable has the array with the old items  *)
(* in front.  Only variables that share the array can be left behind.      *)
ResizeSparesOthers ==
  [][\A v \in Vars : (obj' # obj /\ \E b \in Blocks, n \in 0 .. MaxItems : Resize(v, b, n)) =>
       /\ var'[v] \in Blocks
       /\ \A i \in DOMAIN obj'[var'[v]].items :
            i \in DOMAIN obj[var[v]].items => obj'[var'[v]].items[i] = obj[var[v]].items[i]
       /\ \A w \in Vars : var[w] \in Blocks \ {var[v]} =>
            /\ var'[w] = var[w]
            /\ obj'[var[w]] = obj[var[w]]
            /\ parent'[var[w]] = (IF parent[var[w]] = var[v] THEN var'[v] ELSE parent[var[w]])]_arrays
=============================================================================
