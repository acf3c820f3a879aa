------------------------------ MODULE MapStore ------------------------------
(***************************************************************************)
(* What the `map` type of Come promises the programs that use it: every    *)
(* map variable holds nothing (NULL) or a dictionary with an owner, and    *)
(* each call takes effect at once.  The hash table, its probing, its       *)
(* growth and its allocations are invisible here; module ComeMap, the hash *)
(* table of src/src/map/map.c, implements this specification as long as    *)
(* every variable has a map of its own and memory does not run out.        *)
(***************************************************************************)
CONSTANTS Keys,      \* the strings used as keys
          Values,    \* the pointers stored under a key
          Vars,      \* the program's variables of type map
          Contexts,  \* the memory contexts that can own a map
          Root,      \* the owner of what is allocated in no context
          Absent,    \* what get answers for a key that is not there
          NULL       \* a map variable that points nowhere

VARIABLE store       \* what each variable denotes

Dictionary == [Keys -> Values \cup {Absent}]

Nothing == [k \in Keys |-> Absent]

Map == [owner : Contexts, dict : Dictionary]

TypeOK == store \in [Vars -> Map \cup {NULL}]

Init == store = [v \in Vars |-> NULL]

(* A declaration `map v = {}` in the module context c. *)
New(v, c) == store' = [store EXCEPT ![v] = [owner |-> c, dict |-> Nothing]]

(* A put through a variable that holds no map creates one, owned by Root. *)
Put(v, k, x) ==
  \/ /\ store[v] # NULL
     /\ store' = [store EXCEPT ![v].dict[k] = x]
  \/ /\ store[v] = NULL
     /\ store' = [store EXCEPT ![v] =
                    [owner |-> Root, dict |-> [Nothing EXCEPT ![k] = x]]]

(* Removing a key that is not there leaves the dictionary as it is. *)
Remove(v, k) ==
  /\ store[v] # NULL
  /\ store' = [store EXCEPT ![v].dict[k] = Absent]

(* v.chown(c). *)
Chown(v, c) ==
  /\ store[v] # NULL
  /\ store' = [store EXCEPT ![v].owner = c]

Next == \E v \in Vars :
          \/ \E c \in Contexts : New(v, c) \/ Chown(v, c)
          \/ \E k \in Keys : Remove(v, k) \/ \E x \in Values : Put(v, k, x)

Spec == Init /\ [][Next]_store
=============================================================================
