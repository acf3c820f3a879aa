----------------------------- MODULE Ownership ------------------------------
(***************************************************************************)
(* Memory ownership in Come (src/src/mem/talloc.c, the POSIX branch over   *)
(* the bundled talloc): every block has one owner, another block or the    *)
(* root context co_mem_root, and a block is freed together with everything *)
(* it owns, directly or not.                                               *)
(*                                                                         *)
(* A block stands for its address: a block that was freed may be allocated *)
(* again, and a block that grows may move to the address of a dead one.    *)
(* The root is created by the first call and is Root here; a NULL context  *)
(* means Root.  A call on NULL changes nothing and is a stuttering step,   *)
(* as is one that fails.                                                   *)
(***************************************************************************)
CONSTANTS Blocks,  \* the addresses a block can have
          Root,    \* co_mem_root, what a NULL context stands for
          Dead     \* the owner of an address at which there is no block

ASSUME BlocksAssumption == Root \notin Blocks /\ Dead \notin Blocks /\ Root # Dead

VARIABLE parent    \* the owner of the block at each address

Live == {b \in Blocks : parent[b] # Dead}

Owners == Live \cup {Root}

(* S has everything that r or a member of S owns. *)
ClosedBelow(r, S) == \A d \in Live : parent[d] \in S \cup {r} => d \in S

(* Everything owned by r, directly or through other blocks: what is in     *)
(* every set that has r's children and the children of its members.        *)
Below(r) == {c \in Live : \A S \in SUBSET Blocks : ClosedBelow(r, S) => c \in S}

TypeOK == parent \in [Blocks -> Blocks \cup {Root, Dead}]

Init == parent = [b \in Blocks |-> Dead]

(* mem_talloc_alloc and mem_talloc_new_ctx: a new block b owned by c. *)
Alloc(c, b) ==
  /\ c \in Owners /\ b \notin Live
  /\ parent' = [parent EXCEPT ![b] = c]

(* Mutant of Realloc: what the block owns stays owned by its old address.  *)
ReallocStale(b, n) ==
  /\ b \in Live /\ (n = b \/ n \notin Live)
  /\ parent' = [d \in Blocks |->
                  IF d = n THEN parent[b] ELSE IF d = b THEN Dead ELSE parent[d]]

(* mem_talloc_realloc moves the block at b to n, which may be b; it keeps  *)
(* its owner, and what it owns follows it.  A realloc of NULL is an Alloc. *)
Realloc(b, n) ==
  /\ b \in Live /\ (n = b \/ n \notin Live)
  /\ parent' = [d \in Blocks |->
                  IF d = n THEN parent[b]
                  ELSE IF d = b THEN Dead
                  ELSE IF parent[d] = b THEN n
                  ELSE parent[d]]

(* mem_talloc_steal, .chown(): c becomes the owner of b.  Stealing a block *)
(* into itself does nothing.  Neither this code nor talloc looks whether c *)
(* is itself owned by b; that programs do not do this is an assumption.    *)
Steal(c, b) ==
  /\ b \in Live /\ c \in Owners \ {b}
  /\ parent' = [parent EXCEPT ![b] = c]
  /\ c \notin Below(b)

(* Mutant of Free: only what the block owns itself goes with it. *)
FreeShallow(b) ==
  /\ b \in Live
  /\ parent' = [d \in Blocks |->
                  IF d = b \/ parent[d] = b THEN Dead ELSE parent[d]]

(* mem_talloc_free *)
Free(b) ==
  /\ b \in Live
  /\ LET gone == {b} \cup Below(b)
     IN parent' = [d \in Blocks |-> IF d \in gone THEN Dead ELSE parent[d]]

(* mem_talloc_module_shutdown *)
Shutdown ==
  LET gone == Below(Root)
  IN parent' = [d \in Blocks |-> IF d \in gone THEN Dead ELSE parent[d]]

Next ==
  \/ \E b \in Blocks :
       \/ \E n \in Blocks : Realloc(b, n)
       \/ \E c \in Blocks \cup {Root} : Alloc(c, b) \/ Steal(c, b)
       \/ Free(b)
  \/ Shutdown

Spec == Init /\ [][Next]_parent

-----------------------------------------------------------------------------
(* The owner of a block is there as long as the block is: nothing is left  *)
(* owned by an address that was freed, which a later block at that address *)
(* would adopt.                                                            *)
OwnerIsLive == \A b \in Live : parent[b] \in Owners

(* Everything is below the root, so what is freed with its owner is freed  *)
(* at the latest with the root, and no block owns itself through others.   *)
AllBelowRoot == Live \subseteq Below(Root)

(* No block is owned, directly or through others, by itself: freeing it    *)
(* walks a tree, and ends.                                                 *)
NoCycle == \A b \in Live : b \notin Below(b)
=============================================================================
