----------------------------- MODULE MemRecords -----------------------------
(***************************************************************************)
(* The Windows branch of src/src/mem/talloc.c: without talloc, ownership   *)
(* is a list of records, one per block, newest first, that say which block *)
(* owns it.  mem_talloc_free calls itself for every child it finds in the  *)
(* list before it frees the block; its calls are a stack here, and one     *)
(* turn of its loop is one step.                                           *)
(***************************************************************************)
EXTENDS Naturals, Sequences, FiniteSetsExt, SequencesExt

CONSTANTS Blocks,     \* the addresses that calloc and realloc can answer
          NULL,
          Dead        \* the abstract owner of an address with no block

ASSUME NamesAssumption ==
  NULL \notin Blocks /\ Dead \notin Blocks /\ NULL # Dead

VARIABLES
  mem_records,  \* the list: a sequence of [ptr, parent]
  mem,          \* the addresses that hold a block, tracked or not
  stack,        \* the arguments of the running calls of mem_talloc_free
  down,         \* TRUE after mem_talloc_module_shutdown
  scarce,       \* TRUE in an execution where the calloc of a record may fail
  doomed        \* what the running mem_talloc_free was called to free; no
                \* step depends on it (an auxiliary variable)

vars == <<mem_records, mem, stack, down, scarce, doomed>>

-----------------------------------------------------------------------------
Tracked == {mem_records[i].ptr : i \in DOMAIN mem_records}

(* mem_find_record, as the positions of the records it could find. *)
RecordsOf(p) == {i \in DOMAIN mem_records : mem_records[i].ptr = p}

(* The records of the blocks that p owns, the order mem_talloc_free takes  *)
(* them in being that of the list.                                         *)
ChildrenOf(p) == {i \in DOMAIN mem_records : mem_records[i].parent = p}

(* mem_track: the record of p, found or new at the head, names c.  A new   *)
(* record that cannot be allocated is given up without a word.             *)
Track(p, c) ==
  \/ /\ RecordsOf(p) # {}
     /\ mem_records' = [mem_records EXCEPT ![Min(RecordsOf(p))].parent = c]
  \/ /\ RecordsOf(p) = {}
     /\ mem_records' = <<[ptr |-> p, parent |-> c]>> \o mem_records
  \/ /\ RecordsOf(p) = {} /\ scarce
     /\ UNCHANGED mem_records

(* Mutants of Untrack: the record stays; the newest record goes. *)
UntrackNothing(p) == mem_records' = mem_records

UntrackNewest(p) ==
  mem_records' = IF mem_records = << >> THEN << >> ELSE Tail(mem_records)

(* mem_untrack *)
Untrack(p) ==
  mem_records' = IF RecordsOf(p) = {}
                   THEN mem_records
                   ELSE RemoveAt(mem_records, Min(RecordsOf(p)))

(* mem_talloc_parent: NULL for a block that has no record. *)
ParentOf(p) == IF RecordsOf(p) = {} THEN NULL
                                    ELSE mem_records[Min(RecordsOf(p))].parent

(* The ownership that the records state. *)
RecordedOwner ==
  [b \in Blocks |-> IF RecordsOf(b) = {} THEN Dead ELSE ParentOf(b)]

Records == INSTANCE Ownership WITH parent <- RecordedOwner, Root <- NULL

-----------------------------------------------------------------------------
Init ==
  /\ mem_records = << >> /\ mem = {} /\ stack = << >>
  /\ down = FALSE /\ scarce \in BOOLEAN /\ doomed = {}

(* A call of the program, which runs when no other does. *)
Ready == stack = << >> /\ ~down

(* mem_talloc_alloc, mem_talloc_new_ctx, and mem_talloc_realloc of NULL. *)
Alloc(c, p) ==
  /\ Ready
  /\ c \in mem \cup {NULL} /\ p \notin mem
  /\ mem' = mem \cup {p}
  /\ Track(p, c)
  /\ UNCHANGED <<stack, down, scarce, doomed>>

(* Mutant of Realloc: the records of the block's children are not looked   *)
(* through.                                                                *)
ReallocStale(p, n) ==
  /\ Ready
  /\ p \in mem /\ n \notin mem \ {p}
  /\ mem' = (mem \ {p}) \cup {n}
  /\ mem_records' = [i \in DOMAIN mem_records |->
                       IF mem_records[i].ptr = p
                         THEN [mem_records[i] EXCEPT !.ptr = n]
                         ELSE mem_records[i]]
  /\ UNCHANGED <<stack, down, scarce, doomed>>

(* mem_talloc_realloc of the block p, in the NULL context every caller     *)
(* passes; the block stays or moves to a free address n.                   *)
Realloc(p, n) ==
  /\ Ready
  /\ p \in mem /\ n \notin mem \ {p}
  /\ mem' = (mem \ {p}) \cup {n}
  /\ LET moved(q) == IF q = p THEN n ELSE q
         renamed == [i \in DOMAIN mem_records |->
                       [ptr |-> moved(mem_records[i].ptr),
                        parent |-> moved(mem_records[i].parent)]]
     IN \/ /\ p \in Tracked
           /\ mem_records' = renamed
        \/ /\ p \notin Tracked
           /\ mem_records' = <<[ptr |-> n, parent |-> NULL]>> \o renamed
        \/ /\ p \notin Tracked /\ scarce
           /\ mem_records' = renamed
  /\ UNCHANGED <<stack, down, scarce, doomed>>

(* mem_talloc_steal.  That c is not p nor below it is left to the program. *)
Steal(c, p) ==
  /\ Ready
  /\ p \in mem /\ c \in mem \cup {NULL}
  /\ c # p /\ c \notin Records!Below(p)
  /\ Track(p, c)
  /\ UNCHANGED <<mem, stack, down, scarce, doomed>>

(* The program calls mem_talloc_free(p). *)
CallFree(p) ==
  /\ Ready
  /\ p \in mem
  /\ stack' = <<p>>
  /\ doomed' = {p} \cup Records!Below(p)
  /\ UNCHANGED <<mem_records, mem, down, scarce>>

(* Mutant of FreeChild: the call is for the owner and not for the child. *)
FreeParent ==
  /\ stack # << >> /\ ChildrenOf(Head(stack)) # {}
  /\ stack' = <<ParentOf(Head(stack))>> \o stack
  /\ UNCHANGED <<mem_records, mem, down, scarce, doomed>>

(* mem_talloc_free finds a child and calls itself. *)
FreeChild ==
  /\ stack # << >> /\ ChildrenOf(Head(stack)) # {}
  /\ stack' = <<mem_records[Min(ChildrenOf(Head(stack)))].ptr>> \o stack
  /\ UNCHANGED <<mem_records, mem, down, scarce, doomed>>

(* Mutant of FreeBlock: children may be left when the block is freed. *)
FreeBlockEarly ==
  /\ stack # << >>
  /\ Untrack(Head(stack))
  /\ mem' = mem \ {Head(stack)}
  /\ stack' = Tail(stack)
  /\ doomed' = doomed \ {Head(stack)}
  /\ UNCHANGED <<down, scarce>>

(* mem_talloc_free finds none, frees its block and returns. *)
FreeBlock ==
  /\ stack # << >> /\ ChildrenOf(Head(stack)) = {}
  /\ Untrack(Head(stack))
  /\ mem' = mem \ {Head(stack)}
  /\ stack' = Tail(stack)
  /\ doomed' = doomed \ {Head(stack)}
  /\ UNCHANGED <<down, scarce>>

(* mem_talloc_module_shutdown frees the records, not the blocks. *)
Shutdown ==
  /\ Ready
  /\ mem_records' = << >>
  /\ down' = TRUE
  /\ UNCHANGED <<mem, stack, scarce, doomed>>

Next ==
  \/ FreeChild \/ FreeBlock \/ Shutdown
  \/ \E p \in Blocks :
       \/ CallFree(p)
       \/ \E c \in Blocks \cup {NULL} : Alloc(c, p) \/ Steal(c, p)
       \/ \E n \in Blocks : Realloc(p, n)

Spec == Init /\ [][Next]_vars /\ WF_vars(FreeChild \/ FreeBlock)

-----------------------------------------------------------------------------
TypeOK ==
  /\ mem_records \in Seq([ptr : Blocks, parent : Blocks \cup {NULL}])
  /\ mem \subseteq Blocks
  /\ stack \in Seq(Blocks)
  /\ down \in BOOLEAN /\ scarce \in BOOLEAN
  /\ doomed \subseteq Blocks

(* A block has one record at most, and a record names blocks that exist:   *)
(* calloc may answer an address that was freed, and a record left over for *)
(* it, or an owner left over in a record, would tie the new block to the   *)
(* fate of a stranger.  A block that has no record, which its owner would  *)
(* not free, is there only when memory ran out for a record.               *)
RecordsSound ==
  /\ \A i, j \in DOMAIN mem_records :
       mem_records[i].ptr = mem_records[j].ptr => i = j
  /\ \A i \in DOMAIN mem_records :
       /\ mem_records[i].ptr \in mem
       /\ mem_records[i].parent \in mem \cup {NULL}
  /\ ~down /\ ~scarce => mem = Tracked

(* mem_talloc_free frees what it was called to free, once: its calls go    *)
(* down one branch of blocks that exist, and when it returns nothing that  *)
(* its block owned at the call is left.                                    *)
FreesExactly ==
  /\ \A i \in DOMAIN stack :
       /\ stack[i] \in mem
       /\ i < Len(stack) => ParentOf(stack[i]) = stack[i + 1]
       /\ \A j \in DOMAIN stack : stack[i] = stack[j] => i = j
  /\ stack = << >> => doomed = {}

(* The records implement ownership.  A call of mem_talloc_free frees at    *)
(* once the block and what it owns; the steps it then takes are internal.  *)
(* Of an execution where records may be missing nothing is claimed here.   *)
Promised ==
  [b \in Blocks |-> IF b \in doomed \/ scarce THEN Dead ELSE RecordedOwner[b]]

Promise == INSTANCE Ownership WITH parent <- Promised, Root <- NULL

ImplementsOwnership == Promise!Spec

(* mem_talloc_free returns. *)
FreeReturns == (stack # << >>) ~> (stack = << >>)
=============================================================================
