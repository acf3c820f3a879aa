-------------------------------- MODULE Files -------------------------------
(***************************************************************************)
(* The life of a FILE in Come (src/src/std/std.c): an object that keeps a  *)
(* C stream, a descriptor number and a file name, over the streams of the  *)
(* C library and the descriptors of the process, which are external.       *)
(*                                                                         *)
(* A program gets its objects from std.tmpfile(); a variable declared with *)
(* "FILE f" is NULL, and every method answers false, 0 or NULL for it.     *)
(* The three objects std.in, std.out and std.err are static structs.  What *)
(* is read from and written to a stream is left out.                       *)
(***************************************************************************)
EXTENDS Integers, FiniteSetsExt

CONSTANTS Objects,     \* the addresses of objects that tmpfile makes
          StdObjects,  \* those of std.in, std.out, std.err that are used
          Streams,     \* the addresses of C streams, but for the standard three
          Descriptors, \* the descriptor numbers
          Adoptable,   \* bound: the descriptors that fdopen is called with
          Paths,       \* the files that can be opened by name
          Null         \* no stream, no file, no name

Std == {"in", "out", "err"}
StdFd == [in |-> 0, out |-> 1, err |-> 2]

ASSUME FilesAssumption ==
  /\ StdObjects \subseteq Std /\ Objects \cap Std = {} /\ Streams \cap Std = {}
  /\ 0 .. 2 \subseteq Descriptors /\ Descriptors \subseteq Nat /\ Adoptable \subseteq Descriptors
  /\ "tmp" \notin Paths /\ "terminal" \notin Paths
  /\ Null \notin Streams \cup Std \cup Paths \cup {"tmp", "terminal"}

VARIABLES objects, \* fp, fd and fname of every object that is there
          streams, \* "none", "open" or "shut" (closed, its address not free)
          table,   \* the file behind each descriptor, Null when it is closed
          process, \* "start", "run", "aborted" (talloc refuses a context) or
                   \* "undefined" (C says nothing of what happens next)
          lost,    \* history: streams whose object was freed before close
          shared,  \* history: fdopen took a descriptor that had a stream
          stale    \* history: streams that a freopen that failed has closed,
                   \* while an object has their address

files == <<objects, streams, table, process, lost, shared, stale>>

Nowhere == [st |-> "none", fd |-> -1, file |-> Null, path |-> Null]
OpenStream(fd, file, path) == [st |-> "open", fd |-> fd, file |-> file, path |-> path]

Init ==
  /\ objects = [o \in StdObjects |-> [fp |-> Null, fd |-> 0, fname |-> Null]]
  /\ streams = [s \in Streams \cup Std |->
                  IF s \in Std THEN OpenStream(StdFd[s], "terminal", Null) ELSE Nowhere]
  /\ table = [d \in Descriptors |-> IF d \in 0 .. 2 THEN "terminal" ELSE Null]
  /\ process = "start" /\ lost = {} /\ shared = FALSE /\ stale = {}

(* std.co declares init() but does not define it, and the generated chain  *)
(* come_std__init() calls come_std__init_local() only where the module     *)
(* defines an init function of its own.                                    *)
DefinesInit == FALSE

Start ==
  /\ process = "start"
  /\ process' = "run"
  /\ objects' = IF DefinesInit
                  THEN [o \in StdObjects |-> [objects[o] EXCEPT !.fp = o, !.fd = StdFd[o]]]
                  ELSE objects
  /\ UNCHANGED <<streams, table, lost, shared, stale>>

-----------------------------------------------------------------------------
(* The C library. *)

FreeDescriptors == {d \in Descriptors : table[d] = Null}

Closing(st, s) == [st EXCEPT ![s] = Nowhere]

(* fclose closes the number the stream has, whatever that now stands for.  *)
TableClosing(st, t, s) == IF st[s].st = "open" THEN [t EXCEPT ![st[s].fd] = Null] ELSE t

(* fopen or tmpfile at address s: the lowest free descriptor. *)
Fopen(s, file, path) ==
  /\ streams[s].st = "none" /\ FreeDescriptors # {}
  /\ LET d == Min(FreeDescriptors)
     IN /\ streams' = [streams EXCEPT ![s] = OpenStream(d, file, path)]
        /\ table' = [table EXCEPT ![d] = file]

Running(o) == process = "run" /\ o \in DOMAIN objects

Fp(o) == objects[o].fp

(* isopen() *)
Isopen(o) == Fp(o) # Null

(* No other object has the stream of o.  When o gives it up, nobody has.   *)
Sole(o) == \A q \in DOMAIN objects \ {o} : Fp(q) # Fp(o)
GivenUp(o) == IF Sole(o) THEN stale \ {Fp(o)} ELSE stale

(* The stream of o is not at its address any more; o still has it.         *)
Gone(o) == Fp(o) # Null /\ streams[Fp(o)].st = "none"

(* The stream that open and fdopen close: not one of the standard three.   *)
Replaced(o) == IF Fp(o) = Null \/ Fp(o) \in Std THEN {} ELSE {Fp(o)}

(* The name is a string in the context of the object: talloc aborts when   *)
(* that is not one of its blocks.                                          *)
InContextOf(o) == process' = IF o \in StdObjects THEN "aborted" ELSE process

-----------------------------------------------------------------------------
(* come_std__tmpfile, when there is memory for the object; else it closes  *)
(* the stream again.                                                       *)
Tmpfile(o, s) ==
  /\ process = "run" /\ o \notin DOMAIN objects
  /\ Fopen(s, "tmp", Null)
  /\ objects' = [q \in DOMAIN objects \cup {o} |->
                   IF q = o THEN [fp |-> s, fd |-> Min(FreeDescriptors), fname |-> Null]
                   ELSE objects[q]]
  /\ UNCHANGED <<process, lost, shared, stale>>

(* The end of open and fdopen, given the streams and the descriptors with  *)
(* the new one, s, in them: the stream that o had is closed.  When that is *)
(* gone, C lets anything happen, but if s was given its address: then it   *)
(* is the new stream that is closed.                                       *)
Opened(o, s, st, t) ==
  /\ Gone(o) => Fp(o) = s
  /\ streams' = IF Replaced(o) = {} THEN st ELSE Closing(st, Fp(o))
  /\ table' = IF Replaced(o) = {} THEN t ELSE TableClosing(st, t, Fp(o))
  /\ stale' = IF Fp(o) = s THEN stale ELSE GivenUp(o)

(* come_std__FILE__open, where fopen succeeds; else it changes nothing. *)
Open(o, s, path) ==
  /\ Running(o) /\ streams[s].st = "none" /\ FreeDescriptors # {}
  /\ LET d == Min(FreeDescriptors)
     IN /\ Opened(o, s, [streams EXCEPT ![s] = OpenStream(d, path, path)],
                  [table EXCEPT ![d] = path])
        /\ objects' = [objects EXCEPT ![o] = [fp |-> s, fd |-> d, fname |-> path]]
  /\ InContextOf(o)
  /\ UNCHANGED <<lost, shared>>

(* come_std__FILE__fdopen: a stream on a descriptor that is open; the name *)
(* stays.  The stream there was is closed even if it has that descriptor.  *)
Fdopen(o, s, d) ==
  /\ Running(o) /\ streams[s].st = "none" /\ table[d] # Null
  /\ Opened(o, s, [streams EXCEPT ![s] = OpenStream(d, table[d], Null)], table)
  /\ objects' = [objects EXCEPT ![o].fp = s, ![o].fd = d]
  /\ shared' = (shared \/ \E u \in DOMAIN streams : streams[u].st = "open" /\ streams[u].fd = d)
  /\ UNCHANGED <<process, lost>>

(* Mutant of Reopen: the name is the one before. *)
ReopenNameless(o, path) ==
  /\ Running(o) /\ Fp(o) # Null /\ ~Gone(o)
  /\ \E d \in IF streams[Fp(o)].st = "open" THEN {streams[Fp(o)].fd}
              ELSE IF FreeDescriptors = {} THEN {} ELSE {Min(FreeDescriptors)} :
       /\ table' = [table EXCEPT ![d] = path]
       /\ streams' = [streams EXCEPT ![Fp(o)] = OpenStream(d, path, path)]
       /\ objects' = [objects EXCEPT ![o].fd = d]
  /\ InContextOf(o) /\ stale' = GivenUp(o)
  /\ UNCHANGED <<lost, shared>>

(* come_std__FILE__reopen, where freopen succeeds: the stream keeps its    *)
(* descriptor, or takes the lowest if it has none.                         *)
Reopen(o, path) ==
  /\ Running(o) /\ Fp(o) # Null /\ ~Gone(o)
  /\ \E d \in IF streams[Fp(o)].st = "open" THEN {streams[Fp(o)].fd}
              ELSE IF FreeDescriptors = {} THEN {} ELSE {Min(FreeDescriptors)} :
       /\ table' = [table EXCEPT ![d] = path]
       /\ streams' = [streams EXCEPT ![Fp(o)] = OpenStream(d, path, path)]
       /\ objects' = [objects EXCEPT ![o].fd = d, ![o].fname = path]
  /\ InContextOf(o) /\ stale' = GivenUp(o)
  /\ UNCHANGED <<lost, shared>>

(* freopen fails: it has closed the stream, and the object keeps it.  A C  *)
(* library may leave the stream where it is, or free it as fclose does.    *)
ReopenFails(o) ==
  /\ Running(o) /\ Fp(o) # Null /\ ~Gone(o)
  /\ \E st \in {"shut", "none"} : streams' = [streams EXCEPT ![Fp(o)] = [Nowhere EXCEPT !.st = st]]
  /\ table' = TableClosing(streams, table, Fp(o))
  /\ stale' = stale \cup {Fp(o)}
  /\ UNCHANGED <<objects, process, lost, shared>>

(* Mutants of Close: fp stays; the cached descriptor is closed as well. *)
CloseKeepingFp(o) ==
  /\ Running(o) /\ Fp(o) # Null /\ ~Gone(o)
  /\ streams' = Closing(streams, Fp(o))
  /\ table' = TableClosing(streams, table, Fp(o))
  /\ stale' = GivenUp(o)
  /\ UNCHANGED <<objects, process, lost, shared>>

CloseFdToo(o) ==
  /\ Running(o) /\ ~Gone(o)
  /\ streams' = IF Fp(o) = Null THEN streams ELSE Closing(streams, Fp(o))
  /\ table' = [table EXCEPT ![objects[o].fd] = Null]
  /\ objects' = [objects EXCEPT ![o].fp = Null]
  /\ stale' = GivenUp(o)
  /\ UNCHANGED <<process, lost, shared>>

(* come_std__FILE__close: fd and fname stay. *)
Close(o) ==
  /\ Running(o) /\ Fp(o) # Null /\ ~Gone(o)
  /\ streams' = Closing(streams, Fp(o))
  /\ table' = TableClosing(streams, table, Fp(o))
  /\ objects' = [objects EXCEPT ![o].fp = Null]
  /\ stale' = GivenUp(o)
  /\ UNCHANGED <<process, lost, shared>>

(* Any method that gives the C library the address of a stream that it has *)
(* freed, a second fclose for one.                                         *)
UseGone(o) ==
  /\ Running(o) /\ Gone(o)
  /\ process' = "undefined"
  /\ UNCHANGED <<objects, streams, table, lost, shared, stale>>

(* fname() without a name, and gets() from a stream that has a line, make  *)
(* a string in the context of the object.                                  *)
NewString(o) ==
  /\ Running(o)
  /\ objects[o].fname = Null \/ (Fp(o) # Null /\ streams[Fp(o)].st = "open")
  /\ InContextOf(o)
  /\ UNCHANGED <<objects, streams, table, lost, shared, stale>>

(* mem_talloc_free: the object is gone with its names.  Nothing closes its *)
(* stream: come_std__FILE__exit is empty, and nobody calls it.             *)
FreeObject(o) ==
  /\ Running(o) /\ o \in Objects
  /\ objects' = [q \in DOMAIN objects \ {o} |-> objects[q]]
  /\ lost' = IF Fp(o) # Null /\ ~Gone(o) /\ Sole(o) THEN lost \cup {Fp(o)} ELSE lost
  /\ stale' = GivenUp(o)
  /\ UNCHANGED <<streams, table, process, shared>>

Next ==
  \/ Start
  \/ \E o \in Objects \cup StdObjects :
       \/ \E s \in Streams :
            \/ Tmpfile(o, s)
            \/ \E path \in Paths : Open(o, s, path)
            \/ \E d \in Adoptable : Fdopen(o, s, d)
       \/ \E path \in Paths : Reopen(o, path)
       \/ ReopenFails(o) \/ Close(o) \/ UseGone(o) \/ NewString(o) \/ FreeObject(o)

Spec == Init /\ [][Next]_files
-----------------------------------------------------------------------------
(* When isopen() of an object is true it has a stream that is open, and no *)
(* other object has it.  Not so where a reopen failed: what that breaks is *)
(* confined to the stream it was called for, and to those that are given   *)
(* its address while an object still has it.  And every stream a program   *)
(* opened is kept by an object, which can close it: open and fdopen leak   *)
(* none, whatever failed before; only freeing an object, which does not    *)
(* close its stream, does.                                                 *)
StreamsAccounted ==
  /\ \A o \in DOMAIN objects : Isopen(o) /\ Fp(o) \notin stale =>
       streams[Fp(o)].st = "open" /\ Sole(o)
  /\ \A s \in Streams : streams[s].st # "none" =>
       s \in lost \/ \E o \in DOMAIN objects : Fp(o) = s

(* What an object keeps about its stream is so: the number is the stream's *)
(* descriptor, the name that of the file it was opened on, unless it was   *)
(* opened without a name; but for the streams of a reopen that failed.     *)
HandleAgrees ==
  \A o \in DOMAIN objects \cap Objects :
    Fp(o) # Null /\ Fp(o) \notin stale =>
      /\ objects[o].fd = streams[Fp(o)].fd
      /\ streams[Fp(o)].path # Null => objects[o].fname = streams[Fp(o)].path

(* The descriptor of an open stream stands for the file the stream was     *)
(* opened on: no call on another object closes it, after which the number  *)
(* would be given to another file.  Not so once fdopen has put a second    *)
(* stream on a descriptor: closing either closes it for both.              *)
OwnDescriptor ==
  ~shared => \A s \in DOMAIN streams : streams[s].st = "open" => table[streams[s].fd] = streams[s].file
=============================================================================
