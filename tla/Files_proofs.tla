---------------------------- MODULE Files_proofs ----------------------------
(***************************************************************************)
(* The streams that FILE objects keep, for every set of objects, streams,  *)
(* descriptors and files.                                                  *)
(***************************************************************************)
EXTENDS Files, WellFoundedInduction, TLAPS

(* A set of numbers that is not empty has a least element. *)
LEMMA MinIsLeast ==
  ASSUME NEW S \in SUBSET Nat, S # {}
  PROVE  Min(S) \in S /\ \A x \in S : Min(S) <= x
<1> DEFINE R == {ss \in Nat \X Nat : ss[1] < ss[2]}
<1>1. IsWellFoundedOn(R, Nat)
  <2>1. OpToRel(<, Nat) = R
    BY Zenon DEF OpToRel
  <2> QED BY <2>1, NatLessThanWellFounded, Zenon
<1> HIDE DEF R
<1>2. PICK x \in S : \A y \in S : ~ (<<y, x>> \in R)
  BY <1>1, WFMin
<1>3. ASSUME NEW y \in S, y < x
      PROVE  FALSE
  <2>1. <<y, x>> \in Nat \X Nat /\ <<y, x>>[1] < <<y, x>>[2]
    BY <1>3
  <2>2. <<y, x>> \in R
    BY <2>1, Zenon DEF R
  <2> QED BY <1>2, <2>2
<1>4. \A y \in S : x <= y
  BY <1>3
<1> QED BY <1>4 DEF Min

-----------------------------------------------------------------------------
Behind == Paths \cup {"tmp", "terminal"}

Handle == [fp : Streams \cup {Null}, fd : Descriptors, fname : Paths \cup {Null}]

Stream == [st : {"none", "open", "shut"}, fd : Descriptors \cup {-1},
           file : Behind \cup {Null}, path : Paths \cup {Null}]

IsOpen(s) == streams[s].st = "open"

Typed ==
  /\ objects \in [DOMAIN objects -> Handle]
  /\ streams \in [Streams \cup Std -> Stream]
  /\ \A s \in Streams \cup Std : IsOpen(s) => streams[s].fd \in Descriptors /\ streams[s].file \in Behind
  /\ table \in [Descriptors -> Behind \cup {Null}]
  /\ stale \subseteq Streams

(* Until fdopen shares one, no two open streams have one descriptor. *)
Apart ==
  ~shared => \A s, u \in Streams \cup Std :
               IsOpen(s) /\ IsOpen(u) /\ streams[s].fd = streams[u].fd => s = u

IInv == Typed /\ StreamsAccounted /\ HandleAgrees /\ Apart /\ OwnDescriptor

LEMMA FreeOne ==
  ASSUME FreeDescriptors # {}
  PROVE  Min(FreeDescriptors) \in Descriptors /\ table[Min(FreeDescriptors)] = Null
<1>1. FreeDescriptors \in SUBSET Nat
  BY FilesAssumption DEF FreeDescriptors
<1>2. Min(FreeDescriptors) \in FreeDescriptors
  BY <1>1, MinIsLeast
<1> QED BY <1>2 DEF FreeDescriptors

(* Of the streams that a failed reopen closed, a step of o takes at most   *)
(* one out of account, which no other object has.                          *)
Keeps(o) ==
  /\ stale' \subseteq stale
  /\ \A x \in stale \ stale' : \A q \in DOMAIN objects \ {o} : Fp(q) # x

LEMMA GivenUpKeeps ==
  ASSUME NEW o, o \in DOMAIN objects, stale' = GivenUp(o)
  PROVE  Keeps(o)
BY DEF GivenUp, Sole, Keeps

(* Then the other objects had what they are to have after the step. *)
LEMMA Others ==
  ASSUME IInv, NEW o, Keeps(o), NEW q \in DOMAIN objects \ {o}, Fp(q) # Null, Fp(q) \notin stale'
  PROVE  /\ Fp(q) \notin stale /\ Fp(q) \in Streams /\ streams[Fp(q)].st = "open"
         /\ \A r \in DOMAIN objects \ {q} : Fp(r) # Fp(q)
<1>1. Fp(q) \notin stale
  BY DEF Keeps
<1>2. Fp(q) \in Streams
  BY DEF IInv, Typed, Handle, Fp
<1> QED BY <1>1, <1>2 DEF IInv, StreamsAccounted, Isopen, Sole

(* An object whose stream is not open has one that a failed reopen closed. *)
LEMMA NotOpen ==
  ASSUME IInv, NEW q \in DOMAIN objects, Fp(q) # Null, streams[Fp(q)].st # "open"
  PROVE  Fp(q) \in stale
BY DEF IInv, StreamsAccounted, Isopen

(* tmpfile, open and fdopen alike: o gets the new stream s, on descriptor  *)
(* d, and the stream it had is closed.                                     *)
Had(o) == IF o \in DOMAIN objects THEN Fp(o) ELSE Null

Gets(o, s, d, file, path, name) ==
  /\ s \in Streams /\ streams[s].st = "none" /\ d \in Descriptors /\ file \in Behind
  /\ path \in Paths \cup {Null} /\ name \in Paths \cup {Null} /\ (path # Null => name = path)
  /\ DOMAIN objects' = DOMAIN objects \cup {o}
  /\ objects'[o] = [fp |-> s, fd |-> d, fname |-> name]
  /\ \A q \in DOMAIN objects \ {o} : objects'[q] = objects[q]
  /\ objects' \in [DOMAIN objects' -> Handle]
  /\ streams' = [u \in Streams \cup Std |->
                   IF u = s THEN OpenStream(d, file, path)
                   ELSE IF u = Had(o) THEN Nowhere ELSE streams[u]]
  /\ table' = [e \in Descriptors |->
                 IF Had(o) # Null /\ IsOpen(Had(o)) /\ e = streams[Had(o)].fd THEN Null
                 ELSE IF e = d THEN file ELSE table[e]]
  /\ ~shared' => ~shared /\ \A u \in Streams \cup Std : IsOpen(u) => streams[u].fd # d
  /\ Had(o) # s /\ Keeps(o) /\ (s \in stale => s \in stale')
  /\ lost' = lost

LEMMA GetsStep ==
  ASSUME IInv, NEW o, NEW s, NEW d, NEW file, NEW path, NEW name,
         Gets(o, s, d, file, path, name)
  PROVE  IInv'
<1> USE FilesAssumption
<1>0. /\ Had(o) \in Streams \cup {Null} /\ Had(o) # s
      /\ \A q \in DOMAIN objects : Fp(q) \in Streams \cup {Null}
  BY DEF Had, Gets, IInv, Typed, Handle, Fp
<1>1. /\ \A u \in Streams \cup Std : u # s /\ u # Had(o) => streams'[u] = streams[u]
      /\ streams'[s] = OpenStream(d, file, path) /\ s \in Streams
      /\ Had(o) # Null => streams'[Had(o)] = Nowhere
      /\ \A u \in Streams \cup Std :
           IsOpen(u)' => u = s \/ (u # Had(o) /\ IsOpen(u) /\ streams'[u] = streams[u])
  BY <1>0 DEF Gets, Nowhere, IsOpen
<1>2. \A q \in DOMAIN objects' : q = o \/ (q \in DOMAIN objects /\ Fp(q)' = Fp(q))
  BY DEF Gets, Fp
<1>3. Fp(o)' = s /\ o \in DOMAIN objects'
  BY DEF Gets, Fp
<1>4. Typed'
  <2>1. streams' \in [Streams \cup Std -> Stream]
    BY <1>0 DEF Gets, IInv, Typed, Stream, OpenStream, Nowhere
  <2>2. \A u \in Streams \cup Std :
          IsOpen(u)' => streams'[u].fd \in Descriptors /\ streams'[u].file \in Behind
    BY <1>1 DEF Gets, IInv, Typed, OpenStream, IsOpen
  <2>3. table' \in [Descriptors -> Behind \cup {Null}] /\ stale' \subseteq Streams
    BY DEF Gets, Keeps, IInv, Typed
  <2> QED BY <2>1, <2>2, <2>3 DEF Typed, Gets, IsOpen
<1>5. StreamsAccounted'
  <2>1. ASSUME NEW q \in DOMAIN objects', Fp(q)' # Null, Fp(q)' \notin stale'
        PROVE  streams'[Fp(q)'].st = "open" /\ \A r \in DOMAIN objects' \ {q} : Fp(r)' # Fp(q)'
    <3>1. CASE q = o
      <4>1. s \notin stale
        BY <1>3, <2>1, <3>1 DEF Gets
      <4>2. \A r \in DOMAIN objects : Fp(r) # s
        BY <1>0, <4>1, NotOpen DEF Gets
      <4> QED BY <1>1, <1>2, <1>3, <3>1, <4>2 DEF OpenStream
    <3>2. CASE q # o
      <4>1. q \in DOMAIN objects /\ Fp(q)' = Fp(q)
        BY <1>2, <3>2
      <4>2. /\ streams[Fp(q)].st = "open" /\ Fp(q) \in Streams
            /\ \A r \in DOMAIN objects \ {q} : Fp(r) # Fp(q)
        BY <2>1, <3>2, <4>1, Others DEF Gets
      <4>3. Fp(q) # s /\ Fp(q) # Had(o)
        BY <3>2, <4>2, <2>1, <4>1 DEF Gets, Had
      <4> QED BY <1>1, <1>2, <1>3, <4>1, <4>2, <4>3
    <3> QED BY <3>1, <3>2
  <2>2. ASSUME NEW u \in Streams, streams'[u].st # "none"
        PROVE  u \in lost' \/ \E q \in DOMAIN objects' : Fp(q)' = u
    <3>1. CASE u = s
      BY <1>3, <3>1
    <3>2. CASE u # s
      <4>1. u # Had(o) /\ streams'[u] = streams[u]
        BY <1>1, <2>2, <3>2 DEF Nowhere
      <4>2. u \in lost \/ \E q \in DOMAIN objects : Fp(q) = u
        BY <2>2, <4>1 DEF IInv, StreamsAccounted
      <4>3. ASSUME NEW q \in DOMAIN objects, Fp(q) = u
            PROVE  q \in DOMAIN objects' /\ Fp(q)' = u
        BY <4>1, <4>3 DEF Gets, Had, Fp
      <4> QED BY <4>2, <4>3 DEF Gets
    <3> QED BY <3>1, <3>2
  <2> QED BY <2>1, <2>2 DEF StreamsAccounted, Isopen, Sole, Fp
<1>6. HandleAgrees'
  <2> SUFFICES ASSUME NEW q \in DOMAIN objects' \cap Objects, Fp(q)' # Null, Fp(q)' \notin stale'
               PROVE  /\ objects'[q].fd = streams'[Fp(q)'].fd
                      /\ streams'[Fp(q)'].path # Null => objects'[q].fname = streams'[Fp(q)'].path
    BY DEF HandleAgrees, Fp
  <2>1. CASE q = o
    BY <1>1, <1>3, <2>1 DEF Gets, OpenStream
  <2>2. CASE q # o
    <3>1. q \in DOMAIN objects /\ objects'[q] = objects[q] /\ Fp(q)' = Fp(q)
      BY <1>2, <2>2 DEF Gets
    <3>2. /\ Fp(q) \notin stale /\ streams[Fp(q)].st = "open" /\ Fp(q) \in Streams
          /\ \A r \in DOMAIN objects \ {q} : Fp(r) # Fp(q)
      BY <2>2, <3>1, Others DEF Gets
    <3>3. streams'[Fp(q)] = streams[Fp(q)]
      BY <1>1, <2>2, <3>1, <3>2 DEF Gets, Had
    <3> QED BY <3>1, <3>2, <3>3 DEF IInv, HandleAgrees
  <2> QED BY <2>1, <2>2
<1>7. Apart'
  BY <1>1 DEF Gets, IInv, Apart, OpenStream, IsOpen
<1>8. OwnDescriptor'
  <2> SUFFICES ASSUME ~shared', NEW u \in Streams \cup Std, IsOpen(u)'
               PROVE  table'[streams'[u].fd] = streams'[u].file
    BY DEF OwnDescriptor, Gets, IsOpen
  <2>0. ~shared /\ \A v \in Streams \cup Std : IsOpen(v) => streams[v].fd # d
    BY DEF Gets
  <2>1. CASE u = s
    BY <1>0, <1>1, <2>0, <2>1 DEF Gets, OpenStream
  <2>2. CASE u # s
    <3>1. u # Had(o) /\ IsOpen(u) /\ streams'[u] = streams[u] /\ streams[u].fd \in Descriptors
      BY <1>1, <2>2 DEF IInv, Typed
    <3>2. table[streams[u].fd] = streams[u].file
      BY <2>0, <3>1 DEF IInv, OwnDescriptor, IsOpen, Typed
    <3>3. ~(Had(o) # Null /\ IsOpen(Had(o)) /\ streams[u].fd = streams[Had(o)].fd)
      BY <1>0, <2>0, <3>1 DEF IInv, Apart
    <3> QED BY <2>0, <3>1, <3>2, <3>3 DEF Gets
  <2> QED BY <2>1, <2>2
<1> QED BY <1>4, <1>5, <1>6, <1>7, <1>8 DEF IInv

(* open and fdopen of o when its stream was gone, and the new one is at    *)
(* the same address, which is then closed: o is where it was.              *)
Regets(o, s, handle) ==
  /\ o \in DOMAIN objects /\ Fp(o) = s /\ s \in Streams /\ streams[s].st = "none"
  /\ handle \in Handle /\ handle.fp = s
  /\ objects' = [objects EXCEPT ![o] = handle]
  /\ streams' = [streams EXCEPT ![s] = Nowhere]
  /\ \E d \in Descriptors :
       /\ table' = [table EXCEPT ![d] = Null]
       /\ ~shared' => ~shared /\ \A u \in Streams \cup Std : IsOpen(u) => streams[u].fd # d
  /\ lost' = lost /\ stale' = stale

LEMMA RegetsStep ==
  ASSUME IInv, NEW o, NEW s, NEW handle, Regets(o, s, handle)
  PROVE  IInv'
<1> USE FilesAssumption
<1>1. s \in stale
  BY NotOpen DEF Regets
<1>2. /\ DOMAIN objects' = DOMAIN objects
      /\ \A q \in DOMAIN objects \ {o} : objects'[q] = objects[q]
      /\ \A q \in DOMAIN objects : Fp(q)' = Fp(q)
  BY DEF Regets, Fp
<1>3. /\ \A u \in Streams \cup Std : u # s => streams'[u] = streams[u]
      /\ streams'[s] = Nowhere /\ s \in Streams
      /\ \A u \in Streams \cup Std : IsOpen(u)' => u # s /\ IsOpen(u)
  BY DEF Regets, IInv, Typed, Nowhere, IsOpen
<1>4. Typed'
  <2>1. objects' \in [DOMAIN objects' -> Handle]
    BY DEF Regets, IInv, Typed
  <2>2. streams' \in [Streams \cup Std -> Stream] /\ table' \in [Descriptors -> Behind \cup {Null}]
    BY DEF Regets, IInv, Typed, Stream, Nowhere
  <2>3. \A u \in Streams \cup Std :
          IsOpen(u)' => streams'[u].fd \in Descriptors /\ streams'[u].file \in Behind
    BY <1>3 DEF IInv, Typed
  <2> QED BY <2>1, <2>2, <2>3 DEF Typed, Regets, IsOpen, IInv
<1>5. StreamsAccounted'
  <2>1. ASSUME NEW q \in DOMAIN objects, Fp(q) # Null, Fp(q) \notin stale
        PROVE  streams'[Fp(q)].st = "open" /\ \A r \in DOMAIN objects \ {q} : Fp(r) # Fp(q)
    <3>1. Fp(q) # s /\ Fp(q) \in Streams
      BY <1>1, <2>1 DEF IInv, Typed, Handle, Fp
    <3> QED BY <1>3, <2>1, <3>1 DEF IInv, StreamsAccounted, Isopen, Sole
  <2>2. ASSUME NEW u \in Streams, streams'[u].st # "none"
        PROVE  u \in lost \/ \E q \in DOMAIN objects : Fp(q) = u
    BY <1>3, <2>2 DEF IInv, StreamsAccounted, Nowhere
  <2>3. stale' = stale /\ lost' = lost
    BY DEF Regets
  <2>4. \A q \in DOMAIN objects : objects'[q].fp = Fp(q)
    BY <1>2 DEF Fp
  <2> QED BY <1>2, <2>1, <2>2, <2>3, <2>4 DEF StreamsAccounted, Isopen, Sole, Fp
<1>6. HandleAgrees'
  <2> SUFFICES ASSUME NEW q \in DOMAIN objects \cap Objects, Fp(q) # Null, Fp(q) \notin stale
               PROVE  /\ objects'[q].fd = streams'[Fp(q)].fd
                      /\ streams'[Fp(q)].path # Null => objects'[q].fname = streams'[Fp(q)].path
    BY <1>2 DEF HandleAgrees, Fp, Regets
  <2>1. Fp(q) # s /\ Fp(q) \in Streams
    BY <1>1 DEF IInv, Typed, Handle, Fp
  <2>2. q # o
    BY <2>1 DEF Regets
  <2> QED BY <1>2, <1>3, <2>1, <2>2 DEF IInv, HandleAgrees
<1>7. Apart'
  BY <1>3 DEF Regets, IInv, Apart, IsOpen
<1>8. OwnDescriptor'
  BY <1>3 DEF Regets, IInv, OwnDescriptor, IsOpen, Typed
<1> QED BY <1>4, <1>5, <1>6, <1>7, <1>8 DEF IInv

LEMMA CloseStep ==
  ASSUME IInv, NEW o \in Objects \cup StdObjects, Close(o)
  PROVE  IInv'
<1> USE FilesAssumption
<1>1. /\ o \in DOMAIN objects /\ Fp(o) \in Streams /\ objects \in [DOMAIN objects -> Handle]
  BY DEF Close, Running, IInv, Typed, Handle, Fp
<1>2. Keeps(o)
  BY <1>1, GivenUpKeeps DEF Close
<1>3. /\ DOMAIN objects' = DOMAIN objects
      /\ \A q \in DOMAIN objects \ {o} : objects'[q] = objects[q] /\ Fp(q)' = Fp(q)
      /\ Fp(o)' = Null
  BY <1>1 DEF Close, Fp, Handle
<1>4. /\ \A u \in Streams \cup Std : u # Fp(o) => streams'[u] = streams[u]
      /\ streams'[Fp(o)] = Nowhere
  BY <1>1 DEF Close, Closing, IInv, Typed
<1>5. Typed'
  BY <1>1, <1>2 DEF Close, Keeps, Closing, TableClosing, IInv, Typed, Handle, Stream, Nowhere, IsOpen, Fp
<1>6. ASSUME NEW q \in DOMAIN objects, Fp(q)' # Null, Fp(q)' \notin stale'
      PROVE  /\ q # o /\ Fp(q)' = Fp(q) /\ Fp(q) \notin stale /\ Fp(q) \in Streams
             /\ streams'[Fp(q)] = streams[Fp(q)] /\ streams[Fp(q)].st = "open"
             /\ \A r \in DOMAIN objects \ {q} : Fp(r)' # Fp(q)
  <2>1. q # o /\ Fp(q)' = Fp(q)
    BY <1>3, <1>6
  <2>2. /\ Fp(q) \notin stale /\ Fp(q) \in Streams /\ streams[Fp(q)].st = "open"
        /\ \A r \in DOMAIN objects \ {q} : Fp(r) # Fp(q)
    BY <1>2, <1>6, <2>1, Others
  <2> QED BY <1>1, <1>3, <1>4, <1>6, <2>1, <2>2
<1>7. StreamsAccounted'
  <2>1. ASSUME NEW u \in Streams, streams'[u].st # "none"
        PROVE  u \in lost' \/ \E q \in DOMAIN objects' : Fp(q)' = u
    <3>1. u # Fp(o) /\ streams'[u] = streams[u]
      BY <1>4, <2>1 DEF Nowhere
    <3>2. u \in lost \/ \E q \in DOMAIN objects : Fp(q) = u
      BY <2>1, <3>1 DEF IInv, StreamsAccounted
    <3> QED BY <1>3, <3>1, <3>2 DEF Close
  <2> QED BY <1>3, <1>6, <2>1 DEF StreamsAccounted, Isopen, Sole, Fp
<1>8. HandleAgrees'
  BY <1>3, <1>6 DEF IInv, HandleAgrees, Fp
<1>9. Apart'
  BY <1>1 DEF Close, Closing, TableClosing, IInv, Typed, Apart, Nowhere, IsOpen, Fp
<1>10. OwnDescriptor'
  BY <1>1 DEF Close, Closing, TableClosing, IInv, Typed, Apart, OwnDescriptor, Nowhere, IsOpen, Fp
<1> QED BY <1>5, <1>7, <1>8, <1>9, <1>10 DEF IInv

LEMMA TmpfileStep ==
  ASSUME IInv, NEW o \in Objects \cup StdObjects, NEW s \in Streams, Tmpfile(o, s)
  PROVE  IInv'
<1> DEFINE d == Min(FreeDescriptors)
<1>1. d \in Descriptors /\ table[d] = Null
  BY FreeOne DEF Tmpfile, Fopen
<1> HIDE DEF d
<1>2. /\ o \notin DOMAIN objects /\ streams[s].st = "none"
      /\ streams' = [streams EXCEPT ![s] = OpenStream(d, "tmp", Null)]
      /\ table' = [table EXCEPT ![d] = "tmp"]
      /\ objects' = [q \in DOMAIN objects \cup {o} |->
                       IF q = o THEN [fp |-> s, fd |-> d, fname |-> Null] ELSE objects[q]]
      /\ lost' = lost /\ shared' = shared /\ stale' = stale
  BY DEF Tmpfile, Fopen, d
<1>3. objects' \in [DOMAIN objects' -> Handle]
  BY <1>1, <1>2 DEF IInv, Typed, Handle
<1>4. ~shared => \A u \in Streams \cup Std : IsOpen(u) => streams[u].fd # d
  BY <1>1, FilesAssumption DEF IInv, Typed, OwnDescriptor, IsOpen, Behind
<1>5. Keeps(o) /\ Had(o) = Null /\ Had(o) # s
  BY <1>2, FilesAssumption DEF Keeps, Had
<1>6. streams' = [u \in Streams \cup Std |->
                    IF u = s THEN OpenStream(d, "tmp", Null)
                    ELSE IF u = Had(o) THEN Nowhere ELSE streams[u]]
  <2>1. \A u \in Streams \cup Std : u # Had(o)
    BY <1>5, FilesAssumption
  <2>2. DOMAIN streams = Streams \cup Std
    BY DEF IInv, Typed
  <2> QED BY <1>2, <2>1, <2>2, ZenonT(30)
<1>7. table' = [e \in Descriptors |->
                  IF Had(o) # Null /\ IsOpen(Had(o)) /\ e = streams[Had(o)].fd THEN Null
                  ELSE IF e = d THEN "tmp" ELSE table[e]]
  BY <1>1, <1>2, <1>5, ZenonT(30) DEF IInv, Typed
<1>8. /\ DOMAIN objects' = DOMAIN objects \cup {o}
      /\ objects'[o] = [fp |-> s, fd |-> d, fname |-> Null]
      /\ \A q \in DOMAIN objects \ {o} : objects'[q] = objects[q]
  BY <1>2
<1>9. Gets(o, s, d, "tmp", Null, Null)
  BY <1>1, <1>2, <1>3, <1>4, <1>5, <1>6, <1>7, <1>8 DEF Gets, Behind
<1> QED BY <1>9, GetsStep

LEMMA OpenStep ==
  ASSUME IInv, NEW o \in Objects \cup StdObjects, NEW s \in Streams, NEW path \in Paths,
         Open(o, s, path)
  PROVE  IInv'
<1> USE FilesAssumption
<1> DEFINE d == Min(FreeDescriptors)
           st == [streams EXCEPT ![s] = OpenStream(d, path, path)]
           t == [table EXCEPT ![d] = path]
           handle == [fp |-> s, fd |-> d, fname |-> path]
<1>1. d \in Descriptors /\ table[d] = Null
  BY FreeOne DEF Open
<1>2. /\ Running(o) /\ streams[s].st = "none" /\ Opened(o, s, st, t)
      /\ objects' = [objects EXCEPT ![o] = handle]
      /\ lost' = lost /\ shared' = shared
  BY DEF Open
<1> HIDE DEF d
<1>3. /\ o \in DOMAIN objects /\ Had(o) = Fp(o) /\ Fp(o) \in Streams \cup {Null}
      /\ Fp(o) \notin Std /\ handle \in Handle /\ handle.fp = s
  BY <1>1, <1>2 DEF Running, Had, IInv, Typed, Handle, Fp
<1>4. objects' \in [DOMAIN objects' -> Handle]
  BY <1>2, <1>3 DEF IInv, Typed
<1>5. ~shared => \A u \in Streams \cup Std : IsOpen(u) => streams[u].fd # d
  BY <1>1 DEF IInv, Typed, OwnDescriptor, IsOpen, Behind
<1>6. CASE Fp(o) = s
  <2>1. streams' = Closing(st, s) /\ table' = TableClosing(st, t, s) /\ stale' = stale
    BY <1>2, <1>3, <1>6 DEF Opened, Replaced
  <2>2. streams' = [streams EXCEPT ![s] = Nowhere]
    BY <2>1 DEF Closing, IInv, Typed
  <2>3. st[s] = OpenStream(d, path, path)
    BY DEF IInv, Typed
  <2>4. table' = [table EXCEPT ![d] = Null]
    BY <1>1, <2>1, <2>3 DEF TableClosing, OpenStream, IInv, Typed
  <2>5. Regets(o, s, handle)
    BY <1>1, <1>2, <1>3, <1>5, <1>6, <2>1, <2>2, <2>4 DEF Regets
  <2> QED BY <2>5, RegetsStep
<1>7. CASE Fp(o) # s
  <2>1. /\ streams' = IF Fp(o) = Null THEN st ELSE Closing(st, Fp(o))
        /\ table' = IF Fp(o) = Null THEN t ELSE TableClosing(st, t, Fp(o))
        /\ stale' = GivenUp(o)
    BY <1>2, <1>3, <1>7 DEF Opened, Replaced
  <2>2. Keeps(o) /\ (s \in stale => s \in stale')
    BY <1>3, <1>7, <2>1, GivenUpKeeps DEF GivenUp
  <2>3. streams' = [u \in Streams \cup Std |->
                      IF u = s THEN OpenStream(d, path, path)
                      ELSE IF u = Had(o) THEN Nowhere ELSE streams[u]]
    <3>1. DOMAIN streams = Streams \cup Std
      BY DEF IInv, Typed
    <3>2. CASE Fp(o) = Null
      <4>1. \A u \in Streams \cup Std : u # Had(o)
        BY <1>3, <3>2
      <4> QED BY <2>1, <3>1, <3>2, <4>1, ZenonT(30)
    <3>3. CASE Fp(o) # Null
      BY <1>3, <1>7, <2>1, <3>1, <3>3, ZenonT(30) DEF Closing
    <3> QED BY <3>2, <3>3
  <2>4. table' = [e \in Descriptors |->
                    IF Had(o) # Null /\ IsOpen(Had(o)) /\ e = streams[Had(o)].fd THEN Null
                    ELSE IF e = d THEN path ELSE table[e]]
    BY <1>3, <1>7, <2>1 DEF TableClosing, IInv, Typed, IsOpen
  <2>5. /\ DOMAIN objects' = DOMAIN objects \cup {o} /\ objects'[o] = handle
        /\ \A q \in DOMAIN objects \ {o} : objects'[q] = objects[q]
    BY <1>2, <1>3
  <2>6. Gets(o, s, d, path, path, path)
    BY <1>1, <1>2, <1>3, <1>4, <1>5, <1>7, <2>2, <2>3, <2>4, <2>5, ZenonT(30) DEF Gets, Behind
  <2> QED BY <2>6, GetsStep
<1> QED BY <1>6, <1>7

LEMMA FdopenStep ==
  ASSUME IInv, NEW o \in Objects \cup StdObjects, NEW s \in Streams, NEW d \in Adoptable,
         Fdopen(o, s, d)
  PROVE  IInv'
<1> USE FilesAssumption
<1> DEFINE st == [streams EXCEPT ![s] = OpenStream(d, table[d], Null)]
           handle == [fp |-> s, fd |-> d, fname |-> objects[o].fname]
<1>1. /\ Running(o) /\ streams[s].st = "none" /\ Opened(o, s, st, table) /\ table[d] # Null
      /\ objects' = [objects EXCEPT ![o].fp = s, ![o].fd = d]
      /\ lost' = lost
      /\ shared' = (shared \/ \E u \in DOMAIN streams :
                                streams[u].st = "open" /\ streams[u].fd = d)
  BY DEF Fdopen
<1>2. d \in Descriptors /\ table[d] \in Behind
  BY <1>1 DEF IInv, Typed
<1>3. /\ o \in DOMAIN objects /\ Had(o) = Fp(o) /\ Fp(o) \in Streams \cup {Null}
      /\ Fp(o) \notin Std /\ objects[o] \in Handle
  BY <1>1 DEF Running, Had, IInv, Typed, Handle, Fp
<1>4. handle \in Handle /\ handle.fp = s /\ objects[o].fname \in Paths \cup {Null}
  BY <1>2, <1>3 DEF Handle
<1>5. objects' = [objects EXCEPT ![o] = handle]
  <2>1. DOMAIN objects' = DOMAIN objects /\ \A q \in DOMAIN objects \ {o} : objects'[q] = objects[q]
    BY <1>1
  <2>2. objects'[o] = [objects[o] EXCEPT !.fp = s, !.fd = d]
    BY <1>1, <1>3
  <2>3. objects'[o] = handle
    BY <1>3, <2>2 DEF Handle
  <2>4. objects' \in [DOMAIN objects -> {objects'[q] : q \in DOMAIN objects}]
    BY <1>1
  <2> QED BY <2>1, <2>3, <2>4 DEF IInv, Typed
<1>6. objects' \in [DOMAIN objects' -> Handle]
  BY <1>4, <1>5 DEF IInv, Typed
<1>7. ~shared' => ~shared /\ \A u \in Streams \cup Std : IsOpen(u) => streams[u].fd # d
  BY <1>1 DEF IInv, Typed, IsOpen
<1>8. CASE Fp(o) = s
  <2>1. streams' = Closing(st, s) /\ table' = TableClosing(st, table, s) /\ stale' = stale
    BY <1>1, <1>3, <1>8 DEF Opened, Replaced
  <2>2. streams' = [streams EXCEPT ![s] = Nowhere]
    BY <2>1 DEF Closing, IInv, Typed
  <2>3. st[s] = OpenStream(d, table[d], Null)
    BY DEF IInv, Typed
  <2>4. table' = [table EXCEPT ![d] = Null]
    BY <1>2, <2>1, <2>3 DEF TableClosing, OpenStream, IInv, Typed
  <2>5. Regets(o, s, handle)
    BY <1>1, <1>2, <1>3, <1>4, <1>5, <1>7, <1>8, <2>1, <2>2, <2>4 DEF Regets
  <2> QED BY <2>5, RegetsStep
<1>9. CASE Fp(o) # s
  <2>1. /\ streams' = IF Fp(o) = Null THEN st ELSE Closing(st, Fp(o))
        /\ table' = IF Fp(o) = Null THEN table ELSE TableClosing(st, table, Fp(o))
        /\ stale' = GivenUp(o)
    BY <1>1, <1>3, <1>9 DEF Opened, Replaced
  <2>2. Keeps(o) /\ (s \in stale => s \in stale')
    BY <1>3, <1>9, <2>1, GivenUpKeeps DEF GivenUp
  <2>3. streams' = [u \in Streams \cup Std |->
                      IF u = s THEN OpenStream(d, table[d], Null)
                      ELSE IF u = Had(o) THEN Nowhere ELSE streams[u]]
    <3>1. DOMAIN streams = Streams \cup Std
      BY DEF IInv, Typed
    <3>2. CASE Fp(o) = Null
      <4>1. \A u \in Streams \cup Std : u # Had(o)
        BY <1>3, <3>2
      <4> QED BY <2>1, <3>1, <3>2, <4>1, ZenonT(30)
    <3>3. CASE Fp(o) # Null
      BY <1>3, <1>9, <2>1, <3>1, <3>3, ZenonT(30) DEF Closing
    <3> QED BY <3>2, <3>3
  <2>4. table' = [e \in Descriptors |->
                    IF Had(o) # Null /\ IsOpen(Had(o)) /\ e = streams[Had(o)].fd THEN Null
                    ELSE IF e = d THEN table[d] ELSE table[e]]
    BY <1>3, <1>9, <2>1 DEF TableClosing, IInv, Typed, IsOpen
  <2>5. /\ DOMAIN objects' = DOMAIN objects \cup {o} /\ objects'[o] = handle
        /\ \A q \in DOMAIN objects \ {o} : objects'[q] = objects[q]
    BY <1>3, <1>5
  <2>6. Gets(o, s, d, table[d], Null, objects[o].fname)
    BY <1>1, <1>2, <1>3, <1>4, <1>6, <1>7, <1>9, <2>2, <2>3, <2>4, <2>5, ZenonT(30) DEF Gets
  <2> QED BY <2>6, GetsStep
<1> QED BY <1>8, <1>9

(* freopen: the stream of o stands for another file. *)
LEMMA ReopenStep ==
  ASSUME IInv, NEW o \in Objects \cup StdObjects, NEW path \in Paths, Reopen(o, path)
  PROVE  IInv'
<1> USE FilesAssumption
<1> DEFINE f == Fp(o)
<1>1. o \in DOMAIN objects /\ f \in Streams /\ objects[o] \in Handle
  BY DEF Reopen, Running, IInv, Typed, Handle, Fp
<1>2. PICK d \in IF streams[f].st = "open" THEN {streams[f].fd}
                 ELSE IF FreeDescriptors = {} THEN {} ELSE {Min(FreeDescriptors)} :
        /\ table' = [table EXCEPT ![d] = path]
        /\ streams' = [streams EXCEPT ![f] = OpenStream(d, path, path)]
        /\ objects' = [objects EXCEPT ![o].fd = d, ![o].fname = path]
  BY DEF Reopen
<1>3. lost' = lost /\ shared' = shared /\ stale' = GivenUp(o) /\ Keeps(o)
  BY <1>1, GivenUpKeeps DEF Reopen
<1>4. /\ d \in Descriptors
      /\ ~shared => \A u \in Streams \cup Std : u # f /\ IsOpen(u) => streams[u].fd # d
  <2>1. CASE streams[f].st = "open"
    BY <1>1, <1>2, <2>1 DEF IInv, Typed, Apart, IsOpen
  <2>2. CASE streams[f].st # "open"
    <3>1. FreeDescriptors # {} /\ d = Min(FreeDescriptors)
      BY <1>2, <2>2
    <3> QED BY <3>1, FreeOne DEF IInv, Typed, OwnDescriptor, IsOpen, Behind
  <2> QED BY <2>1, <2>2
<1> HIDE DEF f
<1>5. /\ DOMAIN objects' = DOMAIN objects
      /\ \A q \in DOMAIN objects \ {o} : objects'[q] = objects[q]
      /\ objects'[o] = [fp |-> f, fd |-> d, fname |-> path]
      /\ objects' \in [DOMAIN objects -> Handle]
  <2>1. DOMAIN objects' = DOMAIN objects /\ \A q \in DOMAIN objects \ {o} : objects'[q] = objects[q]
    BY <1>2
  <2>2. objects'[o] = [objects[o] EXCEPT !.fd = d, !.fname = path]
    BY <1>1, <1>2
  <2>3. objects'[o] = [fp |-> f, fd |-> d, fname |-> path]
    BY <1>1, <2>2 DEF Handle, f, Fp
  <2>4. objects'[o] \in Handle
    BY <1>1, <1>4, <2>3 DEF Handle
  <2>5. objects' \in [DOMAIN objects -> {objects'[q] : q \in DOMAIN objects}]
    BY <1>2
  <2> QED BY <2>1, <2>3, <2>4, <2>5 DEF IInv, Typed
<1>6. /\ \A q \in DOMAIN objects : Fp(q)' = Fp(q)
      /\ \A u \in Streams \cup Std : u # f => streams'[u] = streams[u]
      /\ streams'[f] = OpenStream(d, path, path)
  BY <1>1, <1>2, <1>5 DEF Fp, f, IInv, Typed
<1>7. f = Fp(o) /\ \A q \in DOMAIN objects : Fp(q) \in Streams \cup {Null}
  BY DEF f, IInv, Typed, Handle, Fp
<1>8. Typed'
  <2>1. streams' \in [Streams \cup Std -> Stream]
    BY <1>1, <1>2, <1>4 DEF IInv, Typed, Stream, OpenStream, Behind
  <2>2. table' \in [Descriptors -> Behind \cup {Null}]
    BY <1>2 DEF IInv, Typed, Behind
  <2>3. \A u \in Streams \cup Std :
          IsOpen(u)' => streams'[u].fd \in Descriptors /\ streams'[u].file \in Behind
    BY <1>4, <1>6 DEF IInv, Typed, IsOpen, OpenStream, Behind
  <2>4. stale' \subseteq Streams
    BY <1>3 DEF Keeps, IInv, Typed
  <2> QED BY <1>5, <2>1, <2>2, <2>3, <2>4 DEF Typed, IsOpen
<1>9. ASSUME NEW q \in DOMAIN objects, Fp(q) # Null, Fp(q) \notin stale'
      PROVE  /\ Fp(q) \in Streams /\ \A r \in DOMAIN objects \ {q} : Fp(r) # Fp(q)
             /\ q # o => /\ Fp(q) \notin stale /\ streams[Fp(q)].st = "open"
                         /\ streams'[Fp(q)] = streams[Fp(q)]
  <2>1. CASE q # o
    <3>1. /\ Fp(q) \notin stale /\ Fp(q) \in Streams /\ streams[Fp(q)].st = "open"
          /\ \A r \in DOMAIN objects \ {q} : Fp(r) # Fp(q)
      BY <1>3, <1>9, <2>1, Others
    <3>2. Fp(q) # f
      BY <1>1, <1>7, <2>1, <3>1
    <3> QED BY <1>6, <3>1, <3>2
  <2>2. CASE q = o
    <3>1. CASE Sole(o)
      BY <1>7, <2>2, <3>1, <1>9 DEF Sole
    <3>2. CASE ~Sole(o)
      <4>1. Fp(q) \notin stale
        BY <1>3, <1>9, <2>2, <3>2 DEF GivenUp
      <4> QED BY <1>9, <2>2, <3>2, <4>1 DEF IInv, StreamsAccounted, Isopen
    <3> QED BY <3>1, <3>2
  <2> QED BY <2>1, <2>2
<1>10. StreamsAccounted'
  <2>1. ASSUME NEW q \in DOMAIN objects, Fp(q) # Null, Fp(q) \notin stale'
        PROVE  streams'[Fp(q)].st = "open" /\ \A r \in DOMAIN objects \ {q} : Fp(r) # Fp(q)
    BY <1>6, <1>7, <1>9, <2>1 DEF OpenStream
  <2>2. ASSUME NEW u \in Streams, streams'[u].st # "none"
        PROVE  u \in lost \/ \E q \in DOMAIN objects : Fp(q) = u
    BY <1>1, <1>6, <1>7, <2>2 DEF IInv, StreamsAccounted
  <2>3. \A q \in DOMAIN objects : objects'[q].fp = Fp(q)
    BY <1>6 DEF Fp
  <2> QED BY <1>3, <1>5, <2>1, <2>2, <2>3 DEF StreamsAccounted, Isopen, Sole, Fp
<1>11. HandleAgrees'
  <2> SUFFICES ASSUME NEW q \in DOMAIN objects \cap Objects, Fp(q) # Null, Fp(q) \notin stale'
               PROVE  /\ objects'[q].fd = streams'[Fp(q)].fd
                      /\ streams'[Fp(q)].path # Null => objects'[q].fname = streams'[Fp(q)].path
    BY <1>5, <1>6 DEF HandleAgrees, Fp
  <2>1. CASE q = o
    BY <1>5, <1>6, <1>7, <2>1 DEF OpenStream
  <2>2. CASE q # o
    BY <1>5, <1>9, <2>2 DEF IInv, HandleAgrees
  <2> QED BY <2>1, <2>2
<1>12. Apart'
  BY <1>3, <1>4, <1>6 DEF IInv, Apart, OpenStream, IsOpen
<1>13. OwnDescriptor'
  <2> SUFFICES ASSUME ~shared, NEW u \in Streams \cup Std, IsOpen(u)'
               PROVE  table'[streams'[u].fd] = streams'[u].file
    BY <1>3, <1>8 DEF OwnDescriptor, Typed, IsOpen
  <2>1. CASE u = f
    BY <1>2, <1>4, <1>6, <2>1 DEF OpenStream, IInv, Typed
  <2>2. CASE u # f
    BY <1>2, <1>4, <1>6, <2>2 DEF IInv, Typed, OwnDescriptor, IsOpen
  <2> QED BY <2>1, <2>2
<1> QED BY <1>8, <1>10, <1>11, <1>12, <1>13 DEF IInv

LEMMA ReopenFailsStep ==
  ASSUME IInv, NEW o \in Objects \cup StdObjects, ReopenFails(o)
  PROVE  IInv'
<1> USE FilesAssumption
<1>1. /\ o \in DOMAIN objects /\ Fp(o) \in Streams
      /\ objects' = objects /\ lost' = lost /\ shared' = shared /\ stale' = stale \cup {Fp(o)}
  BY DEF ReopenFails, Running, IInv, Typed, Handle, Fp
<1>2. PICK st \in {"shut", "none"} : streams' = [streams EXCEPT ![Fp(o)] = [Nowhere EXCEPT !.st = st]]
  BY DEF ReopenFails
<1>3. [Nowhere EXCEPT !.st = st] \in Stream /\ [Nowhere EXCEPT !.st = st].st = st
  BY DEF Nowhere, Stream
<1>4. /\ streams' \in [Streams \cup Std -> Stream]
      /\ \A u \in Streams \cup Std : u # Fp(o) => streams'[u] = streams[u]
      /\ streams'[Fp(o)].st # "open"
  BY <1>1, <1>2, <1>3 DEF IInv, Typed
<1> HIDE DEF Nowhere
<1>5. \A u \in Streams \cup Std : IsOpen(u)' => u # Fp(o) /\ IsOpen(u) /\ streams'[u] = streams[u]
  BY <1>4 DEF IsOpen
<1>6. table' = IF IsOpen(Fp(o)) THEN [table EXCEPT ![streams[Fp(o)].fd] = Null] ELSE table
  BY DEF ReopenFails, TableClosing, IsOpen
<1>7. Typed'
  BY <1>1, <1>4, <1>5, <1>6 DEF IInv, Typed, IsOpen
<1>8. StreamsAccounted'
  <2>1. ASSUME NEW q \in DOMAIN objects, Fp(q) # Null, Fp(q) \notin stale'
        PROVE  streams'[Fp(q)].st = "open" /\ \A r \in DOMAIN objects \ {q} : Fp(r) # Fp(q)
    <3>1. Fp(q) # Fp(o) /\ Fp(q) \in Streams
      BY <1>1, <2>1 DEF IInv, Typed, Handle, Fp
    <3> QED BY <1>1, <1>4, <2>1, <3>1 DEF IInv, StreamsAccounted, Isopen, Sole
  <2>2. ASSUME NEW u \in Streams, streams'[u].st # "none"
        PROVE  u \in lost \/ \E q \in DOMAIN objects : Fp(q) = u
    BY <1>1, <1>4, <2>2 DEF IInv, StreamsAccounted
  <2> QED BY <1>1, <2>1, <2>2 DEF StreamsAccounted, Isopen, Sole, Fp
<1>9. HandleAgrees'
  BY <1>1, <1>4 DEF IInv, Typed, Handle, HandleAgrees, Fp
<1>10. Apart'
  BY <1>1, <1>5 DEF IInv, Apart
<1>11. OwnDescriptor'
  <2> SUFFICES ASSUME ~shared, NEW u \in Streams \cup Std, IsOpen(u)'
               PROVE  table'[streams'[u].fd] = streams'[u].file
    BY <1>1, <1>4 DEF OwnDescriptor, IsOpen
  <2>1. /\ u # Fp(o) /\ IsOpen(u) /\ streams'[u] = streams[u] /\ streams[u].fd \in Descriptors
        /\ table[streams[u].fd] = streams[u].file
    BY <1>5 DEF IInv, Typed, OwnDescriptor, IsOpen
  <2>2. IsOpen(Fp(o)) => streams[Fp(o)].fd # streams[u].fd
    BY <1>1, <2>1 DEF IInv, Apart
  <2> QED BY <1>6, <2>1, <2>2 DEF IInv, Typed
<1> QED BY <1>7, <1>8, <1>9, <1>10, <1>11 DEF IInv

LEMMA FreeObjectStep ==
  ASSUME IInv, NEW o \in Objects \cup StdObjects, FreeObject(o)
  PROVE  IInv'
<1> USE FilesAssumption
<1>1. /\ o \in DOMAIN objects /\ DOMAIN objects' = DOMAIN objects \ {o}
      /\ \A q \in DOMAIN objects' : objects'[q] = objects[q] /\ Fp(q)' = Fp(q)
      /\ streams' = streams /\ table' = table /\ shared' = shared
      /\ lost \subseteq lost' /\ Keeps(o)
  BY GivenUpKeeps DEF FreeObject, Running, Fp
<1>2. Typed'
  BY <1>1 DEF FreeObject, Keeps, IInv, Typed, IsOpen
<1>3. ASSUME NEW q \in DOMAIN objects', Fp(q) # Null, Fp(q) \notin stale'
      PROVE  /\ Fp(q) \notin stale /\ streams[Fp(q)].st = "open"
             /\ \A r \in DOMAIN objects \ {q} : Fp(r) # Fp(q)
  BY <1>1, <1>3, Others
<1>4. StreamsAccounted'
  <2>1. ASSUME NEW u \in Streams, streams[u].st # "none", u \notin lost'
        PROVE  \E q \in DOMAIN objects' : Fp(q) = u
    <3>1. PICK q \in DOMAIN objects : Fp(q) = u
      BY <1>1, <2>1 DEF IInv, StreamsAccounted
    <3>2. CASE q # o
      BY <1>1, <3>1, <3>2
    <3>3. CASE q = o
      <4>1. Fp(o) # Null /\ ~Gone(o)
        BY <2>1, <3>1, <3>3 DEF Gone
      <4>2. ~Sole(o)
        BY <2>1, <3>1, <3>3, <4>1 DEF FreeObject
      <4> QED BY <1>1, <3>1, <3>3, <4>2 DEF Sole
    <3> QED BY <3>2, <3>3
  <2> QED BY <1>1, <1>3, <2>1 DEF StreamsAccounted, Isopen, Sole, Fp
<1>5. HandleAgrees'
  BY <1>1, <1>3 DEF IInv, HandleAgrees, Fp
<1>6. Apart' /\ OwnDescriptor'
  BY <1>1 DEF IInv, Apart, OwnDescriptor, IsOpen
<1> QED BY <1>2, <1>4, <1>5, <1>6 DEF IInv

-----------------------------------------------------------------------------
(* Objects, streams and descriptors fit each other after every method of   *)
(* FILE in src/src/std/std.c.                                              *)
THEOREM Inductive == Spec => []IInv
<1> USE FilesAssumption
<1>1. Init => IInv
  <2> SUFFICES ASSUME Init
               PROVE  IInv
    OBVIOUS
  <2>1. Typed
    BY DEF Init, Typed, Handle, Stream, OpenStream, Nowhere, IsOpen, Behind, Std, StdFd
  <2>2. StreamsAccounted /\ HandleAgrees
    BY DEF Init, StreamsAccounted, HandleAgrees, Isopen, Nowhere, Fp
  <2>3. Apart /\ OwnDescriptor
    BY DEF Init, Apart, OwnDescriptor, OpenStream, Nowhere, IsOpen, Std, StdFd
  <2> QED BY <2>1, <2>2, <2>3 DEF IInv
<1>2. IInv /\ [Next]_files => IInv'
  <2> SUFFICES ASSUME IInv, [Next]_files
               PROVE  IInv'
    OBVIOUS
  <2>1. CASE UNCHANGED files \/ Start \/ \E o \in Objects \cup StdObjects : UseGone(o) \/ NewString(o)
    <3>1. UNCHANGED <<objects, streams, table, lost, shared, stale>>
      BY <2>1 DEF files, Start, DefinesInit, UseGone, NewString
    <3> QED BY <3>1 DEF IInv, Typed, IsOpen, StreamsAccounted, HandleAgrees, Apart, OwnDescriptor,
                        Isopen, Sole, Fp
  <2>2. ASSUME NEW o \in Objects \cup StdObjects, NEW s \in Streams, Tmpfile(o, s)
        PROVE  IInv'
    BY <2>2, TmpfileStep
  <2>3. ASSUME NEW o \in Objects \cup StdObjects, NEW s \in Streams, NEW path \in Paths,
               Open(o, s, path)
        PROVE  IInv'
    BY <2>3, OpenStep
  <2>4. ASSUME NEW o \in Objects \cup StdObjects, NEW s \in Streams, NEW d \in Adoptable,
               Fdopen(o, s, d)
        PROVE  IInv'
    BY <2>4, FdopenStep
  <2>5. ASSUME NEW o \in Objects \cup StdObjects, NEW path \in Paths, Reopen(o, path)
        PROVE  IInv'
    BY <2>5, ReopenStep
  <2>6. ASSUME NEW o \in Objects \cup StdObjects,
               ReopenFails(o) \/ Close(o) \/ FreeObject(o)
        PROVE  IInv'
    BY <2>6, ReopenFailsStep, CloseStep, FreeObjectStep
  <2> QED BY <2>1, <2>2, <2>3, <2>4, <2>5, <2>6 DEF Next
<1> QED BY <1>1, <1>2, PTL DEF Spec

(* isopen() of src/src/std/std.c is true only for an object whose stream   *)
(* is open and no other's, but for the streams that a failed reopen closed *)
(* and the objects that still have their addresses; and whatever failed,   *)
(* each stream a program opened is some object's until that is freed.      *)
THEOREM StreamsAreAccounted == Spec => []StreamsAccounted
BY Inductive, PTL DEF IInv

(* The number and the name that an object keeps are those of its stream.   *)
THEOREM HandlesAgree == Spec => []HandleAgrees
BY Inductive, PTL DEF IInv

(* While fdopen has put no second stream on a descriptor, no call on one   *)
(* object closes, or hands to another file, the descriptor of another.     *)
THEOREM DescriptorsAreOwn == Spec => []OwnDescriptor
BY Inductive, PTL DEF IInv
=============================================================================
