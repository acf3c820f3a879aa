# TLA+ models of Come

Come is a small language that is transpiled to C. The repository holds the
transpiler (`src/src/core`: lexer, parser, code generator and build driver) and
the runtime that the generated C is linked with (`src/src/mem`, `map`, `array`,
`string`, `std`). This directory holds TLA+ modules for the parts whose
correctness depends on sequences of calls, TLC configurations that check them
on small instances, and theorems about them that TLAPS checks.

Paths are relative to the directory that holds `src/`.

## 1. Inventory

### 1.1 The parts and what they keep

| part | source | state | operations | what makes it correct |
| --- | --- | --- | --- | --- |
| memory ownership | `src/src/mem/talloc.c` over the vendored talloc, or (Windows) over a list of records | the owner of every block | alloc, realloc, steal (`.chown()`), free, parent, module init and shutdown | freeing a block frees what it owns, and nothing else; no block is left owned by a dead address; everything goes with the root |
| map | `src/src/map/map.c`, `src/src/include/come_map.h` | an open-addressing table and the variables that point to it | new, put (with rehash), get, remove (with re-insertion), len | a dictionary; every probe ends; no entry is lost or doubled by growth or removal; also when growth fails |
| module lifecycle | the C that `src/src/core/codegen.c` emits, `generate_c_from_ast` | per module: `initialized`, `exited`, context pointer; the call stack | `main`, `come_M__init`, `come_M__exit`, `std.proc.exit` | dependencies first, everything once, exits in reverse, no context used after it is freed or left at the end |
| build driver | `src/src/core/come_compiler.c` | on disk: sources, `.ccache/*.c`, `build/*.o` with their times; in the process: visited files, objects to link | `come build`, `come genc` | what is linked was made from the present texts by the present compiler; imports are compiled once; a build ends |
| code generator | `src/src/core/codegen.c` | C written so far, the types of the local variables, `enum_counter`, error count | one function per node type | the C does what the statements say; the type of a `var` is locked; the C of a text depends on the text |
| lexer | `src/src/core/lexer.c` | a line buffer, a block-comment flag, at most 4096 tokens | `lex_file` | tokens do not depend on where a line is cut; every text ends |
| parser | `src/src/core/parser.c` | position, tables of aliases and macros, messages printed | recursive descent | the tree is that of the text; what is unbalanced is reported; every loop makes progress |
| arrays | `src/src/array/array.c` | a counted block | alloc, resize, slice | a list has no string that is gone; an array that moves takes its slices along and leaves the others alone |
| strings | `src/src/string/string.c` | a counted block | search, split, replace, join, regex, index, compare | the pass that counts and the pass that copies agree, and end; results are what the matches say |
| std | `src/src/std/std.c` | `FILE` objects over C streams and descriptors, the error object | open, reopen, fdopen, close, tmpfile, read, write, proc | `isopen()`, name and cached descriptor are those of an object's stream, but where a reopen failed; a stream is lost only with an object that is freed before it is closed; no object closes another's descriptor |
| tests, examples, packaging | `src/tests`, `src/t`, `src/examples`, `src/packaging` | none | none | not part of the program |

### 1.2 How they interact

The driver calls the parser for one file, itself for each import, then the code
generator, then gcc, and links the objects with the runtime. The generated
`main` runs the module chains, which give each local module a memory context
as a child of the importer's; user code allocates maps, arrays and strings in
the context of its module. Every runtime object is one ownership block:
`.chown()` on any of them is `mem_talloc_steal`. A grown map is a new block
with the owner of the old one; an array that grows is a moved block; a string
or list made by a string operation is owned by its operand. Nothing is
concurrent inside a process. What runs concurrently with a build is the user,
who saves files, and the clock.

### 1.3 What is hard

* *Sequences of calls* on ownership, maps and files, where an operation makes calls
  of the same kind (free frees, rehash puts, remove puts) on what it walks.
* *Allocation failure* in the middle of such an operation, and `freopen`, which
  closes a stream also when it fails.
* *Stale pointers*: blocks that move, addresses and descriptors that are used again, a
  map variable copied before the table grew, a slice of a list of strings.
* *Two walks that must agree*: a first pass measures a string, a second fills it.
* *Empty matches, limits and line cuts*: the loops over strings, patterns and lines
  at their boundaries.
* *Recursion over statements*: aliases, optional semicolons, errors that are only
  printed, `fallthrough` and `break` in two languages that differ in them, and a
  table of types that knows one variable per name.
* *Order* of the init and exit chains with shared and cyclic imports.
* *Failed, interrupted and overtaken builds*, with a cache that is judged by
  times in whole seconds.

`PROJECT.json` lists each hazard at its line with the properties that cover it.

## 2. The modules

| module | what it models | kind |
| --- | --- | --- |
| `Ownership` | what the memory interface promises: a forest of blocks | abstract specification |
| `MemRecords` | the Windows branch of `talloc.c`, its list of records | detailed; refines `Ownership` |
| `MapStore` | what a map promises: a dictionary with an owner | abstract specification |
| `ComeMap` | the hash table of `map.c` | detailed; refines `MapStore` |
| `ModuleLifecycle` | the emitted `main`, init and exit chains | uses `Ownership` for the contexts |
| `IncrementalBuild` | `main` and `compile_file` of the driver | with user, clock and interruptions |
| `Arrays` | `array.c`: arrays, slices, the variables that point to them | extends `Ownership` |
| `Files` | `FILE` of `std.c` over streams and descriptors | with the C library as external |
| `Text` | what the reading operations of `string.c` answer | operators |
| `Regex` | the Windows matcher of `string.c`, and what its patterns mean | operators, with a reference |
| `Cuts` | positions, cut-outs and matches in a string | operators |
| `Passes` | the two passes of split and replace, of both builds, over any search | extends `Cuts` |
| `Strings` | those passes with the searches of the program, and how the operations agree | extends `Regex`, `Passes` |
| `Lexer` | the loop of `lex_file`, and a reference that sees the whole text | with a reference |
| `Program` | programs as trees, their tokens, what aliases mean | the reference for the next two |
| `Parser` | the parser of function bodies | extends `Program` |
| `Codegen` | the C of statements and the type lock | extends `Parser` |
| `Ownership_proofs`, `MemRecords_proofs`, `ComeMap_proofs`, `ModuleLifecycle_proofs`, `Arrays_proofs`, `Files_proofs`, `Passes_proofs` | theorems about the module of that name, and what they rest on | proofs |
| `Compiler_proofs` | theorems about `IncrementalBuild` and `Lexer`, which share no state | proofs |
| `MC*` | the small instances | constants only |

Definitions named as the "mutant of" another are plausible mistakes in that
definition. No specification uses them; each is kept because with it in place
one of the properties must fail.

### 2.1 Ownership

`parent` maps each address to its owner, the root, or `Dead`. A block stands
for its address, so that reuse is visible: `Alloc` may take any free address
and `Realloc` may move a block to one. The actions are the functions of the
POSIX branch; `Below(r)` is what talloc's recursive free would visit, as a least
closed set. One assumption is a guard of `Steal`: a program does not give a
block to something the block owns. Neither `talloc.c` nor talloc looks, and a
program that did it would have a cycle that no free reaches. `Root` is `co_mem_root`;
`Arrays` also takes it for the context of the module (section 2.6).

### 2.2 MemRecords

The Windows branch has no talloc: `mem_records` is its list, newest first, and
`mem_talloc_free` looks through it for children, calls itself, and starts over.
`stack` holds those calls, one turn of the loop per step (`FreeChild`,
`FreeBlock`). `scarce` is chosen at the start: in such an execution the record
of a block may fail to be allocated, which the code ignores (`mem_track` returns
nothing); then a later realloc or steal may track the block again. `doomed` is
an auxiliary variable: what the call was made to free. `Promised` maps
the state to `Ownership`: in the middle of a free, the doomed blocks are already
gone.

### 2.3 ComeMap and MapStore

`heap` holds every table, `ptr` the table of each variable, and `pc`/`frame`
the locals of the running call. A probing loop reads only and is one expression
(`Stops`, `StopSlot`). The two loops that change tables are step by step: the copy in
`rehash` (`Copy`, `FinishRehash`) and the re-insertion in `come_map_remove`
(`Reinsert`, `FinishRemove`), whose put may itself rehash. A probe of a full
table in `come_map_put` does not end: `pc = "spin"`. Since `come_map_put` gets the
address of *one* variable, a growth moves that variable only; aliases stay
behind, as do the tables, which `rehash` does not free. Hash values are a
constant function; the reference to float arithmetic in the load factor is the
exact comparison `4(c+1) > 3n`, which it equals for sizes that occur. Calls with
NULL, and removals of absent keys, change nothing and are stuttering steps.
`torn` is a history variable: the tables that a put inside `come_map_remove` left for a
grown one, with an entry of the cluster taken out and not put back.

`MapStore` is a variable's dictionary or `NULL`. The refinement is claimed
for a program that does not alias and has memory; `map_faults` shows what is left
without that.

### 2.4 ModuleLifecycle

The stack of emitted calls; each action is a call, a return or one turn of the
unrolled import list. `inits` and `exits` record the user's init and exit code
in the order it ran. `UserMain` returns, or never; `ProcExit` is `std.proc.exit`. Contexts
are `Ownership` blocks, one per module, so that a double free or a use after
free is visible as `NoDanglingContext`. The properties about order and contexts
are conditional on `Acyclic`: modules that import each other have no order of
inits that serves both, and at exit free a context twice (line 2637), which the
model shows when that condition is dropped.

### 2.5 IncrementalBuild

The stack of `compile_file` calls, each at a stage: `enter` (visited? parse),
`imports`, `check` (read the four times), `transpile`, `compile`. Between any
two steps the user may save a file, the second may end, or the build may be
interrupted while it writes. Texts and compilers are numbered by a common
counter, `saves`; a C file or object records what it was made from (`text`,
`version`, `state`) beside its time, so that a property can compare what the
driver concludes from times with what is so. A text has a fault if codegen
rejects it. The parser rejects nothing (`src/src/core/parser.c:126` prints and
goes on; `parse_file` fails only when the file cannot be opened), so a text
with a syntax error is one whose C gcc may or may not accept, like any other.
`genc` here is `genc -o`; without `-o` it is a build that links nothing. Constants and mixed
groups whose enum values carry on (`codegen.c:2001`) are counted by `Enums`.
Assumed: no two sources share a base name (they would share an object file,
`come_compiler.c:375`), no file is removed while it is built, and nobody else
writes to the cache.

### 2.6 Arrays

`Arrays` adds to `Ownership` what is at each address (`obj`: an int array, a list
of strings, or a string) and what each variable points to (`var`), so that every
action is a step of the forest with the contents it moves. An array has its items,
`size` of them in the code, and `count`, how many are in use. They differ after
`int a[10] = {1, 2}`, which allocates ten items and writes two: the others are `Unset`,
a `Slice` leaves them out, and `Resize` keeps them, since it zeroes only what lies past the old
size. `Root` stands for two contexts, the one of the module (`COME_CTX`), in which
declarations allocate, and `co_mem_root`, to which `resize` and `slice` of NULL give
theirs; the emitted `main` frees the first (`End`), the other is the process's to the end. `Resize` lets the
block move to any free address and repoints the one variable whose address
the generated code has; `Assign` copies a pointer. A variable whose array went
elsewhere is `Dangling` and not used again: a program that does is wrong
with this runtime, and nothing in it can tell. `Slice` copies the items,
for a list the addresses of strings that the first list owns. Slices are owned by the array they
come from, which is what makes `ItemsLive` true; a `.chown()` of a
slice away from its list (`MayPart = TRUE`) breaks it.

### 2.7 Files

`objects` are the `FILE` blocks (`fp`, `fd`, `fname`), `streams` and `table` the
C library's streams and the process's descriptors, modelled from how `std.c`
uses them. A stream stands for its address: `fclose` frees it and `fopen` may answer it
again. A program has objects from `std.tmpfile()` only: a declared `FILE f` is
NULL, which every method answers at once. `Start` is the init chain of `std`; since
`std.co` declares an `init` and defines none, the chain never calls the
hand-written one, and `std.in`, `std.out`, `std.err` keep no stream.

`ReopenFails` is a `freopen` that closed the stream and answered NULL, after which
`std.c:251` returns with `fp` as it was. What the C library then has at that address
is its own affair, and the model takes both: the stream is there and closed (`shut`; a later
`fclose` or `freopen` of it does what it says), or it was freed as by `fclose` (`none`), the address
may be given to the next stream, and any call of the object on it is undefined (`UseGone`,
`process = "undefined"`, after which nothing more is said). If another object has got the address by
then, a call of the first acts on the other's stream, which the model lets it do.

Strings that are made in the context of a standard object, which is no talloc block,
abort the process. `lost`, `shared` and `stale` are history variables: the streams whose object was
freed before it closed them; whether `fdopen` took a descriptor that had a stream; the streams a
failed reopen closed, as long as an object has their address. `StreamsAccounted` and `HandleAgrees`
except `stale`, and that is the whole of what they except: they say that the
damage stays with that address, and is over when every object has given it up. `OwnDescriptor` excepts nothing of it.

### 2.8 Cuts, Text, Regex, Passes, Strings

A string is a sequence of bytes. `Text` has what the single-pass operations
answer, each in the way its loop walks (`CharPos` by continuation bytes, `Width` by first
byte, `strcmp` by bytes). `Regex` has the Windows matcher, `MatchSeq` with its greedy
repetitions and its way back out of them, beside `Ends`, the set of places where
a match may end. In `Passes` a behaviour is one call: `call` holds operation, branch
(`literal`, `posix`, `windows`) and arguments, `find` the match found from each
position, `p`, `matches`, `size` and `out` the locals; an iteration of either pass is
a step. How a call searches is a constant operator, `Search`: the passes are the same loops
whatever is searched for, and without the recursive matchers they can be proved about.
`Strings` gives it its value, `StringSearch`, and the calls theirs; `regexec` is external: it
finds the leftmost longest match (`Reference`). `astray` is a pass that has left the string. The
result of a first pass is an empty sequence of which `size` is known: with what bytes
`come_string_new_len` fills it before the second pass overwrites them is left out (section 6).

### 2.9 Lexer

One iteration of the loop over the buffer is a step, `ReadLine` is `fgets` into a
buffer of `size` bytes, and what an earlier line or nothing has left behind the
terminator is in the buffer too (`Stale`), because the code reads it in one case. The
reference knows no lines and no loop. `PieceNext` is where the token, comment or blank that
begins at a place of the whole text ends; `Bounds` is what it reaches from the first
character, as a least closed set, and `TokenStarts` the bounds where a token begins.
`TokensRight` compares the two, token by token, in text and number of line, and
names the cases in which they differ: a cut that is not `Harmless` (through a token, a line
comment or the end of a block comment), `Hidden` (a comment directly behind a comment) and
`EndsLine` (a comment that ends where a line is cut, or the text). Not modelled is the end of
the array of 4096 tokens, which nothing tests.

### 2.10 Program, Parser, Codegen

`Program` defines programs as trees, the tokens they are written with (`Show`,
`Write`) and what they are without their aliases (`Meaning`). `Parser` is the
recursive descent of `parser.c`, one operator per function, with a parse state of
position, messages, aliases and node; the loop over the statements of the body
is the next-state relation. `Codegen` takes the parsed tree to C statements (`Gen`
and one operator per statement), with the table of types that `codegen.c` keeps for a
function, and gives both languages one meaning: `Runs`, the set of sequences of tests and
effects, with every outcome of every condition up to `Rounds` rounds of each loop.
`MeaningKept` is equality of these sets. `TypeLock` relates three things:
what the generator and the C compiler accept (`Accepted`, with C's scopes in
`Uses`), the types the C has at each use, and the lock as the text alone
determines it (`Lock`, `TypeOf`).

## 3. The runs

| run | instance | shows |
| --- | --- | --- |
| `mem_records` | four addresses, with and without failing records | refinement of `Ownership` (`ImplementsOwnership`); a free takes exactly what it should and returns (`FreesExactly`, `FreeReturns`); no record left over, doubled or lost (`RecordsSound`) |
| `map_store` | one variable, 3 keys, 2 values, 2 contexts, a table of 3 that grows to 6 | refinement of `MapStore` (`ImplementsMapStore`), a free slot always (`RoomLeft`), a put is seen (`PutTakesEffect`), every call returns (`CallsReturn`) |
| `map_faults` | two variables that may alias, 5 keys in one cluster, a table of 5 whose growth to 10 may fail | what every variable and local points to (`TypeOK`); tables stay sound under every failure, but for those that a removal tears (`TableSound`) |
| `lifecycle` | all programs of four modules without import cycles, one of them a system module, fifteen with a cycle, and ten that import a module twice | order of inits and contexts (`DependenciesInitialized`, `NoDanglingContext`), exits in reverse where nothing is shared (`UnsharedExitsReverse`), nothing left (`NothingLeft`), the process ends (`Ends`) |
| `build` | one file saved twice in three seconds; a diamond and a cycle of three files saved once in two seconds | what is linked, and from what (`EachLinkedOnce`, `StaleOnlyIfTimesLie`); no text transpiled twice (`NoNeedlessTranspile`); a build ends (`BuildEnds`) |
| `arrays` | four addresses, two variables, arrays of up to two items, declared with one of two values, four slices, memory may run out | a forest in spite of moves and reuse (`OwnerIsLive`, `AllBelowRoot`), no list with a dead string (`ItemsLive`), a resize leaves other arrays alone (`ResizeSparesOthers`) |
| `strings` | all texts of up to four of `a`, `b`; ten patterns; three branches; limits 0, 1, 2; texts of up to three bytes with UTF-8 | `PassesAgree`, `ResultsRight`, `EngineSound`, `TextLaws`, `CallReturns` |
| `files` | two objects and `std.out`, three more streams, five descriptors, one path, `fdopen` of 1 and 3 | `StreamsAccounted`, `HandleAgrees`, `OwnDescriptor` |
| `lexer` | all texts of up to four of nine characters, and of up to six with comments only; buffers of 4 and 8 | `TokensRight`, `Ends` |
| `parser` | every expression of two levels, pairs of statements with and without semicolons, nested loops and switches, three statements with variables; all sequences of up to five tokens over three alphabets | `RoundTrip`, `BalancedOrReported`, `TakesAToken`, `MeaningKept`, `TypeLock` |
| `build_rejected` (violation) | as `build` | a program that codegen rejected is linked by the next build |
| `build_enums` (violation) | as `build` | a partial build gives enums other values than a full one |

`StaleOnlyIfTimesLie` in `build` is the precise claim that the times allow: what
is linked is made from the parsed text by this compiler unless the cached C
file is a left-over of a rejected or interrupted transpilation, is no older
than a text or compiler that it was not made from, or has the second of its
object.

The properties that name exceptions (`TokensRight`, `ResultsRight`, `PassesAgree`,
`MeaningKept`, `TypeLock`, `UnsharedExitsReverse`, `NoDanglingContext`, `TableSound`, `StaleOnlyIfTimesLie`,
`StreamsAccounted`, `HandleAgrees`, `OwnDescriptor`) are as wide as
the code lets them be: without an exception the run fails, and section 5 says how. Such a
property does not catch the case it excepts; it shows that nothing else goes wrong. The
hazards of `PROJECT.json` say in a note where that is so.

### 3.1 Why the bounds are enough

The theorems of section 4 hold without any of these bounds; the runs keep them small
enough to enumerate and large enough that the cases the proofs split into occur.

* Records and arrays: four addresses, because the list of records has an order: a
  parent, two children in either order or a grandchild, and a free address that can be
  answered again; for arrays a list, its string, a slice, and a free address to
  move to. Two items are enough for a cut and a growth; slices take the first item, both, the
  second with an end past the count, and none.
* Map: real tables start at 16 slots (`INITIAL_CAPACITY`) and double; slots are
  always `hash % size` and the load is a ratio, so that nothing depends on 16.
  The small sizes make clusters wrap, tables fill and grow with three to five keys. In
  `map_store` growth happens both for a new key and for a key that is there
  (the load is tested first). A table of 5 is the smallest that, full because it could
  not grow, still grows when a removal puts an entry back.
* Lifecycle: four modules allow a diamond, a chain of four, a shared leaf at
  different depths, and a system leaf, in every order of the import lists; the
  cycles are one through the entry module and one below it, beside a third module; the
  module that is listed twice is a leaf, twice in a row, or has imports of its own and
  another import between its two places.
* Build: three seconds and two saves are the least in which a C file can be newer
  than an object that is as old as its text; three files the least in which one
  is imported twice and a cycle does not go through the entry file only.
* Strings: a text of four holds two matches of two bytes, an empty match between and
  at the end, and a rest; limits of 0, 1 and 2 are none, at once, and after one.
* Files: three streams and five descriptors let two objects hold a stream each
  while a third is opened, and let a closed number, and the address of a stream that a failed
  reopen closed, be given to another. `fdopen` of 1 and 3 is one descriptor of the terminal and
  one of a file, with a stream or closed. One path is enough, since the
  temporary file is another file, and no name is another name.
* Lexer: a buffer of four is cut inside each kind of token and comment by texts of
  that length; in the one of eight no line is cut. 256 differs in nothing but its length.
* Parser: two levels are enough for every pair of operators on either side, two
  statements for every end against every beginning; five tokens for a construct that
  loses its brace inside another. `Rounds = 2` lets a `continue` be followed by another round.

Deadlock checking is off where the system stops: a process that has ended, a
spinning put, a heap after shutdown, a text that is read.

### 3.2 Fairness

Weak fairness of the steps of the running call: `Running` in `ComeMap` and
`IncrementalBuild`, `FreeChild \/ FreeBlock` in `MemRecords`, `LexerNext` in `Lexer` and `Next` in `Passes`,
where a behaviour is one call, and `Next` except the user's `main` in `ModuleLifecycle`.
Each is one thread executing its own code, without waiting for anything; gcc is
assumed to end. No fairness is assumed of the program's calls, the user, the clock, or
interruptions. `Ownership`, `MapStore`, `Arrays` and `Files` have none: their actions
are calls of the program. `Parser` needs none, since `TakesAToken` says of every
step that it comes nearer to the end.

## 4. What is proved

The theorems hold for every value of the constants that the named assumptions of the
modules allow: every set of addresses, keys, modules or files, of any size, every hash
function, every import graph, every search, every text and size of a buffer. The assumptions
say that the names of nothing (`Null`, `Dead`, `NoMap`, ...) are not names of something, that
bounds are numbers, that the initial capacity is not zero, and that no two files of a build
have one base name (`ObjectAssumption`: they would share an object, `come_compiler.c:375`).
Of a search, `SearchAssumption` says that a match begins where the search does or behind it
and ends in the text, and that a literal's match has its length: `strstr` and `regexec` promise it,
and of the Windows matcher TLC evaluates it for every call of `strings`. `LexerAssumption` says that
a file is a sequence of the characters that section 2.9 tells apart, and that the buffer has
room for one and a NUL. `Steal` has the guard of section 2.1.
Four theorems need more, and name it in their hypothesis: `MayRunOut
= FALSE` (allocations succeed), `MayAlias = FALSE` (no variable is copied), or `MayPart
= FALSE` (no slice is given another owner). The opposite cases are in sections 2 and 5.

| theorem | states |
| --- | --- |
| **`Ownership_proofs`** | |
| `TypeCorrect` | `TypeOK` |
| `OwnersLive` | `OwnerIsLive`: no block is owned by an address that was freed |
| `RootOwnsAll` | `AllBelowRoot`: shutdown frees everything |
| `OwnershipAcyclic` | `NoCycle`: no block owns itself |
| **`MemRecords_proofs`** | |
| `TypeCorrect` | `TypeOK` |
| `RecordsAreSound` | `RecordsSound`: at most one record for a block, and none for a block that is gone |
| `FreesExactlyBelow` | `FreesExactly`: a free goes down one branch and leaves nothing its block owned |
| `RecordsImplementOwnership` | `ImplementsOwnership`: the refinement of `Ownership` |
| **`ComeMap_proofs`** | |
| `MapTypeCorrect` | `TypeOK`: also that no loop indexes outside its table |
| `MapTablesSound` | `TableSound`: every key once, and where a probe finds it, but in torn tables |
| `MapCountsRight` | the count of a table is the number of its entries, inside every loop |
| `MapHasRoom` | `RoomLeft`, if allocations succeed |
| `MapPutsAreSeen` | `PutTakesEffect`, if allocations succeed |
| `MapImplementsMapStore` | `ImplementsMapStore`: the refinement of `MapStore`, if allocations succeed and no variable is copied |
| **`ModuleLifecycle_proofs`** | |
| `LifecycleTypeCorrect` | `TypeOK` |
| `LifecycleLeavesNothing` | `NothingLeft`, with import cycles too |
| `InitsFollowDependencies` | `DependenciesInitialized` |
| `ContextsStay` | `NoDanglingContext` |
| `ExitsReverse` | `UnsharedExitsReverse`, with import cycles too |
| **`Compiler_proofs`** | |
| `BuildTypeCorrect` | `TypeOK` |
| `EachFileLinkedOnce` | `EachLinkedOnce` |
| `LinksWhatItParsed` | `StaleOnlyIfTimesLie` |
| `TranspilesOnlyIfNeeded` | `NoNeedlessTranspile` |
| `TokensRightAlways` | `TokensRight`: the tokens are those of the text, wherever its lines are cut |
| **`Arrays_proofs`** | |
| `ArraysOwnersLive`, `ArraysBelowRoot` | the theorems of `Ownership`, for arrays |
| `ListItemsLive` | `ItemsLive`, if no slice is given another owner |
| `ResizeLeavesOthers` | `ResizeSparesOthers` |
| **`Files_proofs`** | |
| `StreamsAreAccounted` | `StreamsAccounted`: `isopen()` is right and no stream is shared, but at an address that a failed reopen closed; no stream is lost but by freeing its object |
| `HandlesAgree` | `HandleAgrees`: name and cached descriptor are the stream's, with the same exception |
| `DescriptorsAreOwn` | `OwnDescriptor`: no call closes another object's descriptor, until `fdopen` shares one |
| **`Passes_proofs`** | |
| `PassesAgreeAlways` | `PassesAgree`: what is measured is what is filled in, and no pass leaves the string |
| `ResultsRightAlways` | `ResultsRight`: the parts are those between the matches, and the copy has each match replaced |

None of these properties is inductive as it stands. The invariants, and why:

* **Ownership** (`IInv`). A block that owned itself would, when it moves, stay owned by
  its old address, which breaks `OwnerIsLive`. `IInv` adds `AllBelowRoot`, from which
  `NoCycle` follows (`BelowRootNoCycle`: the blocks that do not own themselves are closed
  below the root), and `Steal` has the guard that keeps it. `Below` is a least closed set,
  so no induction is needed: it is closed (`BelowClosed`), and inside every closed set
  (`BelowLeast`). `RootStep` takes a set closed after a step and builds from it one
  closed before it.
* **Records** (`IInv`). Between two steps of a recursive free a block can be without
  a record, or its owner can be gone. What the list says is therefore read as an ownership
  in which a block without a record is owned by `NULL` (`HeldOwner`), and the lemmas of
  `Ownership` are applied to that by `INSTANCE`. To it come `Branch` (the running
  calls are a branch of blocks, each owned by the one before) and `Doom` (what is doomed is
  what was below the block that the program freed). In the refinement the blocks doomed
  are gone already, so that a whole recursive free is one step.
* **Map** (`Base`, `Whole`, `Sound`, `Apart`). `Base` is types and bounds. `Whole` says of every
  table that keys are unique and that an entry is reached from its hash without a gap, but
  for the run that `map_remove` has yet to put back (`Waiting`): it is true of
  that run only together with the order in which the loop goes. A table
  that a removal left for a grown one is excepted (`torn`), see section 5.
  `Sound` adds the load, without which a probe may meet no free slot, and needs allocations to
  succeed. `Apart` (no two variables have one table) is what a refinement of a
  dictionary for each variable needs, and what `MayAlias` gives up.
* **Lifecycle**. `Structure` says that the stack of emitted calls is a path of imports;
  `SInv` adds which modules are initialized, have exited and have a context while their
  calls are still open (`Inits`, `Exits`, `Owned`). Without cycles, `AInv` adds that
  every init came after those of its imports (`Ordered`), since a call that is open is never
  of a module on which an outer call's module does not depend (`Nested`). The exact reverse order (`ExitsInv`) needs a link between
  two traversals that happen at different times. It is a mark for each import of each module, how many
  inits had run when the module was done with that import. `Placed` reads a position
  in the exits from the marks, and `Answers` says that every exit call that
  is under way began and is to end at the marks of its import. No cycle
  has to be excluded: where no module is imported twice, only
  an import back to the entry module can be called again (`AgainIsMain`).
* **Build** (`BInv`). `Walk` is about the traversal: what is visited is being worked on or
  linked, not both, and once; the imports that a call has passed are visited or just called.
  `Times` is about files: a C file that names the present text or compiler is not older
  than it, and an object newer than its C file was made from it. `Innermost` says what the
  stages of the innermost call have established; `AllGood` is the property for every file that is
  finished, while the build still goes on and the user saves.
* **Arrays** (`AInv`). `Typed` (also that no more items are in use than there are), `Owned` (what a list has at a place it owns) and, for
  `ItemsLive`, `Beneath`: a slice is below the list whose strings it shares.
* **Files** (`IInv`). Types, that open streams have different descriptors until `fdopen` shares
  one (`Apart`), and the three properties, which hold only together. A step that takes a stream
  from an object may end its being `stale`, and must not when another object has it (`Keeps`): then the others
  had before the step what they are to have after it (`Others`). A stream that an object has and that
  is not open is `stale` (`NotOpen`), so that an object whose freed stream's address is given to its own next `fopen`,
  which then closes the new stream (`Regets`), stays inside the exception.
* **Passes** (`PassesInv`). The two passes run at different times, so that what links them must be
  said of each alone: there is a trace, the places and sizes of the rounds of the first pass, in
  which every place but the first is where the round before it goes on. The
  first pass is at the end of a trace. The second begins when the trace is complete, that is, when
  the round at its last place stops, and is at some place of it, with as much in `out` as the trace
  says. For replace the trace carries the text made so far, and the literal first pass, which
  only counts, gets its size from the fact that each match of a literal is as long as the literal.
  Split fills in as many parts as were counted, whatever it finds; that they are the parts
  between the matches needs a chain of matches (`Chain`) that the first pass ends and the
  second follows (`Parted`). Trace and chain are the witnesses for `ResultsRight`.
* **Lexer** (`LexerInv`). The lexer is at one place of the text (`at` and `p` together), and either
  a piece of the reference begins there, or it is in a block comment that does not close
  before (`Stands`). The tokens so far are those that begin before that place (`Matched`). The
  line is a stretch of the text with a NUL behind it (`Held`), which is needed since the lexer looks up to two
  characters ahead and what is behind the NUL is another line's. Then each step is one piece,
  scanned alike on the line and in the text, since no harmless cut parts a piece that is not a
  comment (`PieceOnLine`, `TokenEndRight`), nor the end of a comment (`CommentOnLine`,
  `NoCloserLeft`). `Bounds` is a least closed set, so that nothing between a bound and the next
  is one, without an induction over the text.

Only model-checked:

* All liveness (`FreeReturns`, `CallsReturn`, `Ends`, `BuildEnds`, `CallReturns`), which the prover
  does not support.
* `EngineSound` and `TextLaws` of `Strings`, and `RoundTrip`, `BalancedOrReported`, `TakesAToken`,
  `MeaningKept` and `TypeLock` of `Parser` and `Codegen`. They are about recursive operators: a
  matcher with its way back, a descent over statements, the runs of a program. The prover
  has no backend for these, and what a recursive definition computes for every input takes an
  induction over data. What they say is a matter of small inputs, which TLC enumerates.
* That `StringSearch` is a search as `SearchAssumption` wants it. The theorems about `Passes` hold for
  every search that is one; TLC evaluates the assumption for the calls of `strings`.

## 5. What the models found

Two disagreements are runs that TLC refutes, with their quotations in `PROJECT.json`:

1. `build_rejected`: a rejected text's C file is left, fresh, for the next build.
2. `build_enums`: `enum_counter` is not reset between files of one process.

The others are exceptions that the properties above have to make, or choices of an
instance. Each was seen as a counterexample before it was excluded.

Builds, beside the two above; `StaleOnlyIfTimesLie` names them as one exception each:

* A build that is interrupted while it writes leaves part of a C file, newer than its text
  (`come_compiler.c:389`); the next build compiles it.
* The text is parsed long before its time is read (380), so that a save in between makes the C of the
  old text newer than the new text. Texts, C files and objects of the same second cannot be told apart (389).

Modules and maps:

* Exits are not the reverse of inits when a module is shared: its first importer
  ends it (`codegen.c:2633`; `src/docs/Come_spec.md:121`). It is enough that one module lists
  it twice, which nothing forbids (2404): the attempt to prove `UnsharedExitsReverse` showed it.
* Import cycles are accepted. One init then runs before its dependency's
  (`codegen.c:2595`; `Come_spec.md:114`), and at exit a context is freed twice (2637).
* A context that cannot be had stays NULL and the module allocates in the root context
  (`codegen.c:2599`), which the emitted `main` does not free. `NothingLeft` counts contexts only.
* A table that cannot grow fills up, and a put of a new key then looks for a free slot for ever
  (`map.c:74`): `pc = "spin"`, which `map_faults` reaches.
* `b = a` stops being one map when a put grows the table (`map.c:50`; `Come_spec.md:326`).
* When a growth fails and the next one, inside `come_map_remove`, succeeds, the entry that
  is put back goes to a table that no variable points to (`map.c:121`). The table that the
  variables keep is torn: what follows in the cluster cannot be found any more, and a put
  of such a key makes a second entry. The attempt to prove `TableSound` showed it.

Files and strings:

* After a `reopen` that failed, `isopen()` answers true of a stream that is closed (`std.c:250`, `:341`;
  `src/docs/Come_std.md:119` says "Check if stream is currently open"). A later `close` hands
  it to `fclose` a second time, which C leaves undefined; so is a `reopen` or a read. If the C library
  has given the address to another object's stream, it is that one that is closed.
* Nothing closes the stream of an object that is freed, by its program or with its
  context: `come_std__FILE__exit` is empty (`std.c:97`), no one calls it, and the block has no destructor.
  `Come_std.md:44` says that `.exit()` "invokes automatically at scope/memory context
  exit", `:7` "Leaks are impossible due to auto-cleanup", and `:280` "Compiler ensures `.exit()` runs".
* `fname()` answers the old name after `fdopen` (`std.c:238`) and after `close` (112), which also
  leave the cached `fd`, though nothing reads that (`fileno()` asks the stream, 260); `Come_std.md:104` says "Return the current file name".
* `fdopen` of a descriptor that has a stream makes two streams that close it for each other
  (242); with an object's own, the new stream's descriptor is closed at once.
* `int a[10] = {1, 2}` leaves eight items as they were in memory (`codegen.c:1628`), and a
  `resize` zeroes only what is past the old size (`array.c:34`), so that they come into use as they are.
* `std.in`, `std.out` and `std.err` never get their streams (`codegen.c:2612`,
  `std.c:71`; `src/docs/Come_std.md:48`).
* `regex_replace` of all matches that finds none answers the text twice
  (`string.c:577`; `src/docs/Come_string.md:41`).
* `regex_split` at a pattern that can match nothing, like `,*`, loses parts and may read
  behind the terminator (`string.c:485`).
* `find` answers a byte index, `at` takes a character index (`src/docs/Come_string.md:19` says it
  "Returns character index").

Lexer and parser:

* A literal ends at its first quote, escaped or not (`lexer.c:189`); a comment directly
  behind a comment is lexed as `/`; a comment that ends the buffer makes the lexer read
  what is behind its terminator; lines are cut at 255 bytes.
* Errors are printed and parsing goes on; `parse_file` answers success. A `while`
  without braces takes all up to the enclosing brace. Without semicolons two
  statements may be one. The first alias of a name stays, also behind its block.

Code generator:

* A `default` that is not last runs on into the next arm (`codegen.c:2072`;
  `src/README.md:94` says "switch has no implicit fallthrough").
* Ternary, unary, index and member expressions as statements give no C, and a `for`
  without braces around one takes the statement behind it (2195).
* A block gives no braces in C (1819), and a `var` that gets its first value in an inner
  block is not declared behind it (1925; `src/docs/Come_types.md:64`).
* A second declaration of a name in an inner block replaces the lock of the first
  (`codegen_sym.h:19`). The lock looks only at one operand of `?:` and of `+` (472),
  and not at initial values of declared types or at compound assignments.
* Variables of a `for` header are unknown to the table, and `for (var i ...` puts `var` into
  the C (2142).

## 6. Not modelled

* Lexer and parser: the fixed sizes of tokens, nodes and tables; structs and methods
  inside functions; declarations outside of functions, which fill tables; `module.init()`,
  parsed to `module_init`.
* Code generator: the text of expressions, formatting, arrays and tuples, structs
  and their methods, prototypes.
* Strings: that `repeat`, `replace`, `join` and `regex_replace` make their result with
  `come_string_new_len(ctx, "", n)` (`string.c:242`, `268`, `409`, `583`, `980`), which copies `n` bytes from a literal of
  one: a read past it that C leaves undefined, of bytes that the second pass overwrites;
  captures, `regex_groups` and the limit of 512 repetitions, formatting,
  conversions to numbers and bytes.
* std: reading, writing, `setvbuf`'s block (which the program may free while the stream
  uses it), the error object, calls that go straight to the C library.
* Driver: `resolve_import`, command lines and their buffer (`come_compiler.c:227`).
* The vendored talloc beyond the five functions the runtime calls; tests, examples, packaging.

What is left out is either a function of its input with nothing to interleave and
little to get wrong, or depends on a size that a small instance cannot reach.

## 7. Plan

The theorems of section 4 state every invariant and action property of the runs but those that
section 4 lists as only model-checked. What is left, the most valuable first:

1. What the parser and the generator do for every program: `Program`, `Parser` and `Codegen`
   with recursive functions over numbered trees instead of recursive operators. The
   steps of the induction could then be lemmas, though not the induction.
2. That the Windows matcher is a search (`SearchAssumption`) for every pattern and text, for
   the same reason one repetition at a time.
3. Section 6 says what could still be modelled.
