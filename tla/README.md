# A TLA+ verification project for binary-lab

The repository is a laboratory of ELF programs. Its largest part, `elf-loader`,
is a run-time linker (`rtld.so`) written from scratch: the kernel starts it in
place of a program, it maps the program's shared libraries, relocates them,
jumps to the program, and comes back whenever the program calls a library
function for the first time. It has a memory allocator of its own. The other
parts are small tools: `elf-clack` adds a segment to an ELF file, `elf-info`
prints relocations, `look-into-got` and `hello` are demonstrations.

This directory models the run-time linker, its allocator and the file that `elf-clack`
writes in TLA+, checks the models with TLC and proves, with TLAPS, every safety property
of these models but one for instances of any size. `PROJECT.json` lists the components,
the runs, the mutants, the source lines behind every definition, the hazards and the
theorems.

## Inventory

| Component | State | Operations | Module |
|---|---|---|---|
| Start-up (`rtld.c`, `base.S`) | the stack, `program_info`, `GL(dl_pagesize)`, `GL(dl_stack_flags)`, `rtld_map`, `main_map` | `_start`, `loader_start`, `parse_params`, `parse_auxv`, `loader_main` | `Startup` |
| Loading of objects (`load.c`, `rtld.c`) | `GL(rpath)`, the namespace (`l_next`, `l_prev`), `l_reserved`, `runlist`, `l_searchlist` | `open_path`, `parse_dynamic`, `map_object`, `append_to_namespace`, `map_object_deps` | `Loader`, `Closure` |
| Mapping of segments (`load.c`) | memory and its protection, `l_addr`, `l_map_start`, `l_map_end`, `l_text_end`, `l_phdr`, `l_contiguous` | `map_object_fd`, `parse_phdr`, `map_object_loadcmd` | `SegMap` |
| Relocation, lazy binding (`reloc.c`, `trampoline.S`) | words of memory, `got[1]`, `got[2]`, `l_relocated` | `reloc_all`, `relocate_object`, `reloc_rela`, `got_fixup` | `Reloc` |
| Symbol lookup (`lookup.c`) | the object and the symbol the walk is at | `lookup_symbol`, `do_lookup`, `check_match`, `elf_hash` | `Lookup`, `Scope` |
| Free list (`malloc/heap*.c`, `heap.h`) | the descriptors, in the memory they describe, and the list head | `__heap_alloc`, `__heap_alloc_at`, `__heap_free` | `HeapList`, `Heap`, `FreeList` |
| Allocator (`malloc/*.c`) | the heap, the callers' blocks, mapped pages | `malloc`, `free`, `realloc`, `memalign`, `calloc` | `Malloc`, `Allocator` |
| Small library (`lib.c`) | the buffer of `dvsprintf` | `dvsprintf`; string functions, system calls | `Format` (`dvsprintf` only) |
| elf-clack (`crack.c`, `utils.c`, `analyze.c`) | the mapped input, the new segment, the file that is written | `main`, `add_new_segment`, `dump_elf` | `Crack` |
| elf-clack's `show`, elf-info, look-into-got, hello, samples, debug printing | none to speak of | output only | not modelled |

### How they interact

Everything runs in one thread. `_start` hands the kernel's stack to
`loader_start`, which reads the auxiliary vector and calls `loader_main`. That
reads the program headers of the object the kernel has mapped (the program, or
`rtld.so` itself when it is run by hand; then `argv[1]` is mapped by
`map_object`), calls `map_object_deps`, which maps everything reachable through
`DT_NEEDED`, then `reloc_all`, and jumps to the program. The namespace, one
doubly linked list, connects the halves: `map_object_deps` builds it,
`reloc_all` walks it backwards, `lookup_symbol` forwards. From then on the
program runs, and `runtime_resolve` calls `got_fixup` for PLT entries of any
object in any order. The allocator serves the link maps and the work queue.

### What is hard

There are no threads and nothing is stored on disk, so there is no hazard of
interleaved threads or crash recovery. What is hard is the *order* of steps
that depend on one another through lists and memory:

* dependency graphs are cyclic, a work queue grows while it is walked, and the
  search path changes meanwhile;
* objects are relocated in the reverse of the order symbols are searched, and
  words are *added to*, so an object handled twice is silently wrong;
* first calls come in an order that the program chooses;
* mappings overlay one another, with page rounding at each end;
* long sequences of allocations split, merge and unmap areas, with limits
  (a minimum size, a threshold) at which behaviour changes;
* errors show late: an unresolved function at its first call, a system call that
  failed (its negative error number is compared with -1 only) not at all;
* free-area descriptors lie in the memory they describe, so a list that has been
  relinked wrongly reads what a caller has written;
* `crack` fills its file with seven copies that overlap on purpose;
* sizes, hash values and numbers to be printed have a width.

`PROJECT.json` lists these as hazards, each at its line with its properties.

### What makes each component right

* Start-up: the stack is understood whatever the order of the auxiliary vector,
  the link map describes the object in memory, control reaches the entry point.
* Loading: no file is mapped twice, the list is soundly linked both ways, the
  namespace is closed under dependencies and in breadth-first order, an earlier
  search result stays valid, and the walk ends.
* Segments: memory holds what the headers ask for, with the protection they ask
  for.
* Relocation: each word is increased once, by the right address (which is the value the
ABI asks for only where the file has what the code expects), program and libraries agree
on one address per variable, calls land in the right function and are bound at most
once.
* Lookup: the walk ends, and finds the first definition in namespace order unless an
  object on the way kills it.
* Free list: whatever the pointers do, the list is the set of free areas, in
  address order.
* Allocator: blocks and free areas never overlap, lie in mapped memory, are
  large and aligned enough, and no byte is lost.
* Formatting: names are spelled out or cut at the end of the buffer, numbers read
  back.
* elf-clack: in the new file everything is where the headers say, old and new
  segments do not meet in memory, and the new code is entered first and told where
  to go on.

## Modules and how they correspond to the code

A definition keeps the name of the function, variable or macro it models where
TLA+ allows. A definition `X_Something` in front of `X` is a *mutant*: what `X`
would be with a plausible mistake. It is no part of a specification; putting it
in the place of `X` must make TLC find the property it is listed with violated.

**Startup.** The stack is a sequence of words. `parse_params` finds the
auxiliary vector behind the environment, `parse_auxv` reads one entry per step
(`WithAux`), `loader_main` and `ParsePhdr` one program header per step, and
`Enter` computes the address `_start` jumps to. Memory is what the headers of the
mapped object and those of the vDSO say. What Loader, SegMap and Reloc do in
between is one step here (`MapMain`, `MainProgram`, or the failure `NoArgument`).
`WellMade` says what link editors and the kernel see to in the object, `Tells` what
the kernel puts into the vector.

**Loader.** A path is a pair of a directory and a name, an object file what its
dynamic section says (`DT_NEEDED`, `DT_RPATH`, whether the loader's assertions
hold of it). Link maps are numbered in order of creation. One action handles one
`DT_NEEDED` entry completely, with everything the loop body does for it:
`FindLoaded` when `map_object` finds the object in the namespace, `MapNew` when
it maps the file (`parse_dynamic`, reservation, `chain_runlist`,
`append_to_namespace`), `LibraryNotFound` when it exits. The sequence
`namespace` is the chain of `l_next`; the `l_prev` pointers are kept as they are
written, so that the two can disagree. `StartInterp` and `StartDirect` are the
two ways `loader_main` gets there. `BreadthFirst` says what the order of the
namespace is without an algorithm: each object was first met in a `DT_NEEDED` entry, and
these entries, taken in namespace order and within an object in the order of the file,
come in the order of the objects. `parse_dynamic(root_map)` is called a second
time by `map_object_deps`; it changes nothing then and is not repeated.

**Closure** is what Loader promises without its queue, its lists and its search
path: a set of objects to which needed files are added until nothing is missing.
`Implements` of Loader maps the namespace and the map being made to that set.

**SegMap.** Memory is a function from addresses to bytes, a byte being a byte of
the file, zero, or not there. `MapWhole` is the first mapping of a shared object
with the protection of its holes, `StartExec` the beginning for an executable,
`MapSegment` one round of `map_object_loadcmd`: file pages, clearing the rest of
the last page (with `mprotect` before and after where the segment is read-only),
pages of zeros. Any `mmap` to a fixed address may fail (the constant `Outcomes`);
the code does not notice and goes on, and the history variable `refused` records
it, since a property can only be about what was asked for and granted. `WellFormed`
says what a link editor takes care of in the headers, `Fits` that an object lies in
the modelled memory.

**Reloc.** An object has an address, words, definitions and two relocation
tables. One action per relocation entry, named for its type; `EnterObject` and
`FinishObject` begin and end `relocate_object`, including `got[1]` and `got[2]`.
When the program runs, `got_fixup` binds any unbound PLT entry of any object, and
`got_fixup_fails` is the exit for an undefined one. What a lookup comes to is
taken from `Scope`. An object may be without symbol and string tables as long as it
has no `DT_RELA` (`load.c:75` asserts that much); if it has a PLT, `reloc_rela` dies
of it (`EnterPltFails`). A word keeps what the file has in it: `reloc_rela` adds to it.
`Relocated` is about that sum (`IncreasedOnce`) and about when it is the value the ABI
asks for (`AbiExactlyIfInPlace`). Two conventions of link editors are definitions of their own, for some
theorems need them and others do not: `PointersEmpty` (words of `GLOB_DAT`
entries are 0 in the file) and `CopyInFront` (a copy comes before what it copies).
`MCReloc` checks that its instance keeps them (`Conventions`).

**Lookup, Scope.** `Scope` says what `lookup_symbol` comes to in a namespace: the
first definition, none, or death at an object that lacks a table: without
`DT_SYMTAB` or `DT_STRTAB` it is the null pointer `D_PTR` goes through at
`lookup.c:48`, in front of the comparison with `skip` and of the test for `NULL`, which
is never true (`NullDereference`); without `DT_HASH` a division by zero. `Lookup` is the
walk itself, one symbol of a chain per step, through hash tables as a link editor makes
them with the hash function of the ABI. Both hash functions work in units of four bits:
a unit has `Base` values here, an `unsigned int` eight units, an `unsigned long`
sixteen, and `ExOr`, the exclusive or of two units, is a constant. `AbiStep` is one
character of the ABI's function, `HashStep` one of the code's, which works in 64 bits
and clears the upper unit in another way; `AbiHash` holds the ABI's values of the names
in use, which `LookupAssumption` says are computed character by character. An object has
at most one definition of a name. The machine's names differ from Reloc's, so that one
module can extend both.

**Heap, FreeList, HeapList.** `Heap` has the free list's functions as operators on sets of
areas: the list is in address order, so the set determines it. `FreeList` makes a
specification of them. `HeapList` is the code with its pointers: a descriptor is at
the end of its area, is destroyed by what is written over it, and a call that reads
one that is not there is an error. The loops of the code that go along the list are
not recursive operators: `Behind` is the least set that is closed under following
`next`, and a loop comes to the first descriptor there that fulfils its condition. It
implements `FreeList`.

**Malloc, Allocator.** `Malloc` has one action per call. Sizes are those of an x86-64
build (granularity 8, descriptor 24, header 8 bytes); only the page is scaled to 256
bytes, and the unmap threshold with it (8 pages). `mmap` may give any free run of pages,
next to others or not. `calloc` multiplies in a word of `Word` values and so wraps;
`realloc(NULL, n)` and `realloc(p, 0)` change state only through `malloc` and `free`. A
refused `mmap` is `mmap_fails`: the error number is taken for an address, and the
process dies of the write. `Allocator` is what callers see: blocks that do not share a
byte, aligned as asked, each call touching at most one. `Malloc` implements it (in the
instances without the finding below).

**Crack.** The file that `crack` writes is kept byte by byte, a byte being the
place it was copied from, because the copies overlap; one action per step of
`main`, `add_new_segment` and `dump_elf`. The input is its size and its headers. The
first copy may be longer than the mapping it goes to: then the process is killed, or
goes on with whatever was mapped behind overwritten, as a rule the private mapping of the
input, and the model stops there (`"overrun"`). The properties are about the file that
is written. None of them says that the program in it runs: the tool's own README says
that only `mini` can be cracked and run and that cracked `hello` and `hello-static`
cannot, and nothing here contradicts it. `mini` does not look at what the kernel hands
it; the C library does, the address of the program headers (`AT_PHDR`) among it, which
a kernel that computes it from `e_phoff` and the first segment gets wrong for tables
that were moved to another segment. Kernel and C library are outside the model.

**Format.** `dvsprintf`, one character of the format string per step; a character
is its code, so that digits below `'0'` would be seen. What a format stands for
is stated by positions: `Piece` is the text of one of its characters (a `%` stands for
the whole directive), `Start` the number of characters before it. A format that ends
within a directive makes the code step over the terminator and read on behind the
string; the model stops there (`"overrun"`). The machine's
names differ from Loader's, so that one module can extend both.

## Runs

| Run | Instance | Shows |
|---|---|---|
| `startup` | two programs at fixed addresses (data behind or before the text), one the kernel has moved, one with a TLS segment, `rtld.so` by hand; all orders of five auxiliary entries (and a vector without headers); 1 to 3 arguments, 0 or 2 environment strings | `BootRead`, `ObjectDescribed`, `EntersUnlessMoved` |
| `loader` | every graph of a program and three libraries with at most 2, 2, 1 and 1 dependencies, cycles, repetitions, libraries that need the program, missing and unsound files; file systems with two libraries in up to three of four directories, two of them searched only once a `DT_RPATH` names them; both ways of starting | `TypeOK`, `MappedOnce`, `BackLinks`, `DependenciesMapped`, `Closed`, `RpathFits`, `BreadthFirst`, `Termination`, `Implements` (Closure) |
| `segmap` | pages of 4 bytes; a text segment, a segment in the middle or none, a data segment; sizes 0 to a page, offsets at and off a page boundary, zeros that end in the same page, on its end or in the next; executables, and shared objects at two addresses; any `mmap` failing or not | `ImageAsAsked`, `ProtectedAsAsked`, `PhdrFound` where no `mmap` failed, `HolesClosed` always |
| `lookup` | units of two values, so that the hash wraps; 1 to 3 buckets, names that collide in a bucket and in a hash value, undefined and thread-local symbols, objects without a hash table and without a symbol table, names of up to ten characters | `FirstDefinition`, `Returns` |
| `reloc` | a program and two libraries, with or without `rtld.so` in front, that define and use a variable and two functions in every combination, with pointers that have addends, in the entry alone and in the word too; objects without tables; every order of calls | `Relocated`, `CopiedWhole`, `OneVariable`, `CallsLand`, `BoundOnce`, `Handover` |
| `reloc_copy` | a variable of two words | violates `CopiedWhole` |
| `malloc_heap` | all sequences of calls with up to three blocks of 1 and 100 bytes, `memalign(64, 20)`, `calloc` of 4 by 25, of 0 by 5, and of 3 by 1366, whose product wraps to 2; in the static area, a page below it and two next to each other above it | `HeapCheck`, `NoOverlap`, `HoldsDescriptor`, `Promised`, `Conservation`, `Implements` (Allocator) |
| `malloc_unmap` | up to four blocks of 320 and 1800 bytes in twelve pages, so that freed areas pass the threshold of eight pages | `OnlyMapped`, `Conservation` |
| `malloc_memalign` | `memalign(64, 8)` | violates `HoldsDescriptor` |
| `heap_list` | a static area of 192 bytes, a chunk of 64 bytes that touches it and one of 96 apart from it; sizes 8 and 60, up to three blocks; allocation, growth in place, release of a block or of its end | `heap_check`, `Implements` (FreeList) |
| `crack` | sizes scaled (header 2, table entries 2 and 1, new segment 4, rounding 2, page 16, alignment 64, sign bit of an operand 1024); files with and without `PT_PHDR`, section headers, data behind both; low and high addresses | `ContentsKept`, `TablesMoved`, `LoadedApart`, `EntryChained` |
| `format` | `int` of one byte, `long` of two; numbers at and around both limits in every form of the directives, strings, formats that end within a directive, and buffers of 1 to 20 characters | `NameSpelled`, `ReadsBack` |

The comment in front of each property says what it means. Only Loader keeps a
type invariant as a run's property: its proofs need it. The three refinements
(`Implements`) check that the initial states map to initial states and every step
to a step or a stutter of the abstract specification.

**Why the bounds are enough.** Three libraries and the program allow every shape
of cycle that matters to a walk that remembers one object at a time (self-loop,
two-cycle, a cycle through the root, a diamond), and what the search order depends
on is the relative order of directories, of which there are four. In `segmap` the
page arithmetic depends on remainders and on which of two ends is larger; pages of
four bytes give each combination. `malloc_heap` reaches fragmentation on both
sides of each block and both outcomes of each minimum-size test;
`malloc_unmap` reaches each kind of left-over at either end of an unmapped area.
The code of the free list looks at an area and its two neighbours; three blocks
and three places to start from give it every arrangement of them, with the list
head in each. A hash of eight units of two values wraps after eight characters, and a
word of one byte has its sign where the printing code looks for it. What `crack`
computes depends on which end is last and on remainders, which the scaled sizes
keep. The bounds are constants: `MaxLive`, `MaxUsed` (blocks), `Limit` (addresses),
`Arena` (pages), `Word` (of `calloc`), `MAX_PATH` (the code's own).

**Deadlock** is checked in all runs; a state in which the process has exited, died or
entered the program has a stuttering step (`Finished`, `Running`, `Dead`).

**Fairness.** `Termination` assumes `WF_vars(Step)` in Loader, `Handover`
`WF_vars(Linking)` in Reloc, `Returns` `WF_lookup_vars(LookupStep)` in Lookup: the
linker is one thread that never blocks, so the kernel runs it until it is done. Nothing
is assumed about the program's calls.

## What is proved

Eight modules hold proofs, for every value of the constants that the named `ASSUME`
of the component's module allows. TLC evaluates these assumptions in every run, so
they are known to hold of something.

| Module | Inductive invariant | Theorems (the property each one is about) |
|---|---|---|
| `LoaderProofs` | `LoaderInv` | `TypeCorrect`, `NeverMappedTwice` (`MappedOnce`), `NamespaceRetraced` (`BackLinks`), `DependenciesStayMapped` (`DependenciesMapped`), `NamespaceClosed` (`Closed`), `SearchPathFits` (`RpathFits`), `NamespaceInOrder` (`BreadthFirst`, with `OrderInv`), `LoaderImplements` (`Implements`: Closure); of Format, with `FormatInv`: `NamesSpelled` (`NameSpelled`) |
| `StartupProofs` | `StartupInv` (`WordForWord`) | `StackUnderstood` (`BootRead`), `ObjectFound` (`ObjectDescribed`), `EntryReached` (`EntersUnlessMoved`) |
| `SegMapProofs` | `SegMapInv` (`RoundByRound`) | `ImageInMemory` (`ImageAsAsked`), `ProtectionInForce` (`ProtectedAsAsked`), `HolesStayClosed` (`HolesClosed`), `HeadersFound` (`PhdrFound`) |
| `RelocProofs` | `RelocInv` (`WordByWord`) | `EveryCallLands` (`CallsLand`), `BindingIsFinal` (`BoundOnce`), `DataRelocated` (`Relocated`), `OneVariableForAll` (`OneVariable`), `WordsCopied` (`CopiedWhole`); of Lookup, with `LookupInv`: `HashAsInAbi`, `DefinitionFound` (`FirstDefinition`) |
| `HeapProofs` | | lemmas about `heap_alloc`, `heap_alloc_at` and `heap_free`, used by the next two |
| `HeapListProofs` | `HeapListInv` (`ListStaysGood`) | `ListChecked` (`heap_check`), `ListImplements` (`Implements`: FreeList) |
| `MallocProofs` | `MallocInv` (`AlwaysBalanced`) | `ListInOrder` (`HeapCheck`), `BlocksApart` (`NoOverlap`), `NoByteLost` (`Conservation`), `NeverUnmapped` (`OnlyMapped`), `AsPromised` (`Promised`), `DescriptorFits` (`HoldsDescriptor`), `MallocImplements` (`Implements`: Allocator) |
| `CrackProofs` | `CrackInv` (`StepByStep`) | `NothingOverwritten` (`ContentsKept`), `TablesInPlace` (`TablesMoved`), `NewSegmentApart` (`LoadedApart`), `EntryAndMessage` (`EntryChained`) |

**Loader**, for every set of directories, names and files, every file system and
every dependency graph of any size. `LoaderAssumption`: the initial path is a list of
different directories, the two markers (`NoPath`, `Absent`) are no directory and no
file, and the files have the form the model gives them. Nothing is assumed of the graph.
`MappedOnce` is not inductive: `map_object` decides by a walk of
the namespace whether a file is mapped, so one must know that the walk meets
every link map. `Threaded` says so: maps are on the list in the order they were
made, with the right `l_prev`. `Closed` speaks of the end; what holds on the way
is `DependenciesMapped`, for the part of the work queue that has been handled,
and `Queued`, by which every map from the root on is in the queue. The delicate
step is `MapNew`: it may extend `GL(rpath)`, and everything resolved before must
still resolve to the same file. It does because `parse_dynamic` adds at the end
only (`ResolvesStable`, `ParseDynamic`, `DependenciesKept`). `LoaderInv` is the
conjunction of `TypeOK`, `Threaded`, `Queued`, `MappedOnce` and `DependenciesMapped`.
`SearchPathFits` needs one more inductive fact, that no directory
is in the path twice, and then counts (`FS_Injection`). `NamespaceInOrder` needs
`OrderInv`: the work queue is in namespace order, but for the root, which is queued again
when a library needs it, and objects were first met in order. The entry being read is
behind all that have been read, or has itself been read before (`CurrentLast`); in the
second case it finds an object that is there, so a new object is met behind all others.
From `LoaderInv` each step
is a step of Closure, or a stutter, under the mapping of `Implements`.

**Startup**, for stacks, vectors and header tables of any length. `StackLaid` says
which word is where on a stack with that many arguments and strings; `StackRead`
relates `pi` to the entries of the vector that were read so far, `HeadersRead` the
link map to the headers read so far. Each property is about the end of a loop and
is one of these with the whole vector or table for the part. `StartupAssumption` had
to be made precise for it: the vector tells all that is needed to find the headers
or nothing at all; `PT_PHDR`, where there is one, is the first header and tells the
truth; there is code; the object ends below `Highest`, the initial value of
`l_map_start`, and its headers are not where the vDSO's are.

**SegMap**, for every page size, any number of segments of any size, and any `mmap`
failing or not. Rounding is reduced to three facts about page boundaries: they are a
page apart, `PageDown` gives the last one before an address (`DownIsLast`), `PageUp` the
first behind it (`UpIsFirst`). A round of the loop changes nothing outside the pages of
its own segment (`RoundConfined`) and makes these as asked (`RoundRight`); the invariant
says so of the segments before `c`, and of the first segment of a shared object before
the loop begins (`FirstMapped`). `HolesClosed` needs no order of the segments: either
there are holes, and what lies between the first and the last segment was closed before
the loop, or there are none, and every page between the ends belongs to a segment
(`NoHoles`). `WellFormed` is what a link editor guarantees; that a shared object's first
segment begins in the first page of the file is needed because the code maps from offset
0 and not from `c->mapoff` (`load.c:378`).

**Reloc**, for every namespace of any length and any tables that keep `RelocAssumption`
(objects apart in memory, one entry per word, entries within the object). `reloc_rela`
*adds* to words, so what must be known is which words were touched: `Progress` says
where `reloc_all` is, `Pristine` that words not reached are as they were mapped, `Slots`
and `Data` that each entry done (`Done`) has left its final value. `DataRelocated` has
no hypothesis about words and addends: a word ends as what the file has in it plus its
displacement. It also says what that is worth: the word has the ABI's value if and
only if it is 0 in the file, or, for `R_X86_64_64`, if and only if it is the addend in
the file. Files of GNU ld fall short of it in two ways (see what was noticed, below).
`OneVariableForAll` assumes `PointersEmpty` and `CopyInFront`, `WordsCopied` assumes
`CopyInFront` and that variables are one word wide: `reloc_copy` shows that this cannot
be dropped.

**Lookup**, for every base, every name and every namespace. `LookupAssumption`: `Base`
is at least 2, `ExOr` of two units is a unit, of a unit and itself zero, of a unit and
zero the unit, and the tables are what a link editor makes: each symbol is in the chain
of its hash modulo the number of buckets, and chains end. `HashAsInAbi` is arithmetic: a
number is cut into the upper unit, the middle, and the two lowest (`Low`), and one step
of the code gives, modulo the width of an `unsigned int`, what one step of the ABI gives
from the same number. The bits above, which the code keeps, never come down again, and
the function's result, an `unsigned int`, drops them before the hash is taken modulo the
number of buckets. `LookupInv` says of the walk that objects before the present one have
no definition and that, if the present one has it, it is still ahead in the chain
(`Ahead`). Objects may lack any table: `FirstDefinition` says that the process is killed
only by one of these, and only if no definition comes before it.

**HeapList**, for every static area, all chunks, sizes and any number of blocks.
`heap_check` alone is not inductive: it says that the list is in order, but an
allocation overwrites memory, and the list survives only if no descriptor was in the
bytes that were given away. `HeapListInv` therefore has the descriptors, in order and
linked both ways (`Sorted`), their areas apart (`GoodHeap` of HeapProofs), and the
blocks in use apart from the areas. Unlinking and linking pass through a list with a gap
(`SortedBut`), which `LinkInserts` closes. That a loop stops at the right descriptor is
`StopsWhere`; from there each call makes of the list what the operator of `Heap` makes
of the set, and that is a step of FreeList. `HeapListAssumption`: areas are multiples of
8 bytes, not at address 0, and larger than a descriptor.

**Format**, for every format, all arguments and every buffer of at least one character.
The invariant: what is in the buffer are the pieces before the present character, each
at its place (`Written`), and the next argument is as many places on as there were
directives. `NameSpelled` is about formats whose directives are all `%s` or `%c` and
that have an argument for each; in these no other directive is met (`LetterMet`).
`FormatAssumption` says only what the types of C say.

**Malloc**, for every page size, every set of requests and any number of blocks. Neither
`NoOverlap` nor `Conservation` is inductive: a block that is freed joins the list
without a test, so that the list stays sound only if the block was apart from it, and
what is given back is all there only if the list had the rest. `MallocInv` is
`Balanced`: the blocks are well-formed and disjoint, and the `Ledger` is right: the list
is in order, shares no byte with those in use, and together they are exactly the bytes
that were given. One lemma per operation says how it moves bytes from one side to the
other (`LedgerAlloc` and its like); what an operation does to a set of areas is in
`HeapProofs`. `DescriptorFits` has the hypothesis that no one asks `memalign` for 8
bytes or less, which the run `malloc_memalign` shows to be needed. `MallocAssumption`:
pages are multiples of 8 bytes and larger than the smallest area, no page touches the
static area, on either side of it, an alignment is 1, 2, 4, 8, 16 or a multiple of 32,
as every power of two is.

**Crack**, for every file and all sizes. `Stage` numbers the steps; `Fields` says which
numbers are known from which stage on, `Contents` what the file holds: the old bytes up
to the new segment, then the tables, and how much is still unwritten (`HeapFrom`). Each
copy is shown to keep what the earlier ones have written (`HoldsKept`) and to add its
own (`HoldsMade`). `LoadedApart` and `EntryChained` are arithmetic from there.
`CrackAssumption` turned out to need that the ELF header is no larger than the gap
`crack` leaves (else the new segment could begin inside it) and that there is at most
one `PT_PHDR`.

Two devices recur. Largest and smallest elements (where a loop ends, the end of
the last segment) come from the library's theorem that the natural numbers are
well-founded, applied to a *set*, because the induction theorems that take an operator
cannot be used. Facts about a step that take many parameters are named predicates
(`Places`, `Effect`, `Ledger`), so that a proof cites one name.

**What the proof attempts showed.** The first versions of three assumptions were too
weak for the properties, though TLC had passed on instances that happened to keep
them: tables with two entries for one word (now `OnePerWord`), the ELF header larger
than the gap, a vector that tells of headers only in part. Such inputs are not made by
link editors or the kernel, and the code does not check for them.

Three statements had to be given another form before they could be proved, since
induction over data is out of the prover's reach: the breadth-first order of Loader, the
text of Format and the walks of Lookup and HeapList were recursive operators or folds,
and are now sets and positions. The old forms of the first two were compared with the
new ones by TLC on the runs' instances, with and without the mutants, before they were
dropped: they agree, the first one together with `BackLinks` and `Closed`, which
the old form implied.

**Only model-checked.** `Termination`, `Handover` and `Returns` (liveness is out of the
prover's reach), and `ReadsBack` of `Format`: that digits written one after the other
read back as the number is an induction over their number, for which the library's
theorems would have to be given an operator.

## Findings

Two runs refute what a comment of the code says; `PROJECT.json` quotes the lines.

* `reloc_copy`: `R_X86_64_COPY` copies one word, whatever the size.
* `malloc_memalign`: `memalign` returns blocks too small for the descriptor
  that `free` will put into them.

Noticed while modelling, and not made runs of their own:

* Addends. `R_X86_64_64` ignores its addend (`reloc.c:100`; the comment at `reloc.c:95`
  says "I do not know whether this is right"): link editors leave the word 0 and put the
  addend into the entry, so a pointer into the middle of a variable leads to its
  beginning. `R_X86_64_RELATIVE` adds its addend to the word (`reloc.c:92`; the comment
  at `reloc.c:89` says "add the load address"): GNU ld has put the addend into the word
  as well, so that it counts twice. `Relocated` says for which files the values are
  right, and the instance of `reloc` has files of both kinds.
* The entry point of a position-independent program is moved twice, by the kernel
  in `AT_ENTRY` and by `loader_main` adding `l_addr` (`rtld.c:254`);
  `EntersUnlessMoved` states when control does reach it.
* A failing `mmap` is not noticed in `load.c:275` nor in `malloc.c:132`, for the
  result is compared with -1 and is another negative number. `HolesClosed` is what holds
  even then; no property asks for the failure to be noticed.
* `free` can take the heap's last memory: `__heap_is_empty` tests the address of the
  list head, not the head, so the reserve that the comment at `free.c:103` speaks of
  is never made. An empty heap is sound; the next `malloc` maps memory.
* `GL(rpath)` has room for ten directories and no check; eight libraries with
  different `DT_RPATH`s write beyond it. `RpathFits` states when it does fit, and is
  silent about more directories than that.
* When a library needs the root, `r_nlist` counts one entry that `r_list` does
  not get (`load.c:490`). Nothing but debug output would read them.
* A shared object is mapped from offset 0 of its file, whatever the offset of its first
  segment (`load.c:378`; `WellFormed` has the condition).
* `loader_main` computes `l_addr` from the address of the `PT_PHDR` header instead
  of the table's, which is right when it is the first header, as link editors have it.
* `__heap_alloc_at` looks only at the first area that starts at or below the
  address: `realloc` seldom grows in place when areas lie in front (`AreasAt`).
* `__strdup` asks for one byte less than it copies (`lib.c:42`); rounding
  hides it for most lengths.
* `dvsprintf`: `%u` takes its argument for signed; the smallest number cannot be
  negated; padded negative numbers are one character wider; `%Ns` pads on the right;
  the flag `0` is for `x` only; a buffer of size 0 gets a terminator all the same; a
  format that ends within a directive is read beyond its end (no caller has one).
* `phnum` is 16 bits wide, so the assertion at `rtld.c:287` always holds.
* `lookup_symbol` tests the addresses of the symbol and string tables for `NULL`
  (`lookup.c:54`) after it has gone through the pointers to their entries
  (`lookup.c:48`), so an object without these entries kills the process instead of
  being passed over (`NullDereference`).
* `crack`: a file with data behind its last segment and section, longer than what
  is added and the rest of a page, is copied beyond the new file's mapping, which kills
  the process or overwrites the input it is reading from (`CopyOld`; no property is about
  the file that is left then); the address of `PT_PHDR` is wrong
  for tables behind the first `0x200000` bytes (`LoadedApart` has the opposite for a
  condition, so it does not show this); the output's name is cut to 99 characters
  (`crack.c:187`).

## What is not modelled

* The string functions of `lib.c` (loops over one string without state), the system
  call wrappers (they pass their arguments on), and `mprint_start`, `mprint_end`
  and the other debug printing (output, no effect on linking).
* The registers `trampoline.S` saves.
* What the kernel and the C library make of a cracked file (see Crack above).
* Of the allocator's calls on the pointer list, the ones of `memalign` and of `free`'s
  unmapping are combinations of allocation and release; `HeapList` has the parts, not
  the release of a block's front nor the removal of an area by `free`.
* `malloc_debug.c` and `heap_debug.c` (not built; what `__heap_check` tests is the
  invariant `heap_check`), and `list.h` (vendored; `runlist` is a sequence in Loader).
* `show` of elf-clack, `elf-info`, `look-into-got`, `hello` and the samples, which
  only print; what `sample/mini.c` tests by hand is `OneVariable`, `CallsLand` and
  `BoundOnce`.
* The failure of the first, floating `mmap` of a shared object, and sums in
  `malloc` and `memalign` that wrap around 2^64: no caller asks for such sizes, and
  for `malloc` the outcome would be that of `mmap_fails`.

## Where the project stands

The models are complete as far as the code carries state; every invariant that a run
checks, and every refinement, is also proved. What could be added is a composition of
Startup, Loader, SegMap and Reloc through the namespace: what one leaves behind is what
the next assumes (`RelocAssumption`, for one, that objects are apart in memory). Today
these assumptions are stated where they are used and evaluated on the instances of the
runs.
