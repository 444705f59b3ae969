------------------------------- MODULE Malloc -------------------------------
(***************************************************************************)
(* The allocator of rtld.so (elf-loader/malloc: malloc.c, free.c,          *)
(* realloc.c, memalign.c, calloc.c), built to get memory by mmap and       *)
(* without threads.  A state holds the free list, the blocks its callers   *)
(* own and the pages mmap has given it; each action is one call.           *)
(*                                                                         *)
(* A block is [mem, size]: mem is MALLOC_BASE, where the header that       *)
(* records size is, and the caller's bytes start MALLOC_HEADER_SIZE        *)
(* behind it.  What a caller was promised is kept with the block: need     *)
(* bytes, at a multiple of align.                                          *)
(*                                                                         *)
(* A definition X_Something before a definition X is not part of the       *)
(* specification: it is what X would be with a plausible mistake, kept to  *)
(* show that the properties notice it.                                     *)
(***************************************************************************)
EXTENDS Heap, FiniteSets

CONSTANTS
    PageSize,    \* __pagesize
    StaticBase,  \* the address of initial_fa
    Arena,       \* the numbers of the pages mmap may give out
    Requests,    \* the sizes callers ask for
    Alignments,  \* the alignments they ask memalign for, and
    AlignedRequests, \* the sizes
    Word,        \* sizes are computed modulo this (2^64 in the code)
    Callocs,     \* the pairs <<nmemb, lsize>> they ask calloc for
    MaxLive      \* bound: no call is made that would leave more blocks than this

MALLOC_HEADER_SIZE == 8
MALLOC_ALIGNMENT == 8
MALLOC_REALLOC_MIN_FREE_SIZE == HEAP_MIN_SIZE + 16
MALLOC_UNMAP_THRESHOLD == 8 * PageSize

(* HEAP_DECLARE_STATIC_FREE_AREA (initial_fa, 256) *)
InitialArea == [mem |-> StaticBase, size |-> HEAP_ADJUST_SIZE(256)]

ASSUME MallocAssumption ==
    /\ PageSize \in Nat \ {0} /\ PageSize % HEAP_GRANULARITY = 0
    /\ PageSize > HEAP_MIN_FREE_AREA_SIZE
    /\ StaticBase \in Nat /\ StaticBase % HEAP_GRANULARITY = 0
    /\ Arena \subseteq Nat
    /\ \A n \in Arena : \/ n * PageSize > End(InitialArea)
                        \/ n * PageSize + PageSize < StaticBase
    /\ Requests \subseteq Nat \ {0}
    /\ \A a \in Alignments : a \in {1, 2, 4, 8, 16} \/ (a \in Nat /\ a >= 32 /\ a % 32 = 0)
    /\ AlignedRequests \subseteq Nat
    /\ Word \in Nat \ {0}
    /\ Callocs \subseteq (0 .. Word - 1) \X (0 .. Word - 1)
    /\ MaxLive \in Nat

VARIABLES
    free,    \* the areas of __malloc_heap
    live,    \* the blocks in the callers' hands
    mapped,  \* the numbers of the pages that are mapped
    fault    \* the process died of a bad memory access

vars == <<free, live, mapped, fault>>

(* The user's address of a block. *)
Addr(b) == b.mem + MALLOC_HEADER_SIZE

Owned(block, need, align) ==
    [mem |-> block.mem, size |-> block.size, need |-> need, align |-> align]

Init ==
    /\ free = {InitialArea}
    /\ live = {}
    /\ mapped = {}
    /\ fault = FALSE

-----------------------------------------------------------------------------
(***************************************************************************)
(* The pages from address start up to end, and mmap: any run of pages that *)
(* are not mapped, or failure.                                             *)
(***************************************************************************)
Pages(start, end) == {n \in Arena : start <= n * PageSize /\ n * PageSize < end}

Available(page, size) ==
    \A n \in page .. page + (size \div PageSize) - 1 : n \in Arena \ mapped

(***************************************************************************)
(* malloc_from_heap.  The heap a block of size bytes is taken from, and    *)
(* the pages mapped then: the heap as it is, or, when no area of it is big *)
(* enough, the heap with a block from mmap in it.                          *)
(***************************************************************************)
ExtendSize(total) == IF total < PageSize THEN PageSize ELSE RoundUp(total, PageSize)

InHeap(size) == Fitting(free, size + MALLOC_HEADER_SIZE) # {}

Sources(size) ==
    LET length == ExtendSize(size + MALLOC_HEADER_SIZE) IN
    IF InHeap(size) THEN {[heap |-> free, pages |-> mapped]}
    ELSE {[heap  |-> heap_free(free, page * PageSize, length).heap,
           pages |-> mapped \cup Pages(page * PageSize, page * PageSize + length)]
             : page \in {n \in Arena : Available(n, length)}}

malloc_from_heap(size, heap) == heap_alloc(heap, size + MALLOC_HEADER_SIZE)

(***************************************************************************)
(* free_to_heap.  An area that has grown to the threshold leaves the heap  *)
(* and its whole pages are unmapped; what is left at either end returns to *)
(* the heap, with one more page when it would be too small an area.  The   *)
(* test for a heap that has become empty looks at the address of           *)
(* __malloc_heap, which is never null, so nothing is held back.            *)
(***************************************************************************)
unmap_start_RoundedDown(fa) == RoundDown(fa.mem, PageSize)
unmap_start(fa) ==
    LET up == RoundUp(fa.mem, PageSize) IN
    IF up > fa.mem /\ up - fa.mem < HEAP_MIN_FREE_AREA_SIZE THEN up + PageSize ELSE up

unmap_end(fa) ==
    LET down == RoundDown(End(fa), PageSize) IN
    IF End(fa) > down /\ End(fa) - down < HEAP_MIN_FREE_AREA_SIZE
    THEN down - PageSize ELSE down

(* Give the bytes from start up to end back to the heap, if there are any. *)
Return(heap, start, end) ==
    IF end > start THEN heap_free(heap, start, end - start).heap ELSE heap

Trim_TailLost(heap, fa) == Return(heap \ {fa}, fa.mem, unmap_start(fa))
Trim(heap, fa) ==
    Return(Return(heap \ {fa}, fa.mem, unmap_start(fa)), unmap_end(fa), End(fa))

free_to_heap(heap, pages, block) ==
    LET freed == heap_free(heap, block.mem, block.size) IN
    IF freed.area.size < MALLOC_UNMAP_THRESHOLD
    THEN [heap |-> freed.heap, pages |-> pages]
    ELSE [heap  |-> Trim(freed.heap, freed.area),
          pages |-> pages \ Pages(unmap_start(freed.area), unmap_end(freed.area))]

-----------------------------------------------------------------------------

(***************************************************************************)
(* mmap fails in a call that asks malloc_from_heap for size bytes.  The    *)
(* system call returns -ENOMEM, which is not the -1 that is tested for, so *)
(* __heap_free writes the descriptor of an area to an unmapped address     *)
(* near 0.                                                                 *)
(***************************************************************************)
mmap_fails(size) ==
    /\ ~fault
    /\ ~InHeap(size)
    /\ fault' = TRUE
    /\ UNCHANGED <<free, live, mapped>>

(* malloc for size bytes, where the caller counts on need of them. *)
Serve(size, need) ==
    /\ ~fault
    /\ Cardinality(live) < MaxLive
    /\ \/ /\ \E src \in Sources(size) :
                LET got == malloc_from_heap(size, src.heap) IN
                /\ free' = got.heap
                /\ mapped' = src.pages
                /\ live' = live \cup {Owned(got.block, need, MALLOC_ALIGNMENT)}
          /\ UNCHANGED fault
       \/ mmap_fails(size)

malloc(size) == Serve(size, size)

(***************************************************************************)
(* calloc: a product that does not fit a size_t is refused, and malloc     *)
(* refuses 0; either way nothing changes.                                  *)
(***************************************************************************)
calloc_NoGuard(nmemb, lsize) ==
    LET size == (lsize * nmemb) % Word IN
    /\ size # 0
    /\ Serve(size, lsize * nmemb)
calloc(nmemb, lsize) ==
    LET size == (lsize * nmemb) % Word IN
    /\ nmemb # 0 => lsize = size \div nmemb
    /\ size # 0
    /\ Serve(size, lsize * nmemb)

free_block(b) ==
    /\ ~fault
    /\ LET after == free_to_heap(free, mapped, b) IN
          /\ free' = after.heap
          /\ mapped' = after.pages
    /\ live' = live \ {b}
    /\ UNCHANGED fault

(***************************************************************************)
(* realloc: the block grows in place, or is copied to a new one, or gives  *)
(* its end back when that is worth while, or stays as it is.  realloc to 0 *)
(* is free_block, realloc of a null pointer malloc; malloc of 0 or of a    *)
(* size near 2^64 returns 0 and changes nothing.                           *)
(***************************************************************************)
Resized(b, size, need) == [b EXCEPT !.size = size, !.need = need, !.align = MALLOC_ALIGNMENT]

ReallocSize(new_size) == AllocSize(new_size + MALLOC_HEADER_SIZE)

Growth(b, new_size) == AreasAt(free, End(b), ReallocSize(new_size) - b.size)

realloc_grow(b, new_size) ==
    /\ ~fault
    /\ ReallocSize(new_size) > b.size
    /\ \E fa \in Growth(b, new_size) :
          LET extra == HEAP_ADJUST_SIZE(ReallocSize(new_size) - b.size) IN
          /\ free' = heap_free_area_alloc(free, fa, extra)
          /\ live' = (live \ {b}) \cup {Resized(b, b.size + Taken(fa, extra), new_size)}
    /\ UNCHANGED <<mapped, fault>>

realloc_copy(b, new_size) ==
    /\ ~fault
    /\ ReallocSize(new_size) > b.size
    /\ Growth(b, new_size) = {}
    /\ LET size == ReallocSize(new_size) - MALLOC_HEADER_SIZE IN
       \/ /\ \E src \in Sources(size) :
                LET got   == malloc_from_heap(size, src.heap)
                    after == free_to_heap(got.heap, src.pages, b) IN
                /\ free' = after.heap
                /\ mapped' = after.pages
                /\ live' = (live \ {b}) \cup {Owned(got.block, new_size, MALLOC_ALIGNMENT)}
          /\ UNCHANGED fault
       \/ mmap_fails(size)

realloc_shrink(b, new_size) ==
    /\ ~fault
    /\ ReallocSize(new_size) <= b.size
    /\ LET size == ReallocSize(new_size) IN
       IF size + MALLOC_REALLOC_MIN_FREE_SIZE <= b.size
       THEN /\ free' = heap_free(free, b.mem + size, b.size - size).heap
            /\ live' = (live \ {b}) \cup {Resized(b, size, new_size)}
       ELSE /\ live' = (live \ {b}) \cup {Resized(b, b.size, new_size)}
            /\ UNCHANGED free
    /\ UNCHANGED <<mapped, fault>>

(***************************************************************************)
(* memalign: a block big enough to have an aligned address in it; what is  *)
(* before that address, and what is behind the end if it is worth while,   *)
(* goes back to the heap.                                                  *)
(***************************************************************************)
AlignedAddr_RoundedOnce(tot_addr, alignment) ==
    LET addr == RoundUp(tot_addr, alignment) IN
    IF addr # tot_addr /\ addr - tot_addr < HEAP_MIN_SIZE
    THEN addr + HEAP_MIN_SIZE ELSE addr
AlignedAddr(tot_addr, alignment) ==
    LET addr == RoundUp(tot_addr, alignment) IN
    IF addr # tot_addr /\ addr - tot_addr < HEAP_MIN_SIZE
    THEN RoundUp(tot_addr + HEAP_MIN_SIZE, alignment) ELSE addr

Aligned_FrontLost(got, alignment, size) ==
    LET addr == AlignedAddr(Addr(got.block), alignment)
        base == got.block.mem + (addr - Addr(got.block))
    IN  [block |-> Extent(base, End(got.block)), heap |-> got.heap]
Aligned(got, alignment, size) ==
    LET addr     == AlignedAddr(Addr(got.block), alignment)
        base     == got.block.mem + (addr - Addr(got.block))
        tot_end  == End(got.block)
        end_addr == IF addr + size + MALLOC_REALLOC_MIN_FREE_SIZE < tot_end
                    THEN addr + size ELSE tot_end
    IN  [block |-> Extent(base, end_addr),
         heap  |-> Return(Return(got.heap, got.block.mem, base), end_addr, tot_end)]

memalign(alignment, size) ==
    /\ ~fault
    /\ Cardinality(live) < MaxLive
    /\ LET adjusted == HEAP_ADJUST_SIZE(size)
           total    == adjusted + 2 * alignment IN
       \/ /\ \E src \in Sources(total) :
                LET got    == malloc_from_heap(total, src.heap)
                    result == IF alignment < MALLOC_ALIGNMENT THEN got
                              ELSE Aligned(got, alignment, adjusted) IN
                /\ free' = result.heap
                /\ mapped' = src.pages
                /\ live' = live \cup {Owned(result.block, size, alignment)}
          /\ UNCHANGED fault
       \/ mmap_fails(total)

(* The process is gone. *)
Dead == fault /\ UNCHANGED vars

Next ==
    \/ \E size \in Requests : malloc(size)
    \/ \E c \in Callocs : calloc(c[1], c[2])
    \/ \E b \in live : free_block(b)
    \/ \E b \in live, size \in Requests :
          realloc_grow(b, size) \/ realloc_copy(b, size) \/ realloc_shrink(b, size)
    \/ \E alignment \in Alignments, size \in AlignedRequests : memalign(alignment, size)
    \/ Dead

Spec == Init /\ [][Next]_vars

-----------------------------------------------------------------------------

(***************************************************************************)
(* What __heap_check (heap_debug.c) checks of the list: areas are aligned, *)
(* none overlaps the next one, and no two touch, for then they would have  *)
(* been merged.                                                            *)
(***************************************************************************)
HeapCheck ==
    /\ \A a \in free : a.mem % HEAP_GRANULARITY = 0 /\ a.size % HEAP_GRANULARITY = 0
    /\ \A a, b \in free : a # b => End(a) < b.mem \/ End(b) < a.mem

(* No byte is in two blocks, or in a block and a free area. *)
NoOverlap ==
    /\ \A a, b \in live : a # b => End(a) <= b.mem \/ End(b) <= a.mem
    /\ \A a \in free, b \in live : End(a) <= b.mem \/ End(b) <= a.mem

(***************************************************************************)
(* No byte is lost: what initial_fa and mmap gave and munmap has not taken *)
(* back is in the free list or in a caller's hands, through every split,   *)
(* merge and trim, and nothing else is.                                    *)
(***************************************************************************)
Page(n) == [mem |-> n * PageSize, size |-> PageSize]
Given(pages) == {InitialArea} \cup {Page(n) : n \in pages}

Conservation == Held(free \cup live) = Held(Given(mapped))

(***************************************************************************)
(* No block and no free area reaches into memory that is not mapped: each  *)
(* lies in initial_fa or in mapped pages, although free unmaps pages.      *)
(***************************************************************************)
InMemory(a) ==
    \/ StaticBase <= a.mem /\ End(a) <= End(InitialArea)
    \/ \A n \in RoundDown(a.mem, PageSize) \div PageSize
                    .. (RoundUp(End(a), PageSize) \div PageSize) - 1 : n \in mapped

OnlyMapped == \A a \in free \cup live : InMemory(a)

(* Every block can hold the free-area descriptor it may become. *)
HoldsDescriptor == \A b \in free \cup live : b.size >= DescriptorSize

(* A caller gets the bytes it asked for, at the alignment it asked for. *)
Promised ==
    \A b \in live :
        /\ MALLOC_HEADER_SIZE + b.need <= b.size
        /\ Addr(b) % b.align = 0

(***************************************************************************)
(* The callers' view: with all its splitting, merging and unmapping, each  *)
(* call gives or takes one block at most and disturbs no other.            *)
(***************************************************************************)
Callers == INSTANCE Allocator WITH
    blocks <- {[addr |-> Addr(b), need |-> b.need, align |-> b.align] : b \in live}

Implements == Callers!Spec
=============================================================================
