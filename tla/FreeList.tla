------------------------------ MODULE FreeList ------------------------------
(***************************************************************************)
(* The heap of elf-loader/malloc as Malloc sees it: a set of free areas    *)
(* and a set of blocks, changed by the operators of Heap.  HeapList, which *)
(* has the list with its descriptors and pointers, implements it.          *)
(***************************************************************************)
EXTENDS Heap

CONSTANTS
    First_fa,   \* the area the heap starts with
    Chunks,     \* areas malloc may get by mmap and give to the heap
    Sizes       \* the sizes that are asked for

VARIABLES
    free,   \* the areas of the free list
    used    \* the blocks that are taken from it

(* A chunk from mmap is memory the heap has never had. *)
Fresh(c) == \A a \in free \cup used : End(c) <= a.mem \/ End(a) <= c.mem

Init == free = {First_fa} /\ used = {}

Alloc(size) ==
    /\ Fitting(free, size) # {}
    /\ LET got == heap_alloc(free, size) IN
          free' = got.heap /\ used' = used \cup {got.block}

(* The block b grows by size bytes into the area behind it. *)
AllocAt(b, size) ==
    \E fa \in AreasAt(free, End(b), size) :
        LET extra == HEAP_ADJUST_SIZE(size) IN
        /\ free' = heap_free_area_alloc(free, fa, extra)
        /\ used' = (used \ {b}) \cup {[b EXCEPT !.size = b.size + Taken(fa, extra)]}

Free(b) ==
    /\ free' = heap_free(free, b.mem, b.size).heap
    /\ used' = used \ {b}

(* The end of the block b, from keep bytes on, returns to the heap. *)
FreeTail(b, keep) ==
    /\ keep + HEAP_MIN_SIZE + 16 <= b.size
    /\ free' = heap_free(free, b.mem + keep, b.size - keep).heap
    /\ used' = (used \ {b}) \cup {[b EXCEPT !.size = keep]}

Extend(c) ==
    /\ Fresh(c)
    /\ free' = heap_free(free, c.mem, c.size).heap
    /\ UNCHANGED used

Next ==
    \/ \E size \in Sizes : Alloc(size)
    \/ \E b \in used : Free(b)
    \/ \E b \in used, size \in Sizes : AllocAt(b, size) \/ FreeTail(b, AllocSize(size))
    \/ \E c \in Chunks : Extend(c)

Spec == Init /\ [][Next]_<<free, used>>
=============================================================================
