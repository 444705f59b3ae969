-------------------------------- MODULE Heap --------------------------------
(***************************************************************************)
(* The free list of elf-loader/malloc (heap.h, heap_alloc.c,               *)
(* heap_alloc_at.c, heap_free.c) as operators on sets of areas.            *)
(*                                                                         *)
(* A free area is a record of its first address mem and its length size,   *)
(* in bytes.  The list is kept in address order, so the set of its areas   *)
(* determines it; "the first area such that" is the one with the lowest    *)
(* address.  The C code keeps the descriptor of an area (24 bytes) in its  *)
(* last bytes, which is why the size of an area must allow for one.        *)
(* Sizes are those of an x86-64 build.                                     *)
(*                                                                         *)
(* A definition X_Something before a definition X is not part of the       *)
(* specification: it is what X would be with a plausible mistake, kept to  *)
(* show that the properties notice it.                                     *)
(***************************************************************************)
EXTENDS Integers

HEAP_GRANULARITY == 8

(* sizeof (struct heap_free_area): a size and two pointers. *)
DescriptorSize == 24

RoundDown(sz, unit) == sz - (sz % unit)
RoundUp(sz, unit) == RoundDown(sz + (unit - 1), unit)

HEAP_ADJUST_SIZE(sz) == RoundUp(sz, HEAP_GRANULARITY)

HEAP_MIN_SIZE == HEAP_ADJUST_SIZE(DescriptorSize)
HEAP_MIN_FREE_AREA_SIZE == HEAP_ADJUST_SIZE(DescriptorSize + 32)

Area == [mem : Nat, size : Nat]

(* HEAP_FREE_AREA_END; the areas of a heap in a given range. *)
End(a) == a.mem + a.size
Extent(start, end) == [mem |-> start, size |-> end - start]

(* The addresses of the bytes of an area, and of those of several. *)
Bytes(a) == a.mem .. End(a) - 1
Held(S) == UNION {Bytes(a) : a \in S}

(* The first area of the list with property in the set S of areas. *)
First(S) == CHOOSE a \in S : \A b \in S : a.mem <= b.mem

-----------------------------------------------------------------------------
(***************************************************************************)
(* __heap_free_area_alloc: take size bytes from the front of fa, or all of *)
(* it when too little would be left.                                       *)
(***************************************************************************)
Taken(fa, size) ==
    IF fa.size < size + HEAP_MIN_FREE_AREA_SIZE THEN fa.size ELSE size

heap_free_area_alloc_FrontLeft(heap, fa, size) ==
    LET taken == Taken(fa, size) IN
    (heap \ {fa}) \cup (IF taken = fa.size THEN {} ELSE {Extent(fa.mem, End(fa) - taken)})
heap_free_area_alloc(heap, fa, size) ==
    LET taken == Taken(fa, size) IN
    (heap \ {fa}) \cup (IF taken = fa.size THEN {} ELSE {Extent(fa.mem + taken, End(fa))})

(* The size __heap_alloc looks for. *)
AllocSize_NoMinimum(size) == HEAP_ADJUST_SIZE(size)
AllocSize(size) ==
    LET adjusted == HEAP_ADJUST_SIZE(size) IN
    IF adjusted < DescriptorSize THEN HEAP_ADJUST_SIZE(DescriptorSize) ELSE adjusted

(* __heap_alloc takes the block from the first area that is big enough. *)
Fitting(heap, size) == {a \in heap : a.size >= AllocSize(size)}
heap_alloc(heap, size) ==
    LET fa == First(Fitting(heap, size)) IN
    [block |-> [mem |-> fa.mem, size |-> Taken(fa, AllocSize(size))],
     heap  |-> heap_free_area_alloc(heap, fa, AllocSize(size))]

(***************************************************************************)
(* __heap_alloc_at walks the list up to the first area that starts at or   *)
(* below mem, and serves the request only if that area starts at mem.      *)
(***************************************************************************)
AreasAt(heap, mem, size) ==
    LET below == {a \in heap : a.mem <= mem} IN
    {a \in below : a = First(below) /\ a.mem = mem /\ a.size >= HEAP_ADJUST_SIZE(size)}

(***************************************************************************)
(* __heap_free.  The walk of the list stops at fa, the first area that     *)
(* ends at or behind mem.  The block becomes an area of its own, or grows  *)
(* fa downwards or upwards; grown downwards, fa may also meet its          *)
(* predecessor (which would have stopped the walk, so it never does),      *)
(* grown upwards, its successor.                                           *)
(***************************************************************************)
EndingAt(end, size) == [mem |-> end - size, size |-> size]
SizeOf(S) == IF S = {} THEN 0 ELSE First(S).size

heap_free_NextNotMerged(heap, mem, size) ==
    LET end     == mem + size
        rest    == {a \in heap : End(a) >= mem}
        fa      == First(rest)
        merge(gone, area) == [area |-> area, heap |-> (heap \ gone) \cup {area}]
    IN  IF rest = {} \/ fa.mem > end
        THEN merge({}, [mem |-> mem, size |-> size])
        ELSE IF fa.mem = end
        THEN merge({fa}, EndingAt(End(fa), fa.size + size))
        ELSE merge({fa}, EndingAt(End(fa) + size, fa.size + size))

heap_free(heap, mem, size) ==
    LET end     == mem + size
        rest    == {a \in heap : End(a) >= mem}
        fa      == First(rest)
        prev_fa == {a \in heap \ rest : End(a) = mem}
        next_fa == {a \in rest \ {fa} : a.mem = end}
        merge(gone, area) == [area |-> area, heap |-> (heap \ gone) \cup {area}]
    IN  IF rest = {} \/ fa.mem > end
        THEN merge({}, [mem |-> mem, size |-> size])
        ELSE IF fa.mem = end
        THEN merge({fa} \cup prev_fa, EndingAt(End(fa), fa.size + size + SizeOf(prev_fa)))
        ELSE IF next_fa # {}
        THEN merge({fa} \cup next_fa,
                   EndingAt(End(First(next_fa)), fa.size + size + SizeOf(next_fa)))
        ELSE merge({fa}, EndingAt(End(fa) + size, fa.size + size))
=============================================================================
