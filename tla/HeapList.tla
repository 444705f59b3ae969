------------------------------ MODULE HeapList ------------------------------
(***************************************************************************)
(* The free list of elf-loader/malloc with its pointers (heap.h,           *)
(* heap_alloc.c, heap_alloc_at.c, heap_free.c).                            *)
(*                                                                         *)
(* The descriptor of a free area, a struct heap_free_area, is in the last  *)
(* bytes of the area; a pointer to it is its address and a null pointer    *)
(* is 0.  Descriptors are in the memory they describe: what a caller does  *)
(* with a block destroys the descriptors that were there, and so does a    *)
(* descriptor written over another one.  Reading one that is destroyed, or *)
(* that a call has left behind unlinked, is an error of the model.  A heap *)
(* is the record of *heap and the descriptors.                             *)
(*                                                                         *)
(* A definition X_Something before a definition X is not part of the       *)
(* specification: it is what X would be with a plausible mistake, kept to  *)
(* show that the properties notice it.                                     *)
(***************************************************************************)
EXTENDS Heap, FiniteSets

CONSTANTS
    First_fa, Chunks, Sizes,  \* see FreeList
    MaxUsed                   \* bound: no call is made that leaves more blocks

ASSUME HeapListAssumption ==
    /\ First_fa \in Area /\ Chunks \subseteq Area
    /\ \A a \in Chunks \cup {First_fa} :
          /\ a.mem > 0 /\ a.mem % HEAP_GRANULARITY = 0
          /\ a.size > HEAP_MIN_SIZE /\ a.size % HEAP_GRANULARITY = 0
    /\ Sizes \subseteq Nat \ {0}
    /\ MaxUsed \in Nat

VARIABLES
    head,  \* *heap
    desc,  \* the descriptors that can be read: a function of their addresses
    used   \* the blocks that are taken from the heap

vars == <<head, desc, used>>

heap == [head |-> head, desc |-> desc]

FA_END(fa) == fa + DescriptorSize
FA_START(h, fa) == FA_END(fa) - h.desc[fa].size

(* The descriptors that do not share a byte with the bytes from mem up to end. *)
Outside(d, mem, end) == {fa \in DOMAIN d : FA_END(fa) <= mem \/ end <= fa}
Overwritten(h, mem, end) ==
    [h EXCEPT !.desc = [fa \in Outside(h.desc, mem, end) |-> h.desc[fa]]]

(* *fa = [size, next, prev] *)
Write(h, fa, rec) ==
    [h EXCEPT !.desc = [a \in Outside(h.desc, fa, FA_END(fa)) \cup {fa} |->
                           IF a = fa THEN rec ELSE h.desc[a]]]

SetNext(h, prev, next) ==
    IF prev = 0 THEN [h EXCEPT !.head = next] ELSE [h EXCEPT !.desc[prev].next = next]
SetPrev(h, next, prev) ==
    IF next = 0 THEN h ELSE [h EXCEPT !.desc[next].prev = prev]

(* The pointer to the first descriptor or, of a descriptor, to the next one. *)
Successor(h, prev) == IF prev = 0 THEN h.head ELSE h.desc[prev].next

(***************************************************************************)
(* The walk of the list: the descriptors it meets from fa on are those in  *)
(* every set that has fa and that next pointers do not lead out of.        *)
(***************************************************************************)
Behind(h, fa) ==
    {a \in DOMAIN h.desc : \A S \in SUBSET DOMAIN h.desc :
        (fa \in S /\ \A b \in S : h.desc[b].next \in S \cup {0}) => a \in S}
List(h) == IF h.head = 0 THEN {} ELSE Behind(h, h.head)

(* Where a walk that looks for a descriptor of the set S ends, or 0. *)
WalkTo(h, S) == IF S = {} THEN 0 ELSE CHOOSE fa \in S : S \subseteq Behind(h, fa)

-----------------------------------------------------------------------------

heap_delete(h, fa) ==
    SetNext(SetPrev(h, h.desc[fa].next, h.desc[fa].prev), h.desc[fa].prev, h.desc[fa].next)

heap_link_free_area(h, fa, size, prev, next) ==
    SetPrev(SetNext(Write(h, fa, [size |-> size, next |-> next, prev |-> prev]), prev, fa),
            next, fa)

heap_link_free_area_after_OneWay(h, fa, prev) == SetNext(h, prev, fa)
heap_link_free_area_after(h, fa, prev) == SetPrev(SetNext(h, prev, fa), fa, prev)

(* __heap_free_area_alloc: what it takes, and the heap it leaves. *)
heap_free_area_taken(h, fa, size) ==
    IF h.desc[fa].size < size + HEAP_MIN_FREE_AREA_SIZE THEN h.desc[fa].size ELSE size
heap_free_area_alloc_list(h, fa, size) ==
    IF h.desc[fa].size < size + HEAP_MIN_FREE_AREA_SIZE
    THEN heap_delete(h, fa)
    ELSE [h EXCEPT !.desc[fa].size = h.desc[fa].size - size]

(***************************************************************************)
(* __heap_free: the walk stops at fa, the first area that ends at or       *)
(* behind mem, with prev_fa the one before; then one of the four ways to   *)
(* make the block part of the list.                                        *)
(***************************************************************************)
StopsAt(h, mem) == WalkTo(h, {a \in List(h) : FA_END(a) >= mem})
LeftBehind(h, fa) == CHOOSE prev \in List(h) \cup {0} : Successor(h, prev) = fa
Resized(h, fa, size) == [h EXCEPT !.desc[fa].size = size]

heap_free_list_DescriptorStays(h, mem, size) ==
    LET end == mem + size
        fa  == StopsAt(h, mem)
    IN  IF fa = 0 \/ FA_START(h, fa) > end
        THEN heap_link_free_area(h, end - DescriptorSize, size, LeftBehind(h, fa), fa)
        ELSE Resized(h, fa, h.desc[fa].size + size)
heap_free_list(h, mem, size) ==
    LET end     == mem + size
        fa      == StopsAt(h, mem)
        prev_fa == LeftBehind(h, fa)
        fa_size == h.desc[fa].size + size
        next_fa == h.desc[fa].next
    IN  IF fa = 0 \/ FA_START(h, fa) > end
        THEN heap_link_free_area(h, end - DescriptorSize, size, prev_fa, fa)
        ELSE IF FA_START(h, fa) = end
        THEN IF prev_fa # 0 /\ mem = FA_END(prev_fa)
             THEN Resized(heap_link_free_area_after(h, fa, h.desc[prev_fa].prev),
                          fa, fa_size + h.desc[prev_fa].size)
             ELSE Resized(h, fa, fa_size)
        ELSE IF next_fa # 0 /\ end = FA_START(h, next_fa)
        THEN Resized(heap_link_free_area_after(h, next_fa, prev_fa),
                     next_fa, fa_size + h.desc[next_fa].size)
        ELSE heap_link_free_area(h, fa + size, fa_size, prev_fa, next_fa)

-----------------------------------------------------------------------------

(* HEAP_INIT_WITH_FA *)
Init ==
    /\ head = End(First_fa) - DescriptorSize
    /\ desc = [fa \in {head} |-> [size |-> First_fa.size, next |-> 0, prev |-> 0]]
    /\ used = {}

(* The heap after a call, with the descriptors that are on the list. *)
Becomes(h) ==
    /\ head' = h.head
    /\ desc' = [fa \in List(h) |-> h.desc[fa]]

(* The block is the caller's: whatever was in its bytes is gone. *)
Handed(h, block) == Overwritten(h, block.mem, End(block))

(* __heap_alloc takes the first area of the list that is big enough. *)
heap_alloc_list(size) ==
    LET fa    == WalkTo(heap, {a \in List(heap) : desc[a].size >= AllocSize(size)})
        block == [mem  |-> FA_START(heap, fa),
                  size |-> heap_free_area_taken(heap, fa, AllocSize(size))]
    IN  /\ Cardinality(used) < MaxUsed
        /\ fa # 0
        /\ Becomes(Handed(heap_free_area_alloc_list(heap, fa, AllocSize(size)), block))
        /\ used' = used \cup {block}

(***************************************************************************)
(* __heap_alloc_at: the walk ends at the first area that starts at or      *)
(* below mem, the end of the block b that is to grow.                      *)
(***************************************************************************)
heap_alloc_at(b, size) ==
    LET mem   == End(b)
        fa    == WalkTo(heap, {a \in List(heap) : FA_START(heap, a) <= mem})
        extra == HEAP_ADJUST_SIZE(size)
        block == [b EXCEPT !.size = b.size + heap_free_area_taken(heap, fa, extra)]
    IN  /\ fa # 0
        /\ FA_START(heap, fa) = mem
        /\ desc[fa].size >= extra
        /\ Becomes(Handed(heap_free_area_alloc_list(heap, fa, extra), block))
        /\ used' = (used \ {b}) \cup {block}

heap_free_whole(b) ==
    /\ Becomes(heap_free_list(heap, b.mem, b.size))
    /\ used' = used \ {b}

(* realloc returns the end of a block when that is worth while. *)
heap_free_tail(b, keep) ==
    /\ keep + HEAP_MIN_SIZE + 16 <= b.size
    /\ Becomes(heap_free_list(heap, b.mem + keep, b.size - keep))
    /\ used' = (used \ {b}) \cup {[b EXCEPT !.size = keep]}

(* The areas of the list, and the refinement of FreeList they give. *)
Areas == {[mem |-> FA_START(heap, fa), size |-> desc[fa].size] : fa \in List(heap)}

Abstract == INSTANCE FreeList WITH free <- Areas

(* malloc gives the heap a chunk from mmap. *)
heap_extend(c) ==
    /\ Abstract!Fresh(c)
    /\ Becomes(heap_free_list(heap, c.mem, c.size))
    /\ UNCHANGED used

Next ==
    \/ \E size \in Sizes : heap_alloc_list(size)
    \/ \E b \in used : heap_free_whole(b)
    \/ \E b \in used, size \in Sizes :
          heap_alloc_at(b, size) \/ heap_free_tail(b, AllocSize(size))
    \/ \E c \in Chunks : heap_extend(c)

Spec == Init /\ [][Next]_vars

-----------------------------------------------------------------------------

(***************************************************************************)
(* What __heap_check of heap_debug.c would find after any sequence of      *)
(* calls: the prev pointers lead back along the next pointers, areas are   *)
(* aligned, in order of their addresses, and apart.                        *)
(***************************************************************************)
heap_check ==
    \A prev \in List(heap) \cup {0} :
        LET fa == Successor(heap, prev) IN
        fa # 0 =>
          /\ fa \in List(heap)
          /\ FA_END(fa) % HEAP_GRANULARITY = 0
          /\ desc[fa].size % HEAP_GRANULARITY = 0
          /\ desc[fa].prev = prev
          /\ prev # 0 => FA_END(prev) < FA_START(heap, fa)

(***************************************************************************)
(* The list implements the set of areas that the model of malloc computes  *)
(* with: every call finds the area, leaves the areas and hands out the     *)
(* block that Heap's operators say, although descriptors move, share the   *)
(* memory they describe and are reached through pointers only.             *)
(***************************************************************************)
Implements == Abstract!Spec
=============================================================================
