------------------------------ MODULE MemAlloc ------------------------------
(* The allocator of lib_alloc: chunks that tile the heap, linked to their physical
   predecessor, and segregated lists of the free ones.  Indexes count 8 bytes from the
   start of the heap (GET_IDX), sizes count bytes.  The fields of a free chunk lie in
   the payload of an allocated one: `data` counts the first bytes there that are still as
   the holder of the block wrote them.  The operators take the heap and
   return it with the answer, as the functions do through their context; NULL is 0 and a
   thrown EXCEPTION_CORRUPT is CORRUPT.  A client allocates, reallocates and frees up to
   a few blocks through the wrappers of app_mem_utils.c. *)
EXTENDS Integers, Sequences, FiniteSets, FiniteSetsExt

CONSTANTS HeapSizes,    \* sizes an application gives its heap
          BlockSizes,   \* sizes a client asks for
          MaxBlocks,    \* how many it may hold at the same time
          MaxShrinks    \* how often it shrinks a block in place before it sets the heap up again

VARIABLES heap,         \* the heap buffer: end, nb_segs, free_segments and the chunks in it
          live,         \* the blocks a client holds, by address: how long
          profile,      \* the pointers the profiling log leaves allocated
          shrunk,       \* blocks that were shrunk in place
          preserved     \* no realloc has lost bytes of its block

heapVars == <<heap, live, profile, shrunk, preserved>>

NULL == 0
CORRUPT == -1
PAYLOAD_ALIGNEMENT == 4
ALLOC_CHUNK_HEADER_SIZE == 4
FREE_CHUNK_HEADER_SIZE == 8
MAX_BLOCK_SIZE == 32767
NB_LINEAR_SEGMENTS == 5
NB_MAX_SEGMENTS == 10
NB_SUB_SEGMENTS == 4
(* Two words and the list heads, on the 32-bit device. *)
HEAP_HEADER_SIZE == 8 + 2 * NB_MAX_SEGMENTS * NB_SUB_SEGMENTS

(* 31 - __builtin_clz(n) *)
MostSignificantBit(n) == CHOOSE k \in 0..15 : 2^k <= n /\ n < 2^(k + 1)

GET_SEGMENT(size) == Max({NB_LINEAR_SEGMENTS, MostSignificantBit(size)})

RoundUp(n, unit) == ((n + unit - 1) \div unit) * unit

AlignedSize(aligned) ==
    aligned + IF aligned % 8 = 4 THEN ALLOC_CHUNK_HEADER_SIZE
                                 ELSE ALLOC_CHUNK_HEADER_SIZE + PAYLOAD_ALIGNEMENT
align_alloc_size(size) == AlignedSize(RoundUp(size, PAYLOAD_ALIGNEMENT))

SubSegmentSize(seg) == 2^(IF seg = NB_LINEAR_SEGMENTS THEN seg - 1 ELSE seg - 2)

IndexInSegment(h, size, seg) ==
    IF seg - NB_LINEAR_SEGMENTS >= h.nb_segs THEN -1
    ELSE (seg - NB_LINEAR_SEGMENTS) * NB_SUB_SEGMENTS + ((size \div SubSegmentSize(seg)) % 4)
seglist_index(h, size) == IndexInSegment(h, size, GET_SEGMENT(size))

seglist_index_up(h, size) ==
    seglist_index(h, RoundUp(size, SubSegmentSize(GET_SEGMENT(size))))

(***************************************************************************)
(* Free lists and chunks                                                   *)
(***************************************************************************)
(* The removal of a chunk that is not the first of its list, as it would be if its
   successor kept pointing at it. *)
Unlink_Slip(h, e) ==
    [h EXCEPT !.chunk = [i \in DOMAIN @ |->
        IF i = e.fprev THEN [@[i] EXCEPT !.fnext = e.fnext] ELSE @[i]]]

Unlink(h, e) ==
    [h EXCEPT !.chunk = [i \in DOMAIN @ |->
        IF i = e.fprev THEN [@[i] EXCEPT !.fnext = e.fnext]
        ELSE IF i = e.fnext THEN [@[i] EXCEPT !.fprev = e.fprev]
        ELSE @[i]]]

UnlinkFirst(h, seg, next) ==
    [h EXCEPT !.free_segments[seg] = next,
              !.chunk = [i \in DOMAIN @ |->
                  IF i = next THEN [@[i] EXCEPT !.fprev = NULL] ELSE @[i]]]

list_remove(h, seg, elem) ==
    IF h.free_segments[seg] = elem THEN UnlinkFirst(h, seg, h.chunk[elem].fnext)
    ELSE Unlink(h, h.chunk[elem])

PushInto(h, elem, seg, first) ==
    IF first = elem THEN h
    ELSE [h EXCEPT !.free_segments[seg] = elem,
                   !.chunk = [i \in DOMAIN @ |->
              IF i = elem THEN [@[i] EXCEPT !.fnext = first, !.fprev = NULL,
                                            !.allocated = FALSE, !.data = 0]
              ELSE IF i = first THEN [@[i] EXCEPT !.fprev = elem]
              ELSE @[i]]]
PushAt(h, elem, seg) == IF seg < 0 THEN h ELSE PushInto(h, elem, seg, h.free_segments[seg])
list_push(h, elem) == PushAt(h, elem, seglist_index(h, h.chunk[elem].size))

(* The index after a chunk. *)
Next8(h, i) == i + h.chunk[i].size \div 8

ensure_chunk_valid(h, i) ==
    /\ i \in DOMAIN h.chunk
    /\ h.chunk[i].size % PAYLOAD_ALIGNEMENT = 0
    /\ h.chunk[i].size >= FREE_CHUNK_HEADER_SIZE
    /\ 8 * i + h.chunk[i].size <= h.end
    /\ h.chunk[i].phys_prev # NULL =>
         /\ h.chunk[i].phys_prev \in DOMAIN h.chunk
         /\ Next8(h, h.chunk[i].phys_prev) = i

FreeChunk(size, p) == [size |-> size, allocated |-> FALSE, phys_prev |-> p,
                       fprev |-> NULL, fnext |-> NULL, data |-> 0]

(* A new chunk of `size` bytes at i, behind chunk p; the chunk that follows it learns of
   its new predecessor, list_push puts it in its list. *)
SplitOff(h, i, size, p) ==
    list_push([h EXCEPT !.chunk = [j \in DOMAIN @ \cup {i} |->
                  IF j = i THEN FreeChunk(size, p)
                  ELSE IF j = i + size \div 8 THEN [h.chunk[j] EXCEPT !.phys_prev = i]
                  ELSE h.chunk[j]]],
              i)

(* Chunk i keeps `size` bytes; the excess becomes a free chunk if it can hold one. *)
Split(h, i, size) ==
    IF h.chunk[i].size >= size + FREE_CHUNK_HEADER_SIZE
    THEN [SplitOff(h, i + size \div 8, h.chunk[i].size - size, i) EXCEPT !.chunk[i].size = size]
    ELSE h

(* Chunk n joins chunk i; the lower of the two remains.  The other header is cleared. *)
Unlisted(h, seg, n) == IF seg >= 0 THEN list_remove(h, seg, n) ELSE h
Join(h, low, high) ==
    [h EXCEPT !.chunk = [j \in DOMAIN @ \ {high} |->
        IF j = low THEN [@[j] EXCEPT !.size = @ + h.chunk[high].size]
        ELSE IF j = Next8(h, high) THEN [@[j] EXCEPT !.phys_prev = low]
        ELSE @[j]]]
coalesce(h, i, n) ==
    IF ~ensure_chunk_valid(h, n) THEN [heap |-> h, at |-> CORRUPT]
    ELSE IF h.chunk[n].allocated THEN [heap |-> h, at |-> i]
    ELSE [heap |-> Join(Unlisted(h, seglist_index(h, h.chunk[n].size), n),
                        Min({i, n}), Max({i, n})),
          at |-> Min({i, n})]

(***************************************************************************)
(* The calls                                                               *)
(***************************************************************************)
FirstChunk == HEAP_HEADER_SIZE \div 8

(* The context is NULL when the size is refused. *)
EmptyHeap(heap_size, nb_segs) ==
    [end |-> heap_size, nb_segs |-> nb_segs,
     free_segments |-> [s \in 0..(NB_SUB_SEGMENTS * nb_segs - 1) |-> NULL],
     chunk |-> [i \in {FirstChunk} |-> FreeChunk(heap_size - HEAP_HEADER_SIZE, NULL)]]
InitSegments(heap_size, nb_segs) ==
    IF nb_segs > NB_MAX_SEGMENTS THEN [heap |-> [end |-> NULL], ret |-> NULL]
    ELSE [heap |-> list_push(EmptyHeap(heap_size, nb_segs), FirstChunk), ret |-> FirstChunk]
mem_init(heap_size) ==
    IF \/ heap_size % FREE_CHUNK_HEADER_SIZE # 0
       \/ heap_size < 200
       \/ heap_size > 32760 + HEAP_HEADER_SIZE
    THEN [heap |-> [end |-> NULL], ret |-> NULL]
    ELSE InitSegments(heap_size,
             MostSignificantBit(heap_size - HEAP_HEADER_SIZE) - NB_LINEAR_SEGMENTS + 1)

TooBig(n) == n > MAX_BLOCK_SIZE - (PAYLOAD_ALIGNEMENT - 1 + ALLOC_CHUNK_HEADER_SIZE
                                   + PAYLOAD_ALIGNEMENT)

(* The first non-empty list among those whose chunks are all big enough. *)
AllocRefused(h) == [heap |-> h, ret |-> NULL]
Allocate(h, found) == [h EXCEPT !.chunk[found].allocated = TRUE,
                                !.chunk[found].fnext = NULL, !.chunk[found].fprev = NULL]
AllocChunk(h, size, seg, found) ==
    IF ~ensure_chunk_valid(h, found) THEN [heap |-> h, ret |-> CORRUPT]
    ELSE IF size > h.chunk[found].size THEN AllocRefused(h)
    ELSE [heap |-> Allocate(Split(list_remove(h, seg, found), found, size), found), ret |-> found]
AllocAmong(h, size, lists) ==
    IF lists = {} THEN AllocRefused(h) ELSE AllocChunk(h, size, Min(lists), h.free_segments[Min(lists)])
AllocUp(h, size, up) ==
    IF up < 0 THEN AllocRefused(h)
    ELSE AllocAmong(h, size, {s \in DOMAIN h.free_segments : s >= up /\ h.free_segments[s] # NULL})
AllocSize(h, size) == AllocUp(h, size, seglist_index_up(h, size))
mem_alloc(h, n) == IF n = 0 \/ TooBig(n) THEN AllocRefused(h) ELSE AllocSize(h, align_alloc_size(n))

(* mem_free as it would be if it forgot the chunk in front of the freed one. *)
JoinBefore_Slip(r) == r

(* mem_free: the freed chunk joins the one behind it, then the one in front of it. *)
JoinBefore(r) ==
    IF r.at = CORRUPT THEN r
    ELSE IF r.heap.chunk[r.at].phys_prev = NULL THEN r
    ELSE coalesce(r.heap, r.at, r.heap.chunk[r.at].phys_prev)
JoinAfter(h, ptr, next) ==
    IF 8 * next < h.end THEN coalesce(h, ptr, next) ELSE [heap |-> h, at |-> ptr]
Freed(r) == IF r.at = CORRUPT THEN [heap |-> r.heap, ret |-> CORRUPT]
            ELSE AllocRefused(list_push(r.heap, r.at))
mem_free(h, ptr) ==
    IF ~ensure_chunk_valid(h, ptr) THEN [heap |-> h, ret |-> CORRUPT]
    ELSE IF ~h.chunk[ptr].allocated THEN AllocRefused(h)
    ELSE Freed(JoinBefore(JoinAfter(h, ptr, Next8(h, ptr))))

(* The move of a block that grows, as it would be without the copy. *)
DataCopied_Slip(h, from, to) == h

(* memcpy of the old payload to the new block *)
DataCopied(h, from, to) == [h EXCEPT !.chunk[to].data = h.chunk[from].data]

(* A block that shrinks gives its tail away without joining it to a free chunk behind
   it; one that grows moves, and memcpy takes the old payload along. *)
MoveTo(moved, ptr) ==
    IF moved.ret <= NULL THEN moved
    ELSE [heap |-> mem_free(DataCopied(moved.heap, ptr, moved.ret), ptr).heap, ret |-> moved.ret]
mem_realloc(h, ptr, n) ==
    IF ptr = NULL THEN mem_alloc(h, n)
    ELSE IF n = 0 THEN mem_free(h, ptr)
    ELSE IF TooBig(n) THEN AllocRefused(h)
    ELSE IF ~ensure_chunk_valid(h, ptr) THEN [heap |-> h, ret |-> CORRUPT]
    ELSE IF h.chunk[ptr].size - ALLOC_CHUNK_HEADER_SIZE >= n
    THEN [heap |-> Split(h, ptr, align_alloc_size(n)), ret |-> ptr]
    ELSE MoveTo(mem_alloc(h, n), ptr)

(***************************************************************************)
(* app_mem_utils.c with HAVE_MEMORY_PROFILING: the log is the set of       *)
(* pointers it leaves allocated.                                           *)
(***************************************************************************)
mem_utils_alloc(log, r) == IF r.ret > NULL THEN log \cup {r.ret} ELSE log

mem_utils_realloc(log, ptr, n, r) ==
    CASE ptr # NULL /\ n = 0 -> log \ {ptr}
      [] r.ret > NULL /\ r.ret # ptr -> (log \ {ptr}) \cup {r.ret}
      [] OTHER -> log

(***************************************************************************)
(* A client                                                                *)
(***************************************************************************)
Held == DOMAIN live

Without(p) == [x \in Held \ {p} |-> live[x]]
Moved(p, to, n) == [x \in (Held \ {p}) \cup {to} |-> IF x = to THEN n ELSE live[x]]

(* The client writes the n bytes of its block. *)
DataFilled(h, p, n) == [h EXCEPT !.chunk[p].data = n]

HeapInit ==
    /\ heap = mem_init(Min(HeapSizes)).heap
    /\ live = [p \in {} |-> NULL]
    /\ profile = {}
    /\ shrunk = 0
    /\ preserved = TRUE

(* An application may set its heap up again, with any size that mem_init takes. *)
mem_utils_init ==
    \E n \in HeapSizes :
        /\ Held = {}
        /\ mem_init(n).ret # NULL
        /\ heap' = mem_init(n).heap
        /\ profile' = {}
        /\ shrunk' = 0
        /\ UNCHANGED <<live, preserved>>

(* mem_utils_alloc, mem_utils_calloc and mem_utils_strdup *)
GiveBlock(r, p, n) ==
    IF r.ret > NULL
    THEN heap' = DataFilled(r.heap, r.ret, n) /\ live' = Moved(p, r.ret, n)
    ELSE heap' = r.heap /\ live' = IF n = 0 THEN Without(p) ELSE live

Alloc(n) ==
    /\ Cardinality(Held) < MaxBlocks
    /\ \E r \in {mem_alloc(heap, n)} :
         /\ GiveBlock(r, NULL, n)
         /\ profile' = mem_utils_alloc(profile, r)
    /\ UNCHANGED <<shrunk, preserved>>

Realloc(p, n) ==
    \E r \in {mem_realloc(heap, p, n)} :
        /\ GiveBlock(r, p, n)
        /\ profile' = mem_utils_realloc(profile, p, n, r)
        /\ IF r.ret = p /\ r.heap # heap
           THEN shrunk < MaxShrinks /\ shrunk' = shrunk + 1
           ELSE UNCHANGED shrunk
        /\ preserved' = (preserved /\ (r.ret > NULL => r.heap.chunk[r.ret].data >= Min({n, live[p]})))

(* mem_utils_free and mem_utils_free_and_null *)
Free(p) ==
    /\ heap' = mem_free(heap, p).heap
    /\ live' = Without(p)
    /\ profile' = profile \ {p}
    /\ UNCHANGED <<shrunk, preserved>>

HeapNext ==
    \/ mem_utils_init
    \/ \E n \in BlockSizes : Alloc(n)
    \/ \E p \in Held, n \in BlockSizes \cup {0} : Realloc(p, n)
    \/ \E p \in Held : Free(p)

HeapSpec == HeapInit /\ [][HeapNext]_heapVars

(***************************************************************************)
(* Properties                                                              *)
(***************************************************************************)
Chunks == DOMAIN heap.chunk
FreeIn(seg) == {i \in Chunks : /\ ~heap.chunk[i].allocated
                               /\ seglist_index(heap, heap.chunk[i].size) = seg}

(* The chunk reached after k steps from the head of a list. *)
ListAt(seg) ==
    LET at[k \in 0..Cardinality(Chunks)] ==
          IF k = 0 THEN heap.free_segments[seg]
          ELSE IF at[k - 1] \in Chunks THEN heap.chunk[at[k - 1]].fnext ELSE NULL
    IN  at

\* The chunks tile the heap and know their physical predecessor, and every free chunk
\* is in the list of its size, exactly there and once, with both links right.
HeapTiled ==
    /\ FirstChunk \in Chunks
    /\ \A i \in Chunks :
         /\ Next8(heap, i) \in Chunks \/ 8 * Next8(heap, i) = heap.end
         /\ IF i = FirstChunk THEN heap.chunk[i].phys_prev = NULL
            ELSE heap.chunk[i].phys_prev \in Chunks /\ Next8(heap, heap.chunk[i].phys_prev) = i
    /\ \A seg \in DOMAIN heap.free_segments :
         LET at == ListAt(seg)
             n == Cardinality(FreeIn(seg))
         IN  /\ {at[k] : k \in 0..(n - 1)} = FreeIn(seg)
             /\ at[n] = NULL
             /\ \A k \in 0..(n - 1) : heap.chunk[at[k]].fprev = IF k = 0 THEN NULL ELSE at[k - 1]

\* A block stays the client's until it is freed: allocated, long enough for what was
\* asked, with the bytes written before a realloc; the profiling log names exactly the
\* blocks held.
BlocksKept ==
    /\ \A p \in Held :
         /\ p \in Chunks /\ heap.chunk[p].allocated
         /\ heap.chunk[p].size >= live[p] + ALLOC_CHUNK_HEADER_SIZE
         /\ heap.chunk[p].data = live[p]
    /\ preserved
    /\ profile = Held

\* No two free chunks are side by side; only a block shrunk in place may leave some
\* (mem_realloc does not join its tail to the chunk behind it).
Coalesced ==
    \A i \in Chunks :
        \/ shrunk > 0 \/ heap.chunk[i].allocated \/ Next8(heap, i) \notin Chunks
        \/ heap.chunk[Next8(heap, i)].allocated

(* After any sequence of calls, failed ones included, the heap is whole (list_remove,
   list_push, coalesce and the two splits); a block keeps its place and its bytes until it
   is freed, as the comment of mem_realloc promises, and a failed call never shows as a
   leak in the profiling log (app_mem_utils.c:61-63); memory given back in any order can
   be allocated in one piece again. *)
HeapSound == HeapTiled /\ BlocksKept /\ Coalesced
=============================================================================
