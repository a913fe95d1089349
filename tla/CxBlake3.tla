------------------------------ MODULE CxBlake3 ------------------------------
(***************************************************************************)
(* BLAKE3 (lib_cxng/src/cx_blake3.c and cx_blake3_ref.c) on symbolic       *)
(* chaining values: a compression is the term of what goes into it.  A     *)
(* block has BLAKE3_BLOCK_LEN bytes and a chunk BLAKE3_CHUNK_LEN, scaled   *)
(* down from 64 and 1024; chaining values are one term each.               *)
(***************************************************************************)
EXTENDS Integers, Sequences, SequencesExt

BLAKE3_BLOCK_LEN == 2
BLAKE3_CHUNK_LEN == 4

\* A byte is a tagged pair: of the message, or the bits or'ed into a zero byte.
Zero == <<"or", {}>>

Zeros(n) == [i \in 1 .. n |-> Zero]

First(s, n) == SubSeq(s, 1, n)

Beyond(s, n) == SubSeq(s, n + 1, Len(s))

\* memcpy(block + at, data, Len(data))
Put(block, at, data) ==
    [i \in 1 .. Len(block) |->
        IF i > at /\ i <= at + Len(data) THEN data[i - at] ELSE block[i]]

Least(a, b) == IF a < b THEN a ELSE b

\* highest_one: the position of the highest one bit of x; hw: the number of ones.
highest_one(x) == CHOOSE p \in 0 .. 30 : 2 ^ p <= x /\ x < 2 ^ (p + 1)

hw(x) == Len(SelectSeq([p \in 1 .. 31 |-> (x \div 2 ^ (p - 1)) % 2], LAMBDA b : b = 1))

-----------------------------------------------------------------------------
(* The compression function and the state of a chunk *)

\* blake3_compress_in_place
blake3_compress_in_place(cv, block, block_len, counter, flags) ==
    <<"cv", cv, block, block_len, counter, flags>>

\* blake3_state_init, with the counter some callers set after it
blake3_state_init(key, t, flags) ==
    [cv |-> key, t |-> t, buffer |-> Zeros(BLAKE3_BLOCK_LEN), buffer_len |-> 0,
     blocks_compressed |-> 0, d |-> flags]

\* blake3_fill_buffer: of the input, what fits.
Fits(cs, input) == Least(BLAKE3_BLOCK_LEN - cs.buffer_len, Len(input))

blake3_fill_buffer(cs, input) ==
    [cs EXCEPT !.buffer = Put(@, cs.buffer_len, First(input, Fits(cs, input))),
               !.buffer_len = @ + Fits(cs, input)]

StartFlag(cs) == IF cs.blocks_compressed = 0 THEN {"CHUNK_START"} ELSE {}

Compressed(cs, block) ==
    [cs EXCEPT !.cv = blake3_compress_in_place(@, block, BLAKE3_BLOCK_LEN, cs.t, cs.d \cup StartFlag(cs)),
               !.blocks_compressed = @ + 1]

\* The buffer is compressed only when more input follows it.
FlushFull(cs, more) ==
    IF ~more THEN cs
    ELSE [Compressed(cs, cs.buffer) EXCEPT !.buffer = Zeros(BLAKE3_BLOCK_LEN), !.buffer_len = 0]

RECURSIVE WholeBlocks(_, _)
WholeBlocks(cs, input) ==
    IF Len(input) > BLAKE3_BLOCK_LEN
    THEN WholeBlocks(Compressed(cs, First(input, BLAKE3_BLOCK_LEN)), Beyond(input, BLAKE3_BLOCK_LEN))
    ELSE blake3_fill_buffer(cs, input)

blake3_state_update(cs, input) ==
    IF cs.buffer_len = 0 THEN WholeBlocks(cs, input)
    ELSE WholeBlocks(FlushFull(blake3_fill_buffer(cs, input), Len(input) > Fits(cs, input)),
                     Beyond(input, Fits(cs, input)))

\* blake3_state_reset
blake3_state_reset(cs, key, counter) == blake3_state_init(key, counter, cs.d)

\* blake3_state_output and blake3_output_chain
Output(cv, block, block_len, counter, d) ==
    [cv |-> cv, block |-> block, block_len |-> block_len, counter |-> counter, d |-> d]

blake3_state_output(cs) ==
    Output(cs.cv, cs.buffer, cs.buffer_len, cs.t, cs.d \cup StartFlag(cs) \cup {"CHUNK_END"})

blake3_output_chain(out) ==
    blake3_compress_in_place(out.cv, out.block, out.block_len, out.counter, out.d)

\* The node over two chaining values, as a block.
ParentOutput(left, right, key, flags) ==
    Output(key, <<left, right>>, BLAKE3_BLOCK_LEN, 0, flags \cup {"PARENT"})

-----------------------------------------------------------------------------
(* Subtrees *)

\* blake3_hash_one on a whole chunk
RECURSIVE HashBlocks(_, _, _, _, _)
HashBlocks(cv, input, counter, flags, first) ==
    IF input = <<>> THEN cv
    ELSE HashBlocks(
            blake3_compress_in_place(cv, First(input, BLAKE3_BLOCK_LEN), BLAKE3_BLOCK_LEN, counter,
                flags \cup (IF first THEN {"CHUNK_START"} ELSE {})
                      \cup (IF Len(input) = BLAKE3_BLOCK_LEN THEN {"CHUNK_END"} ELSE {})),
            Beyond(input, BLAKE3_BLOCK_LEN), counter, flags, FALSE)
blake3_hash_one(input, key, counter, flags) == HashBlocks(key, input, counter, flags, TRUE)

\* blake3_compress_chunks: at most one chunk, whole or partial
blake3_compress_chunks(input, key, counter, flags) ==
    IF Len(input) = BLAKE3_CHUNK_LEN THEN <<blake3_hash_one(input, key, counter, flags)>>
    ELSE <<blake3_output_chain(blake3_state_output(
               blake3_state_update(blake3_state_init(key, counter, flags), input)))>>

\* blake3_compress_parents: pairs of nodes, and the odd one left over
blake3_compress_parents(cvs, key, flags) ==
    [i \in 1 .. (Len(cvs) + 1) \div 2 |->
        IF 2 * i > Len(cvs) THEN cvs[2 * i - 1]
        ELSE blake3_output_chain(ParentOutput(cvs[2 * i - 1], cvs[2 * i], key, flags))]

\* blake3_compress_subtree: the left subtree has the largest power of two of
\* chunks that leaves some on the right.
LeftChunks(len) == 2 ^ highest_one((len - 1) \div BLAKE3_CHUNK_LEN)

OneLayer(left, right, key, flags) ==
    IF Len(left) = 1 THEN <<left[1], right[1]>>
    ELSE blake3_compress_parents(left \o right, key, flags)

RECURSIVE blake3_compress_subtree(_, _, _, _)
blake3_compress_subtree(input, key, counter, flags) ==
    IF Len(input) <= BLAKE3_CHUNK_LEN THEN blake3_compress_chunks(input, key, counter, flags)
    ELSE OneLayer(
        blake3_compress_subtree(First(input, LeftChunks(Len(input)) * BLAKE3_CHUNK_LEN),
                                key, counter, flags),
        blake3_compress_subtree(Beyond(input, LeftChunks(Len(input)) * BLAKE3_CHUNK_LEN),
                                key, counter + LeftChunks(Len(input)), flags),
        key, flags)

\* blake3_compress_subtree_to_parent
RECURSIVE DownToTwo(_, _, _)
DownToTwo(cvs, key, flags) ==
    IF Len(cvs) <= 2 THEN cvs ELSE DownToTwo(blake3_compress_parents(cvs, key, flags), key, flags)
blake3_compress_subtree_to_parent(input, key, counter, flags) ==
    DownToTwo(blake3_compress_subtree(input, key, counter, flags), key, flags)

-----------------------------------------------------------------------------
(* The hasher h: its key, the chunk in progress and the stack of nodes *)

blake3_init_ctx(key, mode) == [key |-> key, chunk |-> blake3_state_init(key, 0, mode), stack |-> <<>>]

\* blake3_hasher_merge_cv: one node per one bit of the number of chunks.
RECURSIVE blake3_hasher_merge_cv(_, _)
blake3_hasher_merge_cv(h, total) ==
    IF Len(h.stack) <= hw(total) THEN h
    ELSE blake3_hasher_merge_cv(
            [h EXCEPT !.stack = Append(First(@, Len(@) - 2),
                blake3_output_chain(ParentOutput(@[Len(@) - 1], @[Len(@)], h.key, h.chunk.d)))],
            total)

blake3_hasher_push_cv(h, cv, counter) ==
    [blake3_hasher_merge_cv(h, counter) EXCEPT !.stack = Append(@, cv)]

\* cx_blake3_update: the largest aligned subtree of the input that is left.
RECURSIVE Aligned(_, _)
Aligned(len, count) == IF count % len = 0 THEN len ELSE Aligned(len \div 2, count)

SubtreeLen(h, input) == Aligned(2 ^ highest_one(Len(input)), h.chunk.t * BLAKE3_CHUNK_LEN)

PushChunk(h, input) ==
    blake3_hasher_push_cv(h,
        blake3_output_chain(blake3_state_output(
            blake3_state_update(blake3_state_init(h.key, h.chunk.t, h.chunk.d), input))),
        h.chunk.t)

PushPair(h, cvs, chunks) ==
    blake3_hasher_push_cv(blake3_hasher_push_cv(h, cvs[1], h.chunk.t), cvs[2], h.chunk.t + chunks \div 2)

PushSubtree(h, input) ==
    IF Len(input) <= BLAKE3_CHUNK_LEN THEN PushChunk(h, input)
    ELSE PushPair(h, blake3_compress_subtree_to_parent(input, h.key, h.chunk.t, h.chunk.d),
                  Len(input) \div BLAKE3_CHUNK_LEN)

RECURSIVE Subtrees(_, _)
Subtrees(h, input) ==
    IF Len(input) > BLAKE3_CHUNK_LEN
    THEN Subtrees([PushSubtree(h, First(input, SubtreeLen(h, input)))
                      EXCEPT !.chunk.t = @ + SubtreeLen(h, input) \div BLAKE3_CHUNK_LEN],
                  Beyond(input, SubtreeLen(h, input)))
    ELSE IF input = <<>> THEN h
    ELSE blake3_hasher_merge_cv([h EXCEPT !.chunk = blake3_state_update(@, input)], h.chunk.t)

StateLen(cs) == BLAKE3_BLOCK_LEN * cs.blocks_compressed + cs.buffer_len

ChunkDone(h) ==
    [blake3_hasher_push_cv(h, blake3_output_chain(blake3_state_output(h.chunk)), h.chunk.t)
        EXCEPT !.chunk = blake3_state_reset(@, h.key, h.chunk.t + 1)]

InChunk(h, input) == Least(BLAKE3_CHUNK_LEN - StateLen(h.chunk), Len(input))

WithChunk(h, input, n) ==
    IF Len(input) = n THEN [h EXCEPT !.chunk = blake3_state_update(@, input)]
    ELSE Subtrees(ChunkDone([h EXCEPT !.chunk = blake3_state_update(@, First(input, n))]), Beyond(input, n))

cx_blake3_update(h, input) ==
    IF input = <<>> THEN h
    ELSE IF StateLen(h.chunk) > 0 THEN WithChunk(h, input, InChunk(h, input))
    ELSE Subtrees(h, input)

\* cx_blake3_final and blake3_output_root_bytes: the output blocks by counter.
RECURSIVE UpTheStack(_, _, _)
UpTheStack(out, h, remaining) ==
    IF remaining = 0 THEN out
    ELSE UpTheStack(ParentOutput(h.stack[remaining], blake3_output_chain(out), h.key, h.chunk.d),
                    h, remaining - 1)

RootOutput(h) ==
    IF h.stack = <<>> THEN blake3_state_output(h.chunk)
    ELSE IF StateLen(h.chunk) > 0
    THEN UpTheStack(blake3_state_output(h.chunk), h, Len(h.stack))
    ELSE UpTheStack(ParentOutput(h.stack[Len(h.stack) - 1], h.stack[Len(h.stack)], h.key, h.chunk.d),
                    h, Len(h.stack) - 2)

blake3_output_root_bytes(out, out_len) ==
    [i \in 1 .. (out_len + BLAKE3_BLOCK_LEN - 1) \div BLAKE3_BLOCK_LEN |->
        <<"cv", out.cv, out.block, out.block_len, i - 1, out.d \cup {"ROOT"}>>]

cx_blake3_final(h, out_len) == blake3_output_root_bytes(RootOutput(h), out_len)

-----------------------------------------------------------------------------
(* The tree of the specification of BLAKE3, for reference: a chunk is the  *)
(* chain of its blocks, and a longer message has on its left the largest   *)
(* power of two of chunks that leaves something on its right.              *)

RefBlock(data, k) == SubSeq(data, (k - 1) * BLAKE3_BLOCK_LEN + 1, Least(k * BLAKE3_BLOCK_LEN, Len(data)))

RefFlags(k, d) == d \cup (IF k = 1 THEN {"CHUNK_START"} ELSE {})

RECURSIVE RefCv(_, _, _, _, _)
RefCv(data, k, t, key, d) ==
    IF k = 0 THEN key
    ELSE <<"cv", RefCv(data, k - 1, t, key, d), RefBlock(data, k), BLAKE3_BLOCK_LEN, t, RefFlags(k, d)>>

RefLastBlock(data, n, t, key, d) ==
    Output(RefCv(data, n - 1, t, key, d),
           RefBlock(data, n) \o Zeros(BLAKE3_BLOCK_LEN - Len(RefBlock(data, n))),
           Len(RefBlock(data, n)), t, RefFlags(n, d) \cup {"CHUNK_END"})

RefChunk(data, t, key, d) ==
    RefLastBlock(data, IF data = <<>> THEN 1 ELSE (Len(data) - 1) \div BLAKE3_BLOCK_LEN + 1, t, key, d)

RefLeft(len) ==
    CHOOSE n \in {2 ^ p : p \in 0 .. 10} :
        n * BLAKE3_CHUNK_LEN < len /\ 2 * n * BLAKE3_CHUNK_LEN >= len

RECURSIVE RefNode(_, _, _, _)
RefNode(data, t, key, d) ==
    IF Len(data) <= BLAKE3_CHUNK_LEN THEN RefChunk(data, t, key, d)
    ELSE ParentOutput(
        blake3_output_chain(RefNode(First(data, RefLeft(Len(data)) * BLAKE3_CHUNK_LEN), t, key, d)),
        blake3_output_chain(RefNode(Beyond(data, RefLeft(Len(data)) * BLAKE3_CHUNK_LEN),
                                    t + RefLeft(Len(data)), key, d)),
        key, d)

RefBlake3(data, key, d, out_len) == blake3_output_root_bytes(RefNode(data, 0, key, d), out_len)

=============================================================================
