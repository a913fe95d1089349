------------------------------ MODULE CxHashes ------------------------------
(***************************************************************************)
(* The hash functions of lib_cxng fed piece by piece, and HMAC over them.  *)
(* A compression function only records the blocks it is given: what the    *)
(* model keeps is the buffering, the padding, the length fields and the    *)
(* counters.  Blocks have BlockSize bytes, length fields LengthSize.       *)
(***************************************************************************)
EXTENDS CxBlake3

CONSTANTS Pieces,                   \* the lengths of the pieces of a message
          MaxMessage,               \* the longest message
          CX_HASH_MAX_BLOCK_COUNT   \* 65535 in the code

ASSUME HashAssumption == Pieces \subseteq Nat /\ CX_HASH_MAX_BLOCK_COUNT \in Nat \ {0}

VARIABLE hasher    \* the context and what was fed to it

hashVars == <<hasher>>

BlockSize == 4
LengthSize == 2
StateSize == 6     \* the buffer of SHA-3, longer than its block (200 bytes)
DigestSize == 2
KeyPad == 3        \* the length of the HMAC keys that fit a block

MD == {"sha256", "sha512", "ripemd160"}
Sponges == {"sha3", "keccak", "shake"}
Algorithms == MD \cup Sponges \cup {"blake2b", "groestl", "blake3", "blake3_derive", "hmac", "hmac_long"}

\* "|=" on a byte that was zeroed
Or(byte, x) == <<"or", byte[2] \cup {x}>>

OrAt(block, at, x) == [block EXCEPT ![at + 1] = Or(@, x)]

SetAt(block, at, x) == [block EXCEPT ![at + 1] = <<"or", {x}>>]

\* memset(block + from, 0, ...)
ZeroFrom(block, from) == Put(block, from, Zeros(Len(block) - from))

Message(from, n) == [i \in 1 .. n |-> <<"m", from + i>>]

-----------------------------------------------------------------------------
(* The compression functions: the trace of the blocks they were given *)

cx_sha256_block(c) == [c EXCEPT !.trace = Append(@, c.block)]

cx_sha512_block(c) == [c EXCEPT !.trace = Append(@, c.block)]

cx_ripemd160_block(c) == [c EXCEPT !.trace = Append(@, c.block)]

\* cx_sha3_block absorbs the rate only.
cx_sha3_block(c) == [c EXCEPT !.trace = Append(@, First(c.block, BlockSize))]

CompressBlock(c) ==
    IF c.alg = "sha256" THEN cx_sha256_block(c)
    ELSE IF c.alg = "sha512" THEN cx_sha512_block(c)
    ELSE IF c.alg = "ripemd160" THEN cx_ripemd160_block(c)
    ELSE cx_sha3_block(c)

-----------------------------------------------------------------------------
(* The update functions of SHA-2, RIPEMD-160 and SHA-3: r bytes are missing *)
(* to complete the block.  SHA-256 does not check its counter.             *)

UpdateRefused(c) == [c EXCEPT !.err = TRUE, !.blen = 0]

RECURSIVE AppendBlocks(_, _, _, _)
AppendBlocks(c, data, r, capped) ==
    IF Len(data) < r
    THEN [c EXCEPT !.block = Put(@, BlockSize - r, data), !.blen = BlockSize - r + Len(data)]
    ELSE IF capped /\ c.counter = CX_HASH_MAX_BLOCK_COUNT THEN UpdateRefused(c)
    ELSE AppendBlocks([CompressBlock([c EXCEPT !.block = Put(@, BlockSize - r, First(data, r))])
                          EXCEPT !.counter = @ + 1],
                      Beyond(data, r), BlockSize, capped)

cx_sha256_update_Slip(c, data) ==
    IF c.blen + Len(data) > BlockSize THEN AppendBlocks(c, data, BlockSize - c.blen, FALSE)
    ELSE [c EXCEPT !.block = Put(@, c.blen, data), !.blen = @ + Len(data)]
cx_sha256_update(c, data) ==
    IF c.blen >= BlockSize THEN UpdateRefused(c) ELSE AppendBlocks(c, data, BlockSize - c.blen, FALSE)

cx_sha512_update(c, data) == AppendBlocks(c, data, BlockSize - c.blen, TRUE)

cx_ripemd160_update(c, data) ==
    IF c.blen >= BlockSize THEN UpdateRefused(c) ELSE AppendBlocks(c, data, BlockSize - c.blen, TRUE)

cx_sha3_update(c, data) ==
    IF c.blen >= BlockSize THEN UpdateRefused(c) ELSE AppendBlocks(c, data, BlockSize - c.blen, TRUE)

\* The length at the end of the last block; SHA-512 writes half of its field.
LengthField(alg, n) ==
    IF alg = "sha512" THEN <<Zero, <<"len", n>>>>
    ELSE <<<<"len-high", n>>, <<"len", n>>>>

\* One more block, when the length does not fit behind the padding.
Spilled(c) ==
    IF BlockSize - c.blen < LengthSize
    THEN [CompressBlock([c EXCEPT !.block = ZeroFrom(@, c.blen)]) EXCEPT !.blen = 0] ELSE c

LastBlock(c, n) ==
    CompressBlock([c EXCEPT !.block = Put(ZeroFrom(@, c.blen), BlockSize - LengthSize, LengthField(c.alg, n))])

\* cx_sha256_final, cx_sha512_final and cx_ripemd160_final
MDFinal(c) ==
    LastBlock(Spilled([c EXCEPT !.block = SetAt(@, c.blen, 128), !.blen = @ + 1]),
              c.counter * BlockSize + c.blen)

cx_sha256_final(c) == MDFinal(c).trace

cx_sha512_final(c) == MDFinal(c).trace

cx_ripemd160_final(c) == MDFinal(c).trace

\* cx_sha3_final: one padded block, whose first and last byte may be the same;
\* an extendable output is squeezed a block at a time.
Domain(alg) == IF alg = "keccak" THEN 1 ELSE IF alg = "sha3" THEN 6 ELSE 31

HashPadded(c) ==
    cx_sha3_block([c EXCEPT !.block =
        OrAt(OrAt(ZeroFrom(@, c.blen), c.blen, Domain(c.alg)), BlockSize - 1, 128)])

Acc(c, n) == [i \in 1 .. n |-> <<"acc", c.trace, i>>]

RECURSIVE Squeeze(_, _)
Squeeze(c, len) ==
    IF len <= BlockSize THEN Acc(c, len)
    ELSE Acc(c, BlockSize) \o Squeeze(cx_sha3_block(c), len - BlockSize)

cx_sha3_final(c) ==
    IF c.alg \in {"sha3", "keccak"} THEN Acc(HashPadded(c), c.output_size)
    ELSE Squeeze([HashPadded(c) EXCEPT !.block = Zeros(StateSize)], c.output_size)

-----------------------------------------------------------------------------
(* BLAKE2b keeps a full block until more follows; a block is compressed     *)
(* with the number of bytes so far and whether it is the last one.         *)

blake2b_compress(c, block, last) == [c EXCEPT !.trace = Append(@, <<block, c.counter, last>>)]

blake2b_increment_counter(c, n) == [c EXCEPT !.counter = @ + n]

RECURSIVE blake2b_blocks(_, _)
blake2b_blocks(c, data) ==
    IF Len(data) > BlockSize
    THEN blake2b_blocks(blake2b_compress(blake2b_increment_counter(c, BlockSize), First(data, BlockSize), FALSE),
                        Beyond(data, BlockSize))
    ELSE [c EXCEPT !.block = Put(@, 0, data), !.blen = Len(data)]

blake2b_update(c, data) ==
    IF Len(data) > BlockSize - c.blen
    THEN blake2b_blocks(
            blake2b_compress(blake2b_increment_counter(c, BlockSize),
                             Put(c.block, c.blen, First(data, BlockSize - c.blen)), FALSE),
            Beyond(data, BlockSize - c.blen))
    ELSE [c EXCEPT !.block = Put(@, c.blen, data), !.blen = @ + Len(data)]

blake2b_final(c) ==
    blake2b_compress(blake2b_increment_counter(c, c.blen), ZeroFrom(c.block, c.blen), TRUE).trace

-----------------------------------------------------------------------------
(* Groestl: the last field counts the blocks, padding included.            *)

RECURSIVE Transform(_, _)
Transform(c, input) ==
    IF Len(input) < BlockSize THEN c
    ELSE Transform([c EXCEPT !.trace = Append(@, First(input, BlockSize)), !.counter = @ + 1],
                   Beyond(input, BlockSize))

GroestlTail(c, input, rest) ==
    [Transform(c, input) EXCEPT !.block = Put(@, 0, rest), !.blen = Len(rest)]

GroestlRest(c, input) == GroestlTail(c, input, Beyond(input, Len(input) - (Len(input) % BlockSize)))

GroestlFilled(c, block, input, n) ==
    IF c.blen + n < BlockSize THEN [c EXCEPT !.block = block, !.blen = @ + n]
    ELSE GroestlRest(Transform([c EXCEPT !.block = block, !.blen = 0], block), Beyond(input, n))

Missing(c, input) == Least(BlockSize - c.blen, Len(input))

Groestl_Update(c, input) ==
    IF c.blen = 0 THEN GroestlRest(c, input)
    ELSE GroestlFilled(c, Put(c.block, c.blen, First(input, Missing(c, input))), input, Missing(c, input))

GroestlSpilled(c) ==
    IF c.blen > BlockSize - LengthSize
    THEN [Transform(c, ZeroFrom(c.block, c.blen)) EXCEPT !.blen = 0] ELSE c

GroestlLast(c) ==
    Transform(c, Put(ZeroFrom(c.block, c.blen), BlockSize - LengthSize, LengthField(c.alg, c.counter + 1)))

Groestl_Final(c) ==
    GroestlLast(GroestlSpilled([c EXCEPT !.block = SetAt(@, c.blen, 128), !.blen = @ + 1])).trace

-----------------------------------------------------------------------------
(* The generic functions of cx_hash.c, and HMAC *)

Context(alg, size) ==
    [alg |-> alg, block |-> Zeros(IF alg \in Sponges THEN StateSize ELSE BlockSize), blen |-> 0,
     counter |-> 0, trace |-> <<>>, err |-> FALSE, output_size |-> size]

cx_hash_update(c, data) ==
    IF c.alg = "sha256" THEN cx_sha256_update(c, data)
    ELSE IF c.alg = "sha512" THEN cx_sha512_update(c, data)
    ELSE IF c.alg = "ripemd160" THEN cx_ripemd160_update(c, data)
    ELSE IF c.alg = "blake2b" THEN blake2b_update(c, data)
    ELSE IF c.alg = "groestl" THEN Groestl_Update(c, data)
    ELSE cx_sha3_update(c, data)

cx_hash_final(c) ==
    IF c.alg = "sha256" THEN cx_sha256_final(c)
    ELSE IF c.alg = "sha512" THEN cx_sha512_final(c)
    ELSE IF c.alg = "ripemd160" THEN cx_ripemd160_final(c)
    ELSE IF c.alg = "blake2b" THEN blake2b_final(c)
    ELSE IF c.alg = "groestl" THEN Groestl_Final(c)
    ELSE cx_sha3_final(c)

Digest(trace) == [i \in 1 .. DigestSize |-> <<"digest", trace, i>>]

\* The key of a MAC, a block of bytes xored with a pad; a longer one is hashed.
HmacKey(long) ==
    IF long THEN Digest(cx_hash_final(cx_hash_update(Context("sha256", 0), Message(100, BlockSize + 1))))
    ELSE Message(100, KeyPad)

XoredPad(key, pad) == [i \in 1 .. BlockSize |-> <<"xor", pad, (key \o Zeros(BlockSize - Len(key)))[i]>>]

cx_hmac_init(long) == cx_hash_update(Context("sha256", 0), XoredPad(HmacKey(long), "ipad"))

cx_hmac_update(c, data) == IF data = <<>> THEN c ELSE cx_hash_update(c, data)

cx_hmac_final(c, long) ==
    cx_hash_final(cx_hash_update(cx_hash_update(Context("sha256", 0), XoredPad(HmacKey(long), "opad")),
                                 Digest(cx_hash_final(c))))

-----------------------------------------------------------------------------
(* The calls of a program *)

Streaming == hasher.phase = "streaming"

NoHash == [alg |-> "none", phase |-> "none", fed |-> 0, size |-> 0, ctx |-> 0, out |-> <<>>]

\* cx_blake3_init: the key of derivation is the digest of the context string.
Blake3Ctx(alg) ==
    IF alg = "blake3" THEN blake3_init_ctx(<<"IV">>, {})
    ELSE blake3_init_ctx(<<"derived", cx_blake3_final(
             cx_blake3_update(blake3_init_ctx(<<"IV">>, {"DERIVE_KEY_CONTEXT"}), Message(200, 5)), 2)>>,
             {"DERIVE_KEY_MATERIAL"})

Initial(alg, size) ==
    IF alg \in {"hmac", "hmac_long"} THEN cx_hmac_init(alg = "hmac_long")
    ELSE IF alg \in {"blake3", "blake3_derive"} THEN Blake3Ctx(alg)
    ELSE Context(alg, size)

Updated(alg, c, data) ==
    IF alg \in {"hmac", "hmac_long"} THEN cx_hmac_update(c, data)
    ELSE IF alg \in {"blake3", "blake3_derive"} THEN cx_blake3_update(c, data)
    ELSE cx_hash_update(c, data)

Finished(alg, c, size) ==
    IF alg \in {"hmac", "hmac_long"} THEN cx_hmac_final(c, alg = "hmac_long")
    ELSE IF alg \in {"blake3", "blake3_derive"} THEN cx_blake3_final(c, size)
    ELSE cx_hash_final(c)

UpdateFailed(alg, c) == alg \notin {"blake3", "blake3_derive"} /\ c.err

\* cx_hash_init and cx_hash_init_ex: the size is for the extendable outputs.
cx_hash_init ==
    /\ hasher.phase # "streaming"
    /\ \E alg \in Algorithms, size \in {3, 4, 9} :
          /\ alg \in {"shake", "blake3"} \/ size = 3
          /\ hasher' = [NoHash EXCEPT !.alg = alg, !.phase = "streaming", !.size = size,
                                    !.ctx = Initial(alg, size)]

Fed(c, n) ==
    IF UpdateFailed(hasher.alg, c) THEN [hasher EXCEPT !.phase = "error", !.ctx = 0]
    ELSE [hasher EXCEPT !.ctx = c, !.fed = @ + n]

\* One more piece.
Update ==
    /\ Streaming
    /\ \E n \in Pieces :
          /\ hasher.fed + n <= MaxMessage
          /\ hasher' = Fed(Updated(hasher.alg, hasher.ctx, Message(hasher.fed, n)), n)

\* CX_LAST: the last piece and the digest (cx_hash_no_throw, cx_hmac_no_throw).
Closed(c, n) ==
    IF UpdateFailed(hasher.alg, c) THEN [hasher EXCEPT !.phase = "error", !.ctx = 0]
    ELSE [hasher EXCEPT !.phase = "done", !.ctx = 0, !.fed = @ + n,
                      !.out = Finished(hasher.alg, c, hasher.size)]

cx_hash_no_throw ==
    /\ Streaming
    /\ \E n \in Pieces :
          /\ hasher.fed + n <= MaxMessage
          /\ hasher' = Closed(Updated(hasher.alg, hasher.ctx, Message(hasher.fed, n)), n)

\* hash_iovec: every element of the vector, unless one fails, in one call.
Iovec(alg, lens) ==
    FoldLeft(LAMBDA r, n : IF r.c.err THEN r
                           ELSE [c |-> cx_hash_update(r.c, Message(r.fed, n)), fed |-> r.fed + n],
             [c |-> Context(alg, 3), fed |-> 0], lens)

hash_iovec ==
    /\ hasher.phase # "streaming"
    /\ \E alg \in MD \cup Sponges \cup {"blake2b"}, a \in Pieces, b \in Pieces :
          /\ a + b <= MaxMessage
          /\ \E r \in {Iovec(alg, <<a, b>>)} :
                hasher' = IF r.c.err THEN [NoHash EXCEPT !.phase = "error", !.alg = alg]
                        ELSE [NoHash EXCEPT !.alg = alg, !.phase = "done", !.fed = r.fed, !.size = 3,
                                            !.out = cx_hash_final(r.c)]

HashInit == hasher = NoHash

HashNext == cx_hash_init \/ Update \/ cx_hash_no_throw \/ hash_iovec

HashSpec == HashInit /\ [][HashNext]_hashVars

-----------------------------------------------------------------------------
(* The digests of the standards, of a message taken as a whole *)

MessageBlocks(data) == [k \in 1 .. Len(data) \div BlockSize |-> SubSeq(data, (k - 1) * BlockSize + 1, k * BlockSize)]

\* The bytes up to the end of a block, once n more have been added.
Fill(len, n) == Zeros((BlockSize - ((len + n) % BlockSize)) % BlockSize)

RefMD(alg, data, count) ==
    MessageBlocks(data \o <<<<"or", {128}>>>> \o Fill(Len(data), 1 + LengthSize) \o LengthField(alg, count))

RefGroestl(data) == RefMD("groestl", data, (Len(data) + LengthSize) \div BlockSize + 1)

RefPad(data, x, n) ==
    IF n = 1 THEN data \o <<<<"or", {x, 128}>>>>
    ELSE data \o <<<<"or", {x}>>>> \o Zeros(n - 2) \o <<<<"or", {128}>>>>

RefAbsorbed(alg, data) == MessageBlocks(RefPad(data, Domain(alg), BlockSize - (Len(data) % BlockSize)))

RefSponge(alg, data, size) ==
    [i \in 1 .. size |->
        <<"acc",
          RefAbsorbed(alg, data) \o [k \in 1 .. (i - 1) \div BlockSize |-> Zeros(BlockSize)],
          ((i - 1) % BlockSize) + 1>>]

RefBlake2b(data) ==
    [k \in 1 .. IF data = <<>> THEN 1 ELSE (Len(data) - 1) \div BlockSize + 1 |->
        <<SubSeq(data \o Zeros(BlockSize), (k - 1) * BlockSize + 1, k * BlockSize),
          Least(k * BlockSize, Len(data)), k * BlockSize >= Len(data)>>]

RefHmac(long, data) ==
    RefMD("sha256", XoredPad(HmacKey(long), "opad") \o
                    Digest(RefMD("sha256", XoredPad(HmacKey(long), "ipad") \o data, BlockSize + Len(data))),
          BlockSize + DigestSize)

Reference(alg, data, size) ==
    IF alg \in MD THEN RefMD(alg, data, Len(data))
    ELSE IF alg \in Sponges THEN RefSponge(alg, data, size)
    ELSE IF alg = "blake2b" THEN RefBlake2b(data)
    ELSE IF alg = "groestl" THEN RefGroestl(data)
    ELSE IF alg \in {"hmac", "hmac_long"} THEN RefHmac(alg = "hmac_long", data)
    ELSE RefBlake3(data, Blake3Ctx(alg).key, Blake3Ctx(alg).chunk.d, size)

\* However a message is cut into pieces, the digest is the one of the whole
\* message: every block is compressed once, in order, with the padding, the
\* length and the counters of the standard.  A call fails only where a counter
\* reached its limit.
DigestOfWhole ==
    /\ hasher.phase = "done" =>
          hasher.out = Reference(hasher.alg, Message(0, hasher.fed), hasher.size)
    /\ hasher.phase = "error" => hasher.alg \in (MD \cup Sponges) \ {"sha256"}

=============================================================================
