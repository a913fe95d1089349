----------------------------- MODULE CxCiphers ------------------------------
(***************************************************************************)
(* The ciphers and MACs of lib_cxng fed piece by piece: ECB, CBC and CTR   *)
(* of cx_cipher.c, CMAC, ChaCha20, Poly1305, and the authenticated modes   *)
(* ChaCha20-Poly1305, AES-GCM and AES-SIV.  Block ciphers and              *)
(* multiplications are terms of what goes into them; blocks have           *)
(* CipherBlock bytes instead of 16 or 64.                                  *)
(***************************************************************************)
EXTENDS Integers, Sequences, SequencesExt

CONSTANTS CipherPieces,   \* the lengths of the pieces of a message
          MaxText         \* the longest message, and the longest associated data

ASSUME CipherAssumption == CipherPieces \subseteq Nat /\ MaxText \in Nat

VARIABLE stream    \* the context, what was fed to it and what came out

cipherVars == <<stream>>

CipherBlock == 4
CounterMod == 4      \* the first word of the ChaCha counter, 2^32 in the code

ZeroByte == <<"or", 0>>
ZeroBytes(n) == [i \in 1 .. n |-> ZeroByte]

Head1(s, n) == SubSeq(s, 1, n)
Tail1(s, n) == SubSeq(s, n + 1, Len(s))

\* memcpy(block + at, data, Len(data))
Copied(block, at, data) ==
    [i \in 1 .. Len(block) |->
        IF i > at /\ i <= at + Len(data) THEN data[i - at] ELSE block[i]]

TailCleared(block, from) == Copied(block, from, ZeroBytes(Len(block) - from))

ByteRun(kind, from, n) == [i \in 1 .. n |-> <<kind, from + i>>]

Lesser(a, b) == IF a < b THEN a ELSE b

-----------------------------------------------------------------------------
(* ECB and CBC: c.data and c.len are the bytes not processed yet, c.chain   *)
(* the blocks the hardware has chained, c.sig the last block.              *)

NewCipher(mode, operation, padding, plain) ==
    [mode |-> mode, op |-> operation, pad |-> padding, data |-> ZeroBytes(CipherBlock), len |-> 0,
     chain |-> <<>>, sig |-> <<>>, out |-> <<>>, err |-> FALSE,
     plain |-> plain]

CipherError(c) == [c EXCEPT !.err = TRUE]

\* enc_func: a term of the block, and in CBC of all the blocks before it.
Enciphered(c, block) ==
    LET what == IF c.mode = "cbc" THEN Append(c.chain, block) ELSE <<block>>
    IN  [i \in 1 .. CipherBlock |-> <<"e", what, i>>]

\* dec_func: block k of the cipher text of c.plain gives block k of it; in CBC
\* only after block k - 1.
Deciphered(c, block) ==
    LET Is(k) == /\ block = ByteRun("c", (k - 1) * CipherBlock, CipherBlock)
                 /\ c.mode = "cbc" => Len(c.chain) = k - 1
    IN  IF \E k \in 1 .. Len(c.plain) \div CipherBlock : Is(k)
        THEN SubSeq(c.plain, block[1][2], block[1][2] + CipherBlock - 1)
        ELSE [i \in 1 .. CipherBlock |-> <<"?", block, i>>]

\* ecb_func and cbc_func on one block: CX_SIGN and CX_VERIFY only chain it.
OneBlock(c, block) ==
    CASE c.op \in {"sign", "verify"} -> [c EXCEPT !.chain = Append(@, block), !.sig = Enciphered(c, block)]
      [] c.op = "encrypt" -> [c EXCEPT !.chain = Append(@, block), !.out = @ \o Enciphered(c, block),
                                       !.sig = Enciphered(c, block)]
      [] c.op = "decrypt" -> [c EXCEPT !.chain = Append(@, block), !.out = @ \o Deciphered(c, block)]

RECURSIVE CipherBlocks(_, _)
CipherBlocks(c, input) ==
    IF input = <<>> THEN c
    ELSE CipherBlocks(OneBlock(c, Head1(input, CipherBlock)), Tail1(input, CipherBlock))

\* cx_cipher_update: the first block is completed, the end of the input is
\* kept; a decryption with padding keeps the last whole block too.
TailKept(c, input) ==
    IF Len(input) % CipherBlock = 0 /\ c.op = "decrypt" /\ c.pad # "none" /\ input # <<>>
    THEN CipherBlock ELSE Len(input) % CipherBlock


KeepTail(c, input, n) ==
    CipherBlocks([c EXCEPT !.data = Copied(@, 0, Tail1(input, Len(input) - n)), !.len = @ + n],
                 Head1(input, Len(input) - n))

CompleteFirst(c, input, n) ==
    [CipherBlocks(c, Copied(c.data, c.len, Head1(input, n)))
        EXCEPT !.data = Copied(@, c.len, Head1(input, n)), !.len = 0]

WithFirst(c, input) ==
    IF c.len = 0 THEN KeepTail(c, input, TailKept(c, input))
    ELSE KeepTail(CompleteFirst(c, input, CipherBlock - c.len), Tail1(input, CipherBlock - c.len),
                  TailKept(c, Tail1(input, CipherBlock - c.len)))

cx_cipher_update(c, input) ==
    IF c.mode = "ecb" /\ c.op \in {"sign", "verify"} /\ Len(input) + c.len >= CipherBlock
    THEN CipherError(c)
    ELSE IF Len(input) + c.len < CipherBlock
    THEN [c EXCEPT !.data = Copied(@, c.len, input), !.len = @ + Len(input)]
    ELSE WithFirst(c, input)

\* add_zeros_padding and add_one_and_zeros_padding
AddPadding(c) ==
    IF c.pad = "m1" THEN TailCleared(c.data, c.len)
    ELSE Copied(TailCleared(c.data, c.len), c.len, <<<<"or", 128>>>>)

\* get_one_and_zeros_padding: the places of a 0x80 with only zeros behind it.
PadStarts(block) ==
    {i \in 1 .. Len(block) : /\ block[i] = <<"or", 128>>
                             /\ \A j \in i + 1 .. Len(block) : block[j] = ZeroByte}

\* The last block of the output of a decryption without its padding: none is
\* recognised for ISO9797M1.
Unpadded(c, before) ==
    IF c.pad = "m1" THEN c
    ELSE IF PadStarts(Tail1(c.out, before)) = {} THEN CipherError(c)
    ELSE [c EXCEPT !.out = Head1(@, before + (CHOOSE i \in PadStarts(Tail1(c.out, before)) : TRUE) - 1)]

\* cx_cipher_finish, followed by cx_cipher_mac
cx_cipher_finish(c) ==
    IF c.pad = "none" THEN (IF c.len = 0 THEN c ELSE CipherError(c))
    ELSE IF c.op = "decrypt" THEN Unpadded(OneBlock(c, c.data), Len(c.out))
    ELSE IF c.pad = "m1" /\ c.len = 0 THEN c
    ELSE IF c.mode = "ecb" /\ c.op # "encrypt" THEN CipherError(c)
    ELSE OneBlock(c, AddPadding(c))

-----------------------------------------------------------------------------
(* Key streams: aes_ctr and cx_chacha_update.  The bytes of the stream are  *)
(* named by the counter they come from and their place in its block.       *)

NewKeyStream(counter) == [pos |-> 0, lo |-> counter, hi |-> 0, block |-> <<>>, out |-> <<>>]

\* The next key stream block; the counter is incremented with its carry.
NextKeyBlock(k) ==
    [k EXCEPT !.block = <<k.lo, k.hi>>, !.lo = (k.lo + 1) % CounterMod,
              !.hi = IF (k.lo + 1) % CounterMod = 0 THEN @ + 1 ELSE @]

\* XOR with a byte of the key stream, which undoes itself.
StreamXored(byte, block, at) ==
    IF byte[1] = "x" /\ byte[3] = block /\ byte[4] = at THEN byte[2] ELSE <<"x", byte, block, at>>

KeyByte(k, byte, at) == StreamXored(byte, k.block, at)

\* aes_ctr, a byte at a time
CtrByte(k, byte) == [k EXCEPT !.out = Append(@, KeyByte(k, byte, k.pos)), !.pos = (@ + 1) % CipherBlock]

aes_ctr(k, input) ==
    FoldLeft(LAMBDA s, byte : IF s.pos = 0 THEN CtrByte(NextKeyBlock(s), byte) ELSE CtrByte(s, byte), k, input)

\* cx_chacha_update, up to the end of a key stream block at a time
ChachaRun(k, input) ==
    [k EXCEPT !.out = @ \o [i \in 1 .. Len(input) |-> KeyByte(k, input[i], k.pos + i - 1)],
              !.pos = @ + Len(input)]

ChachaBlock(k) ==
    IF k.pos = 0 \/ k.pos >= CipherBlock THEN [NextKeyBlock(k) EXCEPT !.pos = 0] ELSE k

RECURSIVE ChachaBlocks(_, _, _)
ChachaBlocks(k, input, n) ==
    IF Len(input) <= n THEN ChachaRun(k, input)
    ELSE ChachaBlocks(ChachaBlock(ChachaRun(k, Head1(input, n))), Tail1(input, n), CipherBlock)

cx_chacha_update(k, input) ==
    IF input = <<>> THEN k
    ELSE ChachaBlocks(ChachaBlock(k), input, CipherBlock - ChachaBlock(k).pos)

-----------------------------------------------------------------------------
(* Poly1305 and CMAC: acc is the sequence of blocks multiplied or chained.  *)

NewMac == [block |-> ZeroBytes(CipherBlock), len |-> 0, acc |-> <<>>]

\* cx_poly1305_process, with the padding bit of a whole block
PolyProcess(m, block, bit) == [m EXCEPT !.acc = Append(@, <<block, bit>>)]

RECURSIVE PolyBlocks(_, _)
PolyBlocks(m, input) ==
    IF Len(input) >= CipherBlock
    THEN PolyBlocks(PolyProcess(m, Head1(input, CipherBlock), 1), Tail1(input, CipherBlock))
    ELSE IF input = <<>> THEN m
    ELSE [m EXCEPT !.len = Len(input), !.block = Copied(@, 0, input)]

PolyFilled(m, input, n) ==
    IF Len(input) < n
    THEN [m EXCEPT !.block = Copied(@, m.len, input), !.len = @ + Len(input)]
    ELSE PolyBlocks(PolyProcess([m EXCEPT !.len = 0, !.block = Copied(@, m.len, Head1(input, n))],
                                Copied(m.block, m.len, Head1(input, n)), 1),
                    Tail1(input, n))

cx_poly1305_update(m, input) ==
    IF m.len > 0 THEN PolyFilled(m, input, CipherBlock - m.len) ELSE PolyBlocks(m, input)

cx_poly1305_finish(m) ==
    IF m.len = 0 THEN m
    ELSE PolyProcess(m, TailCleared(Copied(m.block, m.len, <<<<"or", 1>>>>), m.len + 1), 0)

\* cx_cmac_update always keeps a block, the last one so far.
RECURSIVE CmacBlocks(_, _)
CmacBlocks(m, input) ==
    IF Len(input) > CipherBlock
    THEN CmacBlocks([m EXCEPT !.acc = Append(@, Head1(input, CipherBlock))], Tail1(input, CipherBlock))
    ELSE [m EXCEPT !.block = Copied(@, m.len, input), !.len = @ + Len(input)]

CmacFull(m, input, n) ==
    CmacBlocks([m EXCEPT !.acc = Append(@, Copied(m.block, m.len, Head1(input, n))),
                         !.block = Copied(@, m.len, Head1(input, n)), !.len = 0],
               Tail1(input, n))

cx_cmac_update(m, input) ==
    IF m.len > 0 /\ Len(input) > CipherBlock - m.len
    THEN CmacFull(m, input, CipherBlock - m.len)
    ELSE CmacBlocks(m, input)

\* cx_cmac_finish: the last block is mixed with one subkey or the other.
cx_cmac_finish(m) ==
    IF m.len < CipherBlock
    THEN <<m.acc, "k2", TailCleared(Copied(m.block, m.len, <<<<"or", 128>>>>), m.len + 1)>>
    ELSE <<m.acc, "k1", m.block>>

-----------------------------------------------------------------------------
(* ChaCha20-Poly1305 *)

\* cx_chachapoly_start: the first key stream block is the Poly1305 key.
KeyFrom(h, mode, k) ==
    [h EXCEPT !.state = "aad", !.mode = mode, !.k = [k EXCEPT !.out = <<>>], !.mac = NewMac,
              !.key = k.block, !.aadLen = 0, !.len = 0]
cx_chachapoly_start(h, mode) ==
    KeyFrom(h, mode, cx_chacha_update([h.k EXCEPT !.lo = 0, !.hi = 0, !.pos = 0], ZeroBytes(CipherBlock)))

cx_chachapoly_init ==
    [state |-> "init", mode |-> "encrypt", k |-> NewKeyStream(0), mac |-> NewMac, key |-> <<>>,
     aadLen |-> 0, len |-> 0]

cx_chachapoly_pad(h, len) ==
    IF len % CipherBlock = 0 THEN h
    ELSE [h EXCEPT !.mac = cx_poly1305_update(@, ZeroBytes(CipherBlock - (len % CipherBlock)))]

\* Refused once the text has begun.
cx_chachapoly_update_aad(h, aad) ==
    IF h.state # "aad" THEN h
    ELSE [h EXCEPT !.aadLen = @ + Len(aad), !.mac = cx_poly1305_update(@, aad)]

MacOf(h, input, k) ==
    [h EXCEPT !.len = @ + Len(input), !.k = k,
              !.mac = cx_poly1305_update(@, IF h.mode = "encrypt" THEN Tail1(k.out, Len(h.k.out)) ELSE input)]

InText(h) == IF h.state = "aad" THEN [cx_chachapoly_pad(h, h.aadLen) EXCEPT !.state = "text"] ELSE h

cx_chachapoly_update(h, input) == MacOf(InText(h), input, cx_chacha_update(h.k, input))

LengthsOf(a, b) == <<<<"len", a>>, ZeroByte, <<"len", b>>, ZeroByte>>

ChachapolyEnd(h) ==
    [h EXCEPT !.state = "done", !.mac = cx_poly1305_finish(cx_poly1305_update(@, LengthsOf(h.aadLen, h.len)))]

cx_chachapoly_finish(h) ==
    ChachapolyEnd(cx_chachapoly_pad(h, IF h.state = "aad" THEN h.aadLen ELSE h.len))

-----------------------------------------------------------------------------
(* AES-GCM: J0 is the counter, acc the blocks multiplied by the hash key.   *)

cx_aes_gcm_start(mode, J0) == [mode |-> mode, J0 |-> J0, acc |-> <<>>, aadLen |-> 0, len |-> 0, out |-> <<>>]

\* cx_gcm_xor_block with block_len bytes: the others stay as they were.
GHash(g, bytes) == [g EXCEPT !.acc = Append(@, Copied(ZeroBytes(CipherBlock), 0, bytes))]

cx_gcm_increment(J0) == (J0 + 1) % CounterMod

RECURSIVE GcmAad(_, _)
GcmAad(g, aad) ==
    IF aad = <<>> THEN g
    ELSE GcmAad(GHash(g, Head1(aad, Lesser(Len(aad), CipherBlock))), Tail1(aad, Lesser(Len(aad), CipherBlock)))

cx_aes_gcm_update_aad(g, aad) == GcmAad([g EXCEPT !.aadLen = @ + Len(aad)], aad)

GcmBlock(g, input, output) ==
    [GHash(g, IF g.mode = "encrypt" THEN output ELSE input)
        EXCEPT !.J0 = cx_gcm_increment(@), !.out = @ \o output]

GcmXor(J0, input) == [i \in 1 .. Len(input) |-> StreamXored(input[i], <<J0, 0>>, i - 1)]

RECURSIVE GcmText(_, _)
GcmText(g, input) ==
    IF Len(input) <= CipherBlock
    THEN (IF input = <<>> THEN g ELSE GcmBlock(g, input, GcmXor(cx_gcm_increment(g.J0), input)))
    ELSE GcmText(GcmBlock(g, Head1(input, CipherBlock),
                          GcmXor(cx_gcm_increment(g.J0), Head1(input, CipherBlock))),
                 Tail1(input, CipherBlock))

cx_aes_gcm_update(g, input) == GcmText([g EXCEPT !.len = @ + Len(input)], input)

cx_aes_gcm_finish(g) == GHash(g, LengthsOf(g.aadLen, g.len))

-----------------------------------------------------------------------------
(* AES-SIV: CMAC and CTR share one cipher context, whose unprocessed_len    *)
(* "off" is the place in the key stream for CTR and must be 0 for CMAC.    *)

SivCmac(off, data) == <<"cmac", off, cx_cmac_finish(cx_cmac_update(NewMac, data))>>

TermBytes(t) == [i \in 1 .. CipherBlock |-> <<"d", t, i>>]
XorBytes(a, b) == [i \in 1 .. CipherBlock |-> <<"+", a[i], b[i]>>]

\* cx_aes_siv_start and cx_aes_siv_update_aad
SivStart(off) == SivCmac(off, ZeroBytes(CipherBlock))
SivAad(off, state, aad) == <<"+", <<"dbl", state>>, SivCmac(off, aad)>>

\* cx_aes_siv_finish
SivPadded(input) ==
    Copied(ZeroBytes(CipherBlock), 0, Append(input, <<"or", 128>>))
cx_aes_siv_finish(off, state, input) ==
    IF Len(input) < CipherBlock
    THEN SivCmac(off, XorBytes(TermBytes(<<"dbl", state>>), SivPadded(input)))
    ELSE <<"cmac", off,
           cx_cmac_finish(cx_cmac_update(
               cx_cmac_update(NewMac, Head1(input, Len(input) - CipherBlock)),
               XorBytes(TermBytes(state), Tail1(input, Len(input) - CipherBlock))))>>

\* cx_aes_siv_update: CTR from the tag, its key stream blocks named by it.
SivStream(off, tag, input) ==
    [i \in 1 .. Len(input) |->
        StreamXored(input[i], <<tag, (off + i - 1) \div CipherBlock>>, (off + i - 1) % CipherBlock)]

SivEncrypted(off, tag, input) ==
    [out |-> SivStream(off, tag, input), tag |-> tag]

cx_aes_siv_encrypt(off, aad, input) ==
    SivEncrypted(off, cx_aes_siv_finish(off, SivAad(off, SivStart(off), aad), input), input)

\* cx_aes_siv_decrypt resets the cipher context between CTR and CMAC.
SivDecrypted(off, aad, out, start) ==
    [out |-> out, tag |-> cx_aes_siv_finish(off, SivAad(off, start, aad), out)]
SivReset(off) == 0
cx_aes_siv_decrypt(off, aad, tag, input) ==
    SivDecrypted(SivReset((off + Len(input)) % CipherBlock), aad, SivStream(off, tag, input), SivStart(off))

-----------------------------------------------------------------------------
(* The reference: each algorithm on the whole message. *)

\* A text, of any bytes or of bytes that look like padding.
Text(kind, n) ==
    [i \in 1 .. n |-> IF kind = "m" THEN <<"m", i>> ELSE <<"or", IF i % 2 = 1 THEN 128 ELSE 0>>]

Aad(n) == ByteRun("a", 0, n)

BlocksOf(s) == [j \in 1 .. (Len(s) + CipherBlock - 1) \div CipherBlock |->
              SubSeq(s, (j - 1) * CipherBlock + 1, Lesser(j * CipherBlock, Len(s)))]

ToBlock(n) == (CipherBlock - (n % CipherBlock)) % CipherBlock

RefPadded(text, pad) ==
    IF pad = "none" THEN text
    ELSE IF pad = "m1" THEN text \o ZeroBytes(ToBlock(Len(text)))
    ELSE text \o <<<<"or", 128>>>> \o ZeroBytes(ToBlock(Len(text) + 1))

RefEncrypted(mode, blocks) ==
    [i \in 1 .. Len(blocks) * CipherBlock |->
        LET b == (i + CipherBlock - 1) \div CipherBlock
        IN  <<"e", IF mode = "cbc" THEN SubSeq(blocks, 1, b) ELSE <<blocks[b]>>, i - (b - 1) * CipherBlock>>]

\* Counters: of two words for ChaCha and CTR, of one for GCM.
Counter2(i) == <<i % CounterMod, i \div CounterMod>>
Counter1(i) == <<i % CounterMod, 0>>
RefStream(text, blockOf) ==
    [i \in 1 .. Len(text) |-> <<"x", text[i], blockOf[(i - 1) \div CipherBlock], (i - 1) % CipherBlock>>]
Counters2(from) == [q \in 0 .. MaxText |-> Counter2(from + q)]
Counters1(from) == [q \in 0 .. MaxText |-> Counter1(from + q)]

RefPoly(blocks) ==
    [j \in 1 .. Len(blocks) |->
        IF Len(blocks[j]) = CipherBlock THEN <<blocks[j], 1>>
        ELSE <<blocks[j] \o <<<<"or", 1>>>> \o ZeroBytes(CipherBlock - Len(blocks[j]) - 1), 0>>]

RefCmac(s) ==
    IF s # <<>> /\ Len(s) % CipherBlock = 0
    THEN <<Front(BlocksOf(s)), "k1", Last(BlocksOf(s))>>
    ELSE <<SubSeq(BlocksOf(s), 1, Len(s) \div CipherBlock), "k2",
           SubSeq(s, Len(s) - (Len(s) % CipherBlock) + 1, Len(s)) \o <<<<"or", 128>>>>
               \o ZeroBytes(ToBlock(Len(s) + 1))>>

\* Associated data and text, each completed with zeros, and their lengths.
RefAuthenticated(aad, ctext) ==
    BlocksOf(aad \o ZeroBytes(ToBlock(Len(aad))) \o ctext \o ZeroBytes(ToBlock(Len(ctext)))
            \o LengthsOf(Len(aad), Len(ctext)))

\* RFC 5297: S2V of one string of associated data and the text, then CTR.
RefSivTag(aad, text) ==
    LET D == <<"+", <<"dbl", <<"cmac", 0, RefCmac(ZeroBytes(CipherBlock))>>>>, <<"cmac", 0, RefCmac(aad)>>>>
        n == Len(text) - CipherBlock
    IN  <<"cmac", 0,
          RefCmac(IF n >= 0
                  THEN SubSeq(text, 1, n) \o XorBytes(TermBytes(D), SubSeq(text, n + 1, Len(text)))
                  ELSE XorBytes(TermBytes(<<"dbl", D>>), RefPadded(text, "m2")))>>

GcmStartCounter == CounterMod - 2

\* The cipher text of an authenticated mode.
RefText(alg, text) ==
    IF alg = "gcm" THEN RefStream(text, Counters1(GcmStartCounter + 1)) ELSE RefStream(text, Counters2(1))

-----------------------------------------------------------------------------
(* A message fed in pieces *)

NoStream == [phase |-> "idle"]

CipherInit == stream = NoStream

BlockModes == {"ecb", "cbc"}
Aeads == {"chachapoly", "gcm"}

\* What is fed: a decryption is given the cipher text of the message.
Input(st) ==
    IF st.alg \in BlockModes /\ st.op = "decrypt" THEN ByteRun("c", 0, Len(st.c.plain))
    ELSE IF st.alg \in Aeads /\ st.op = "decrypt" THEN RefText(st.alg, Text(st.kind, st.n))
    ELSE Text(st.kind, st.n)

Started(alg, op, kind, n, a, c) ==
    [phase |-> "fed", alg |-> alg, op |-> op, kind |-> kind, n |-> n, a |-> a, fed |-> 0, fedA |-> 0,
     whole |-> TRUE, wholeA |-> TRUE, c |-> c]

\* cx_cipher_setup, cx_cipher_setkey, cx_cipher_set_padding
StartBlocks ==
    /\ stream = NoStream
    /\ \E mode \in BlockModes, op \in {"encrypt", "decrypt", "sign"}, pad \in {"none", "m1", "m2"},
         kind \in {"m", "z"}, n \in 0 .. MaxText :
        /\ mode = "ecb" => op # "sign"
        /\ stream' = Started(mode, op, kind, n, 0, NewCipher(mode, op, pad, RefPadded(Text(kind, n), pad)))

\* cx_chacha_start, cx_cipher_setiv for CTR, cx_poly1305_set_key, cx_cmac_start
StartPlain ==
    /\ stream = NoStream
    /\ \E n \in 0 .. MaxText :
        \/ \E alg \in {"ctr", "chacha"}, counter \in {0, CounterMod - 1} :
              stream' = Started(alg, counter, "m", n, 0, NewKeyStream(counter))
        \/ \E alg \in {"poly1305", "cmac"} : stream' = Started(alg, "sign", "m", n, 0, NewMac)

StartGcm ==
    /\ stream = NoStream
    /\ \E op \in {"encrypt", "decrypt"}, n, a \in 0 .. MaxText :
        stream' = Started("gcm", op, "m", n, a, cx_aes_gcm_start(op, GcmStartCounter))

\* A ChaCha20-Poly1305 context may be used again for another message.
StartChachapoly ==
    \E op \in {"encrypt", "decrypt"}, n, a \in 0 .. MaxText :
        \/ stream = NoStream /\ stream' = Started("chachapoly", op, "m", n, a, cx_chachapoly_start(cx_chachapoly_init, op))
        \/ /\ stream.phase = "done" /\ stream.alg = "chachapoly"
           /\ stream' = Started("chachapoly", op, "m", n, a, cx_chachapoly_start(stream.c, op))

UpdateAad ==
    /\ stream.phase = "fed" /\ stream.alg \in Aeads
    /\ \E n \in CipherPieces :
        /\ stream.fedA + n <= stream.a
        /\ \E aad \in {SubSeq(Aad(stream.a), stream.fedA + 1, stream.fedA + n)} :
             stream' = [stream EXCEPT
                 !.fedA = @ + n, !.wholeA = @ /\ stream.fedA % CipherBlock = 0,
                 !.c = IF stream.alg = "gcm" THEN cx_aes_gcm_update_aad(@, aad)
                       ELSE cx_chachapoly_update_aad(@, aad)]

\* The associated data come first; ChaCha20-Poly1305 refuses more of them later.
LateAad ==
    /\ stream.phase = "fed" /\ stream.alg = "chachapoly" /\ stream.fed > 0
    /\ stream' = [stream EXCEPT !.c = cx_chachapoly_update_aad(@, Aad(1))]

cx_update(st, input) ==
    CASE st.alg \in BlockModes -> cx_cipher_update(st.c, input)
      [] st.alg = "ctr" -> aes_ctr(st.c, input)
      [] st.alg = "chacha" -> cx_chacha_update(st.c, input)
      [] st.alg = "poly1305" -> cx_poly1305_update(st.c, input)
      [] st.alg = "cmac" -> cx_cmac_update(st.c, input)
      [] st.alg = "chachapoly" -> cx_chachapoly_update(st.c, input)
      [] st.alg = "gcm" -> cx_aes_gcm_update(st.c, input)

UpdateText ==
    /\ stream.phase = "fed" /\ stream.fedA = stream.a
    /\ \E n \in CipherPieces :
        /\ stream.fed + n <= Len(Input(stream))
        /\ stream' = [stream EXCEPT
               !.fed = @ + n, !.whole = @ /\ stream.fed % CipherBlock = 0,
               !.c = cx_update(stream, SubSeq(Input(stream), stream.fed + 1, stream.fed + n))]

CipherFinish ==
    /\ stream.phase = "fed" /\ stream.fedA = stream.a /\ stream.fed = Len(Input(stream))
    /\ stream' = [stream EXCEPT
           !.phase = "done",
           !.c = CASE stream.alg \in BlockModes -> cx_cipher_finish(@)
                   [] stream.alg \in {"ctr", "chacha"} -> @
                   [] stream.alg = "poly1305" -> cx_poly1305_finish(@)
                   [] stream.alg = "cmac" -> [acc |-> cx_cmac_finish(@)]
                   [] stream.alg = "chachapoly" -> cx_chachapoly_finish(@)
                   [] stream.alg = "gcm" -> cx_aes_gcm_finish(@)]

\* cx_aead_decrypt on a cipher text with its own tag, or with another one.
Cleartext(alg, c, text, authentic) ==
    IF alg = "gcm"
    THEN (IF authentic THEN cx_aes_gcm_update(c, text).out ELSE ZeroBytes(Len(text)))
    ELSE cx_chachapoly_update(c, text).k.out

DecryptAndAuth ==
    /\ stream = NoStream
    /\ \E alg \in Aeads, n \in 0 .. MaxText, authentic \in BOOLEAN :
        stream' = [phase |-> "aead", n |-> n, authentic |-> authentic,
                   out |-> Cleartext(alg, IF alg = "gcm" THEN cx_aes_gcm_start("decrypt", GcmStartCounter)
                                          ELSE cx_chachapoly_start(cx_chachapoly_init, "decrypt"),
                                     RefText(alg, Text("m", n)), authentic)]

\* AES-SIV: a message is encrypted, and decrypted with the same context.
SivBoth(n, a, sealed) ==
    [phase |-> "siv", n |-> n, a |-> a, sealed |-> sealed,
     opened |-> cx_aes_siv_decrypt(0, Aad(a), sealed.tag, sealed.out)]

Siv ==
    /\ stream = NoStream
    /\ \E n, a \in 0 .. MaxText : stream' = SivBoth(n, a, cx_aes_siv_encrypt(0, Aad(a), Text("m", n)))

CipherNext ==
    \/ StartBlocks \/ StartPlain \/ StartGcm \/ StartChachapoly
    \/ UpdateAad \/ LateAad \/ UpdateText \/ CipherFinish
    \/ DecryptAndAuth \/ Siv

CipherSpec == CipherInit /\ [][CipherNext]_cipherVars

-----------------------------------------------------------------------------
(* Properties *)

\* A padded decryption whose last block was held back until the end.
HeldBack(st) == st.op = "decrypt" /\ st.c.pad # "none" => st.whole /\ st.fed > 0

BlocksRight(st, blocks) ==
    IF st.c.pad = "none" /\ st.n % CipherBlock # 0 THEN st.c.err
    ELSE HeldBack(st) =>
         /\ ~st.c.err
         /\ st.op = "encrypt" => st.c.out = RefEncrypted(st.alg, blocks)
         /\ st.op = "sign" /\ blocks # <<>> =>
                st.c.sig = Tail1(RefEncrypted(st.alg, blocks), (Len(blocks) - 1) * CipherBlock)
         /\ st.op = "decrypt" => st.c.out = IF st.c.pad = "m2" THEN Text(st.kind, st.n) ELSE st.c.plain

AeadOut(st) ==
    IF st.op = "encrypt" THEN RefText(st.alg, Text(st.kind, st.n)) ELSE Text(st.kind, st.n)


=============================================================================
