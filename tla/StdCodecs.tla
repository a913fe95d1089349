----------------------------- MODULE StdCodecs ------------------------------
(***************************************************************************)
(* The readers, writers and formatters of the standard application library *)
(* (lib_standard_app: buffer.c, read.c, write.c, varint.c, bip32.c,        *)
(* base58.c, format.c, parser.c) and the DER signatures of                 *)
(* lib_cxng/src/cx_ecfp.c.                                                 *)
(*                                                                         *)
(* A byte is a number below 256; an integer of n bytes is the sequence of  *)
(* its bytes, the lowest first, so that 64 bits have their real width; a   *)
(* character of a text is a digit or one of the codes below.               *)
(***************************************************************************)
EXTENDS Integers, Sequences, SequencesExt

CONSTANTS
    Items,           \* what is put in a buffer: [type, value]
    BufferSizes, MaxItems,
    Base58Bytes, MaxBase58,   \* bytes and length of the inputs of base58
    MAX_ENC_INPUT_SIZE, MAX_DEC_INPUT_SIZE,
    DerIntegers,     \* the integers r and s of a signature
    DerBytes,        \* the bytes put in the place of those of a signature
    Amounts, Decimals, TextSizes,
    FormatPaths,     \* sequences of [n, hard]
    MAX_BIP32_PATH,
    Apdus            \* sequences of bytes given to apdu_parser

VARIABLE codec       \* [kind, in]; for a buffer also its state

codecVars == <<codec>>

-----------------------------------------------------------------------------
(* read.c, write.c, varint.c *)

Smaller(a, b) == IF a < b THEN a ELSE b
ZeroSeq(n) == [i \in 1 .. n |-> 0]
Wide(v) == v \o ZeroSeq(8 - Len(v))
OnlyLow(v, n) == \A i \in n + 1 .. 8 : v[i] = 0

read_le(in, offset, n) == SubSeq(in, offset + 1, offset + n)
read_be(in, offset, n) == Reverse(SubSeq(in, offset + 1, offset + n))
write_le(v, n) == SubSeq(v, 1, n)
write_be(v, n) == Reverse(SubSeq(v, 1, n))

varint_size_Slip(v) ==
    IF v[1] <= 253 /\ OnlyLow(v, 1) THEN 1
    ELSE IF OnlyLow(v, 2) THEN 3 ELSE IF OnlyLow(v, 4) THEN 5 ELSE 9
varint_size(v) ==
    IF v[1] <= 252 /\ OnlyLow(v, 1) THEN 1
    ELSE IF OnlyLow(v, 2) THEN 3 ELSE IF OnlyLow(v, 4) THEN 5 ELSE 9

varint_write(v) ==
    IF varint_size(v) = 1 THEN <<v[1]>>
    ELSE IF varint_size(v) = 3 THEN <<253>> \o write_le(v, 2)
    ELSE IF varint_size(v) = 5 THEN <<254>> \o write_le(v, 4)
    ELSE <<255>> \o write_le(v, 8)

VarintOf(in, n) ==
    IF Len(in) < n + 1 THEN [len |-> -1, value |-> <<>>]
    ELSE [len |-> n + 1, value |-> Wide(read_le(in, 1, n))]
varint_read(in) ==
    IF in = <<>> THEN [len |-> -1, value |-> <<>>]
    ELSE IF in[1] = 253 THEN VarintOf(in, 2)
    ELSE IF in[1] = 254 THEN VarintOf(in, 4)
    ELSE IF in[1] = 255 THEN VarintOf(in, 8)
    ELSE [len |-> 1, value |-> Wide(<<in[1]>>)]

-----------------------------------------------------------------------------
(* buffer.c: b is [ptr, offset]; a reading gives [ok, b, value]            *)

buffer_can_read(b, n) == Len(b.ptr) - b.offset >= n
buffer_seek_set(b, offset) == IF offset > Len(b.ptr) THEN b ELSE [b EXCEPT !.offset = offset]
buffer_seek_cur(b, n) == IF b.offset + n > Len(b.ptr) THEN b ELSE [b EXCEPT !.offset = @ + n]
Unread(b) == SubSeq(b.ptr, b.offset + 1, Len(b.ptr))

NotRead(b) == [ok |-> FALSE, b |-> b, value |-> <<>>]
Taken(b, n, value) == [ok |-> TRUE, b |-> buffer_seek_cur(b, n), value |-> value]

\* buffer_read_u8, _u16, _u32, _u64 and buffer_read_bytes
buffer_read_int(b, n, endianness) ==
    IF ~buffer_can_read(b, n) THEN NotRead(b)
    ELSE Taken(b, n, IF endianness = "BE" THEN read_be(b.ptr, b.offset, n) ELSE read_le(b.ptr, b.offset, n))
buffer_read_bytes(b, n) == IF ~buffer_can_read(b, n) THEN NotRead(b) ELSE Taken(b, n, read_le(b.ptr, b.offset, n))

VarintTaken(b, r) == IF r.len < 0 THEN NotRead(b) ELSE Taken(b, r.len, r.value)
buffer_read_varint(b) == VarintTaken(b, varint_read(Unread(b)))

bip32_path_read(in, n) ==
    IF in = <<>> \/ n = 0 \/ n > MAX_BIP32_PATH \/ Len(in) < 4 * n THEN [ok |-> FALSE, path |-> <<>>]
    ELSE [ok |-> TRUE, path |-> [i \in 1 .. n |-> read_be(in, 4 * (i - 1), 4)]]
\* buffer_get_path_bip32: the length byte stays consumed when the path is not read.
PathTaken(b, n, r) == IF r.ok THEN Taken(b, 4 * n, r.path) ELSE NotRead(b)
buffer_get_path_bip32(b) ==
    IF ~buffer_can_read(b, 1) THEN NotRead(b)
    ELSE PathTaken([b EXCEPT !.offset = @ + 1], b.ptr[b.offset + 1],
                   bip32_path_read(Unread([b EXCEPT !.offset = @ + 1]), b.ptr[b.offset + 1]))

\* buffer_write_u8, _u16, _u32, _u64 and buffer_write_bytes
buffer_write(b, data) ==
    IF ~buffer_can_read(b, Len(data)) THEN [ok |-> FALSE, b |-> b]
    ELSE [ok |-> TRUE,
          b |-> buffer_seek_cur([b EXCEPT !.ptr = SubSeq(@, 1, b.offset) \o data \o
                                                  SubSeq(@, b.offset + Len(data) + 1, Len(@))],
                                Len(data))]

\* The bytes of an item, and its reading.
ItemBytes(item) ==
    CASE item.type \in {"u16be", "u32be", "u64be"} -> write_be(item.value, Len(item.value))
      [] item.type = "varint" -> varint_write(item.value)
      [] item.type = "path" -> <<Len(item.value)>> \o FlattenSeq([i \in DOMAIN item.value |-> write_be(item.value[i], 4)])
      [] OTHER -> write_le(item.value, Len(item.value))
ReadBack(b, item) ==
    CASE item.type \in {"u16be", "u32be", "u64be"} -> buffer_read_int(b, Len(item.value), "BE")
      [] item.type \in {"u8", "u16le", "u32le", "u64le"} -> buffer_read_int(b, Len(item.value), "LE")
      [] item.type = "varint" -> buffer_read_varint(b)
      [] item.type = "path" -> buffer_get_path_bip32(b)
      [] OTHER -> buffer_read_bytes(b, Len(item.value))

-----------------------------------------------------------------------------
(* base58.c: a character is its rank in the alphabet                       *)

LeadingZeros(s) == CHOOSE n \in 0 .. Len(s) :
    (\A i \in 1 .. n : s[i] = 0) /\ (n < Len(s) => s[n + 1] # 0)
WithoutZeros(s) == SubSeq(s, LeadingZeros(s) + 1, Len(s))

\* The inner loop of base58_encode: the number times 256 plus a byte, the digits
\* above stop_at being zero.  stop_at - 1 wraps around at 0.
RECURSIVE Carried(_, _, _, _)
Carried(buffer, carry, j, stop_at) ==
    IF j < 0 THEN [buffer |-> buffer, stop_at |-> j]
    ELSE IF (stop_at <= 0 \/ j <= stop_at - 1) /\ (carry + 256 * buffer[j + 1]) \div 58 = 0
    THEN [buffer |-> [buffer EXCEPT ![j + 1] = carry + 256 * @], stop_at |-> j]
    ELSE Carried([buffer EXCEPT ![j + 1] = (carry + 256 * @) % 58],
                 (carry + 256 * buffer[j + 1]) \div 58, j - 1, stop_at)
EncodedDigits(bytes, size) ==
    FoldLeft(LAMBDA r, byte : Carried(r.buffer, byte, size - 1, r.stop_at),
             [buffer |-> ZeroSeq(size), stop_at |-> size - 1], bytes).buffer
Roomy(out, out_len) == IF out_len < Len(out) THEN <<-1>> ELSE out
base58_encode(in, out_len) ==
    IF Len(in) > MAX_ENC_INPUT_SIZE THEN <<-1>>
    ELSE Roomy(ZeroSeq(LeadingZeros(in)) \o
               WithoutZeros(EncodedDigits(WithoutZeros(in), ((Len(in) - LeadingZeros(in)) * 138) \div 100 + 1)),
               out_len)

\* A division of base58_decode: the digits from start_at on, by 256.
Divided(tmp, start_at) ==
    FoldLeft(LAMBDA r, i : [tmp |-> [r.tmp EXCEPT ![i] = (r.rem * 58 + @) \div 256],
                            rem |-> (r.rem * 58 + r.tmp[i]) % 256],
             [tmp |-> tmp, rem |-> 0], [k \in 1 .. Len(tmp) - start_at |-> start_at + k])
RECURSIVE DecodedBytes(_, _, _)
DecodedBytes(tmp, start_at, bytes) ==
    IF start_at = Len(tmp) THEN bytes
    ELSE DecodedBytes(Divided(tmp, start_at).tmp,
                      IF Divided(tmp, start_at).tmp[start_at + 1] = 0 THEN start_at + 1 ELSE start_at,
                      <<Divided(tmp, start_at).rem>> \o bytes)
base58_decode(in, out_len) ==
    IF Len(in) > MAX_DEC_INPUT_SIZE \/ Len(in) < 2 THEN <<-1>>
    ELSE Roomy(ZeroSeq(LeadingZeros(in)) \o WithoutZeros(DecodedBytes(in, LeadingZeros(in), <<>>)), out_len)

-----------------------------------------------------------------------------
(* cx_ecfp.c: DER signatures *)

asn1_get_encoded_length_size(len) == IF len < 128 THEN 1 ELSE IF len < 256 THEN 2 ELSE 3
IntegerLength(v) == IF v = <<>> THEN 1 ELSE IF v[1] >= 128 THEN Len(v) + 1 ELSE Len(v)
asn1_get_encoded_integer_size(val) ==
    1 + asn1_get_encoded_length_size(IntegerLength(WithoutZeros(val))) + IntegerLength(WithoutZeros(val))

asn1_insert_len(len) ==
    IF len < 128 THEN <<len>> ELSE IF len < 256 THEN <<129, len>> ELSE <<130, len \div 256, len % 256>>
InsertedInteger(v) ==
    IF v = <<>> THEN <<2, 1, 0>>
    ELSE <<2>> \o asn1_insert_len(IntegerLength(v)) \o (IF v[1] >= 128 THEN <<0>> ELSE <<>>) \o v
asn1_insert_integer(val) == InsertedInteger(WithoutZeros(val))

\* cx_ecfp_encode_sig_der: nothing when it does not fit.
Fitting(bytes, sig_len) == IF Len(bytes) > sig_len THEN <<>> ELSE bytes
cx_ecfp_encode_sig_der(sig_len, r, s) ==
    Fitting(<<48>> \o asn1_insert_len(asn1_get_encoded_integer_size(r) + asn1_get_encoded_integer_size(s))
                   \o asn1_insert_integer(r) \o asn1_insert_integer(s), sig_len)

\* The readers give [ok, p, len], p being the position of the next byte.
NoDer == [ok |-> FALSE, p |-> 0, len |-> 0]
RECURSIVE LongLength(_, _, _, _)
LongLength(in, p, left, len) ==
    IF left = 0 THEN [ok |-> len >= 128, p |-> p, len |-> len]
    ELSE IF len * 256 + in[p] + left > Len(in) - p + 1 THEN NoDer
    ELSE LongLength(in, p + 1, left - 1, len * 256 + in[p])
LengthFrom(in, p, left) ==
    IF left > Len(in) - p + 1 \/ in[p] = 0 \/ left > 4 THEN NoDer ELSE LongLength(in, p, left, 0)
asn1_read_len(in, p) ==
    IF p > Len(in) \/ in[p] \in {128, 255} THEN NoDer
    ELSE IF in[p] < 128 THEN [ok |-> TRUE, p |-> p + 1, len |-> in[p]]
    ELSE LengthFrom(in, p + 1, in[p] - 128)
asn1_read_tag(in, p, tag) ==
    IF p > Len(in) \/ in[p] # tag THEN NoDer ELSE asn1_read_len(in, p + 1)

\* asn1_parse_integer gives [ok, p, n], the bytes n without leading zeros.
IntegerAt(in, p, len) ==
    IF \/ len = 0 \/ len > Len(in) - p + 1 \/ in[p] >= 128
       \/ in[p] = 0 /\ len >= 2 /\ in[p + 1] < 128
    THEN [ok |-> FALSE, p |-> p, n |-> <<>>]
    ELSE [ok |-> TRUE, p |-> p + len, n |-> WithoutZeros(SubSeq(in, p, p + len - 1))]
IntegerAfter(in, t) == IF t.ok THEN IntegerAt(in, t.p, t.len) ELSE [ok |-> FALSE, p |-> 0, n |-> <<>>]
asn1_parse_integer(in, p) == IntegerAfter(in, asn1_read_tag(in, p, 2))

NotDecoded == [ok |-> FALSE, r |-> <<>>, s |-> <<>>]
Decoded(in, r, s, max_size) ==
    IF r.ok /\ s.ok /\ s.p = Len(in) + 1 /\ Len(r.n) <= max_size /\ Len(s.n) <= max_size
    THEN [ok |-> TRUE, r |-> r.n, s |-> s.n] ELSE NotDecoded
WithR(in, r, max_size) ==
    IF r.ok THEN Decoded(in, r, asn1_parse_integer(in, r.p), max_size) ELSE NotDecoded
InSequence(in, t, max_size) ==
    IF t.ok /\ t.p + t.len = Len(in) + 1 THEN WithR(in, asn1_parse_integer(in, t.p), max_size) ELSE NotDecoded
cx_ecfp_decode_sig_der(in, max_size) == InSequence(in, asn1_read_tag(in, 1, 48), max_size)

-----------------------------------------------------------------------------
(* format.c and bip32.c: a text is an array of characters that ends at the *)
(* first NUL                                                               *)

DOT == 10
NUL == 11
QUOTE == 13
SLASH == 14
OLD == 15        \* what the array held before

TextIn(dst) == SubSeq(dst, 1, (CHOOSE n \in 0 .. Len(dst) :
    (\A i \in 1 .. n : dst[i] # NUL) /\ (n < Len(dst) => dst[n + 1] = NUL)))
Old(n) == [i \in 1 .. n |-> OLD]
Over(dst, at, text) == SubSeq(dst, 1, at) \o text \o SubSeq(dst, at + Len(text) + 1, Len(dst))

RECURSIVE LowDigits(_)
LowDigits(n) == IF n <= 9 THEN <<n>> ELSE <<n % 10>> \o LowDigits(n \div 10)

\* The formatters give [ok, dst].
NotFormatted(dst) == [ok |-> FALSE, dst |-> dst]
\* format_u64 does not look at the room for the NUL after a single digit.
UnsignedText(dst, text) ==
    IF Len(dst) = 0 \/ (Len(text) > 1 /\ Len(text) > Len(dst) - 1) THEN NotFormatted(dst)
    ELSE [ok |-> TRUE, dst |-> Over(dst, 0, Append(text, NUL))]
format_u64(dst, value) == UnsignedText(dst, Reverse(LowDigits(value)))

\* strncpy: the text, cut to n characters or padded with NULs to n
strncpy(dst, at, text, n) ==
    Over(dst, at, [i \in 1 .. n |-> IF i <= Len(text) THEN text[i] ELSE NUL])
BelowOne(dst, digits, decimals) ==
    IF Len(dst) <= 2 + decimals - Len(digits) THEN NotFormatted(dst)
    ELSE [ok |-> TRUE,
          dst |-> strncpy(Over(dst, 0, <<0, DOT>> \o ZeroSeq(decimals - Len(digits))),
                          2 + decimals - Len(digits), digits, Len(dst) - (2 + decimals - Len(digits)))]
AboveOne(dst, digits, decimals, shift) ==
    IF Len(dst) <= Len(digits) + 1 + decimals THEN NotFormatted(dst)
    ELSE [ok |-> TRUE,
          dst |-> strncpy(Over(dst, 0, SubSeq(digits, 1, shift) \o <<DOT>>), shift + 1,
                          SubSeq(digits, shift + 1, Len(digits)), decimals)]
FormattedFixed(dst, digits, decimals) ==
    IF Len(digits) <= decimals THEN BelowOne(dst, digits, decimals)
    ELSE AboveOne(dst, digits, decimals, Len(digits) - decimals)
format_fpu64(dst, value, decimals) == FormattedFixed(dst, Reverse(LowDigits(value)), decimals)

\* format_fpu64_trimmed: the zeros at the end, and the dot before them
Trimmed(text, n) == SubSeq(text, 1, IF n > 0 /\ text[n] = DOT THEN n - 1 ELSE n)
TrimmedText(text) == Trimmed(text, CHOOSE n \in 0 .. Len(text) :
    (\A i \in n + 1 .. Len(text) : text[i] = 0) /\ (n > 0 => text[n] # 0))
format_fpu64_trimmed(dst, value, decimals) ==
    IF ~format_fpu64(dst, value, decimals).ok THEN NotFormatted(dst)
    ELSE [ok |-> TRUE,
          dst |-> Over(format_fpu64(dst, value, decimals).dst, 0,
                       Append(TrimmedText(TextIn(format_fpu64(dst, value, decimals).dst)), NUL))]

\* bip32_path_format: snprintf cuts a part to the room left, and a part of
\* which nothing was written is the only failure that is seen.
PathParts(path) ==
    FlattenSeq([i \in 1 .. Len(path) |->
        <<Reverse(LowDigits(path[i].n))>> \o (IF path[i].hard THEN <<<<QUOTE>>>> ELSE <<>>)
                                          \o (IF i < Len(path) THEN <<<<SLASH>>>> ELSE <<>>)])
PartAdded(r, part, size) ==
    IF ~r.ok \/ size - Len(r.text) <= 1 THEN [ok |-> FALSE, text |-> <<>>]
    ELSE [ok |-> TRUE,
          text |-> r.text \o SubSeq(part, 1, IF Len(part) < size - Len(r.text) THEN Len(part)
                                             ELSE size - Len(r.text) - 1)]
bip32_path_format(path, size) ==
    IF Len(path) \notin 1 .. MAX_BIP32_PATH THEN [ok |-> FALSE, text |-> <<>>]
    ELSE FoldLeft(LAMBDA r, part : PartAdded(r, part, size), [ok |-> TRUE, text |-> <<>>], PathParts(path))

\* format_hex, of bytes as pairs of nibbles
format_hex(in, size) ==
    IF size < 2 * Len(in) + 1 THEN <<-1>>
    ELSE FlattenSeq([i \in 1 .. Len(in) |-> <<in[i] \div 16, in[i] % 16>>])

\* apdu_parser: the data of an APDU, or nothing
OFFSET_LC == 4
OFFSET_CDATA == 5
apdu_parser(buf) ==
    IF Len(buf) < OFFSET_LC \/ (Len(buf) > OFFSET_LC /\ Len(buf) - OFFSET_CDATA # buf[OFFSET_LC + 1])
    THEN [ok |-> FALSE, lc |-> 0, data |-> <<>>]
    ELSE [ok |-> TRUE, lc |-> IF Len(buf) = OFFSET_LC THEN 0 ELSE buf[OFFSET_LC + 1],
          data |-> SubSeq(buf, OFFSET_CDATA + 1, Len(buf))]

-----------------------------------------------------------------------------
(* One value is encoded, or a buffer is filled, rewound and read.          *)

CodecInit == codec = [kind |-> "none"]

Idling == codec.kind = "none"

Base58 == Idling /\ \E in \in UNION {[1 .. n -> Base58Bytes] : n \in 1 .. MaxBase58} :
    codec' = [kind |-> "base58", in |-> in]

SignatureOf(r, s) == cx_ecfp_encode_sig_der(Len(r) + Len(s) + 10, r, s)
Der == Idling /\ \E r, s \in DerIntegers : codec' = [kind |-> "der", r |-> r, s |-> s]
\* One byte of a signature replaced, removed or repeated.
DerChanged == codec.kind = "der" /\
    \E i \in 1 .. Smaller(Len(SignatureOf(codec.r, codec.s)), 12), b \in DerBytes, drop, keep \in 0 .. 1 :
        codec' = [kind |-> "derbytes",
                  in |-> SubSeq(SignatureOf(codec.r, codec.s), 1, i - drop) \o <<b>> \o
                         SubSeq(SignatureOf(codec.r, codec.s), i + 1 + keep, Len(SignatureOf(codec.r, codec.s)))]

Format == Idling /\ \E value \in Amounts, decimals \in Decimals, size \in TextSizes :
    codec' = [kind |-> "amount", value |-> value, decimals |-> decimals, size |-> size]
FormatPath == Idling /\ \E path \in FormatPaths, size \in TextSizes :
    codec' = [kind |-> "path", path |-> path, size |-> size]
ParseApdu == Idling /\ \E buf \in Apdus : codec' = [kind |-> "apdu", in |-> buf]

BufferNew == Idling /\ \E size \in BufferSizes :
    codec' = [kind |-> "buffer", b |-> [ptr |-> ZeroSeq(size), offset |-> 0], items |-> <<>>,
              got |-> <<>>, reading |-> FALSE]
BufferWrite ==
    /\ codec.kind = "buffer" /\ ~codec.reading /\ Len(codec.items) < MaxItems
    /\ \E item \in Items :
          /\ buffer_write(codec.b, ItemBytes(item)).ok
          /\ codec' = [codec EXCEPT !.b = buffer_write(codec.b, ItemBytes(item)).b, !.items = Append(@, item)]
BufferRewind ==
    /\ codec.kind = "buffer" /\ ~codec.reading
    /\ codec' = [codec EXCEPT !.b = buffer_seek_set(@, 0), !.reading = TRUE]
BufferRead ==
    /\ codec.kind = "buffer" /\ codec.reading /\ Len(codec.got) < Len(codec.items)
    /\ \E r \in {ReadBack(codec.b, codec.items[Len(codec.got) + 1])} :
          codec' = [codec EXCEPT !.b = r.b, !.got = Append(@, IF r.ok THEN r.value ELSE <<>>)]

CodecNext ==
    \/ Base58 \/ Der \/ DerChanged \/ Format \/ FormatPath \/ ParseApdu
    \/ BufferNew \/ BufferWrite \/ BufferRewind \/ BufferRead

CodecSpec == CodecInit /\ [][CodecNext]_codecVars

-----------------------------------------------------------------------------
(* Properties *)

NumberOf(digits) == FoldLeft(LAMBDA n, d : 10 * n + d, 0, digits)

\* The amount a text shows, in units of 10^-decimals.
DotAt(text) == IF Contains(text, DOT) THEN CHOOSE i \in DOMAIN text : text[i] = DOT ELSE Len(text) + 1
Shown(text, decimals) ==
    NumberOf(SelectSeq(text, LAMBDA c : c # DOT)) *
    10^(decimals - (IF DotAt(text) > Len(text) THEN 0 ELSE Len(text) - DotAt(text)))

\* The texts of an amount, in an array filled with NULs that is large enough.
ClearedText(n) == [i \in 1 .. n |-> NUL]
AmountShown(value, decimals, size) ==
    /\ Shown(TextIn(format_fpu64(ClearedText(size), value, decimals).dst), decimals) = value
    /\ Shown(TextIn(format_fpu64_trimmed(ClearedText(size), value, decimals).dst), decimals) = value

WholePath(path) == FlattenSeq(PathParts(path))

\* What is read back is what was written, the writers and the readers having
\* each their own idea of sizes: integers of both byte orders, variable length
\* integers and paths out of a buffer; base58 and its inverse, leading zeros
\* included; a DER signature and its decoding, which accepts no other bytes than
\* those of the encoder, so that a signature has one encoding; an APDU whose
\* length byte is the number of bytes after it; amounts in decimal, and paths
\* in arrays they fit.
CodecsAgree ==
    CASE codec.kind = "buffer" ->
            /\ codec.b.offset <= Len(codec.b.ptr)
            /\ \A i \in DOMAIN codec.got : codec.got[i] = codec.items[i].value
      [] codec.kind = "base58" ->
            /\ Len(base58_encode(codec.in, 9)) >= 2 =>
                  base58_decode(base58_encode(codec.in, 9), Len(codec.in)) = codec.in
            /\ \A i \in DOMAIN codec.in :
                  codec.in[i] = 16 * format_hex(codec.in, 99)[2 * i - 1] + format_hex(codec.in, 99)[2 * i]
      [] codec.kind = "der" ->
            cx_ecfp_decode_sig_der(SignatureOf(codec.r, codec.s), 66) =
                [ok |-> TRUE, r |-> WithoutZeros(codec.r), s |-> WithoutZeros(codec.s)]
      [] codec.kind = "derbytes" ->
            \E d \in {cx_ecfp_decode_sig_der(codec.in, 66)} :
                d.ok => SignatureOf(d.r, d.s) = codec.in
      [] codec.kind = "amount" ->
            format_u64(Old(codec.size), codec.value).ok =>
                /\ NumberOf(TextIn(format_u64(Old(codec.size), codec.value).dst)) = codec.value
                /\ codec.size > Len(LowDigits(codec.value)) + codec.decimals + 2 =>
                       AmountShown(codec.value, codec.decimals, codec.size)
      [] codec.kind = "apdu" ->
            apdu_parser(codec.in).ok => Len(apdu_parser(codec.in).data) = apdu_parser(codec.in).lc
      [] codec.kind = "path" /\ codec.path # <<>> /\ codec.size > Len(WholePath(codec.path)) ->
            bip32_path_format(codec.path, codec.size) = [ok |-> TRUE, text |-> WholePath(codec.path)]
      [] OTHER -> TRUE

=============================================================================
