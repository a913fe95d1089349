------------------------------ MODULE TlvParser ------------------------------
(***************************************************************************)
(* The TLV parser of lib_tlv/tlv_library.c.  A use case gives it a table   *)
(* of tags, each with a handler and a unicity; the parser walks a payload  *)
(* of bytes in three steps, tag, length and value, tags and lengths being  *)
(* DER encoded.  The table here has a tag read by get_uint8_t_from_tlv_data*)
(* and a tag read by get_string_from_tlv_data, which may be repeated.      *)
(***************************************************************************)
EXTENDS Integers, Sequences, SequencesExt, FiniteSets

CONSTANTS
  TlvBytes,          \* the bytes a payload is made of
  MaxPayload         \* the longest payload

VARIABLES
  tlvPayload,           \* the bytes to parse
  tlv                \* the parser: its step, offset, current field, the
                     \* flags of the tags received and the fields handled

tlvVars == <<tlvPayload, tlv>>

UINT8_MAX == 255

UINT16_MAX == 65535

DER_LONG_FORM_FLAG == 128

\* Index 0 of the C array is the first element of the sequence.
Byte(offset) == tlvPayload[offset + 1]

ByteRange(offset, n) == SubSeq(tlvPayload, offset + 1, offset + n)

\* U4BE and U8BE of a zero-padded buffer.
BigEndian(bytes) == FoldLeft(LAMBDA acc, b : 256 * acc + b, 0, bytes)

-----------------------------------------------------------------------------
(***************************************************************************)
(* What the handlers call to read a value.                                 *)
(***************************************************************************)

get_uint64_t_from_tlv_data(value) ==
  IF Len(value) \in 1 .. 8 THEN {BigEndian(value)} ELSE {}

get_uint8_t_from_tlv_data(value) ==
  {v \in get_uint64_t_from_tlv_data(value) : v <= UINT8_MAX}

get_string_from_tlv_data(value, min_length, out_size) ==
  /\ \A i \in DOMAIN value : value[i] # 0
  /\ Len(value) >= min_length
  /\ Len(value) + 1 <= out_size

STRING_SIZE == 3

Handlers ==
  [t \in {1, 2} |-> [func |-> IF t = 1 THEN "uint8" ELSE "string", is_unique |-> t = 1]]

find_handler(tag) == tag \in DOMAIN Handlers

HandlerAccepts(tag, value) ==
  CASE Handlers[tag].func = "uint8"  -> get_uint8_t_from_tlv_data(value) # {}
    [] Handlers[tag].func = "string" -> get_string_from_tlv_data(value, 0, STRING_SIZE)

-----------------------------------------------------------------------------
(***************************************************************************)
(* The parser.  get_der_value_as_uint32 gives the set of the values read   *)
(* with the offset after them: empty when it fails.                        *)
(***************************************************************************)

get_der_value_as_uint32(offset) ==
  LET n == Byte(offset) % DER_LONG_FORM_FLAG IN
  IF Byte(offset) < DER_LONG_FORM_FLAG
  THEN {[value |-> Byte(offset), offset |-> offset + 1]}
  ELSE IF offset + 1 + n <= Len(tlvPayload) /\ n \in 1 .. 4
       THEN {[value |-> BigEndian(ByteRange(offset + 1, n)), offset |-> offset + 1 + n]}
       ELSE {}

get_der_value_as_uint16(offset) ==
  {r \in get_der_value_as_uint32(offset) : r.value <= UINT16_MAX}

TlvInit ==
  /\ tlvPayload \in BoundedSeq(TlvBytes, MaxPayload)
  /\ tlv = [step |-> "TLV_TAG", offset |-> 0, tag |-> 0, start |-> 0, size |-> 0,
            flags |-> {}, handled |-> <<>>, result |-> "running"]

\* The condition of the parser's loop: a last field of length 0 is handled
\* although no byte is left.  The slip stops at the last byte.
MoreToParse_Slip == tlv.offset < Len(tlvPayload)

MoreToParse ==
  \/ tlv.offset < Len(tlvPayload)
  \/ tlv.step = "TLV_VALUE" /\ tlv.size = 0

ParseFailed == tlv' = [tlv EXCEPT !.result = "failed"]

TlvTag ==
  /\ tlv.result = "running" /\ MoreToParse /\ tlv.step = "TLV_TAG"
  /\ \/ \E r \in get_der_value_as_uint32(tlv.offset) :
          /\ find_handler(r.value)
          /\ tlv' = [tlv EXCEPT !.step = "TLV_LENGTH", !.start = tlv.offset,
                                !.offset = r.offset, !.tag = r.value]
     \/ /\ \A r \in get_der_value_as_uint32(tlv.offset) : ~find_handler(r.value)
        /\ ParseFailed
  /\ UNCHANGED tlvPayload

TlvLength ==
  /\ tlv.result = "running" /\ MoreToParse /\ tlv.step = "TLV_LENGTH"
  /\ \/ \E r \in get_der_value_as_uint16(tlv.offset) :
          tlv' = [tlv EXCEPT !.step = "TLV_VALUE", !.offset = r.offset, !.size = r.value]
     \/ get_der_value_as_uint16(tlv.offset) = {} /\ ParseFailed
  /\ UNCHANGED tlvPayload

\* The unicity is checked before the handler is called, and the tag flagged
\* after it.
TlvValue ==
  /\ tlv.result = "running" /\ MoreToParse /\ tlv.step = "TLV_VALUE"
  /\ LET end   == tlv.offset + tlv.size
         fits  == end <= Len(tlvPayload)
         value == ByteRange(tlv.offset, tlv.size)
         dup   == Handlers[tlv.tag].is_unique /\ tlv.tag \in tlv.flags
     IN \/ /\ fits /\ ~dup /\ HandlerAccepts(tlv.tag, value)
           /\ tlv' = [tlv EXCEPT !.step = "TLV_TAG", !.offset = end,
                        !.flags = @ \cup {tlv.tag},
                        !.handled = Append(@, [tag   |-> tlv.tag,
                                               value |-> value,
                                               raw   |-> ByteRange(tlv.start, end - tlv.start)])]
        \/ ~(fits /\ ~dup /\ HandlerAccepts(tlv.tag, value)) /\ ParseFailed
  /\ UNCHANGED tlvPayload

TlvEnd ==
  /\ tlv.result = "running" /\ ~MoreToParse
  /\ tlv' = [tlv EXCEPT !.result =
               IF tlv.step = "TLV_TAG" /\ tlv.offset = Len(tlvPayload)
               THEN "parsed" ELSE "failed"]
  /\ UNCHANGED tlvPayload

TlvNext == TlvTag \/ TlvLength \/ TlvValue \/ TlvEnd

TlvSpec == TlvInit /\ [][TlvNext]_tlvVars

-----------------------------------------------------------------------------
(***************************************************************************)
(* The reference: a payload is the concatenation of fields, a field the    *)
(* encoding of its tag, of its value's length and its value.               *)
(***************************************************************************)

\* The ways DER and its long form allow a number to be written.
Digits(v, n) == [i \in 1 .. n |-> (v \div 256 ^ (n - i)) % 256]

Encodings(v) ==
  {<<n>> : n \in {v} \cap 0 .. 127}
    \cup {<<128 + n>> \o Digits(v, n) : n \in {k \in 1 .. 3 : v < 256 ^ k}}

FieldStrings(tag, value) ==
  {t \o l \o value : t \in Encodings(tag), l \in Encodings(Len(value))}

FieldWellFormed(field) ==
  /\ HandlerAccepts(field.tag, field.value)
  /\ field.raw \in FieldStrings(field.tag, field.value)

\* Every field that can stand in a payload, and their lists.
AllFields ==
  {f \in UNION {{[tag |-> t, value |-> v, raw |-> r] : r \in FieldStrings(t, v)} :
                 t \in DOMAIN Handlers, v \in BoundedSeq(TlvBytes, MaxPayload - 2)} :
     FieldWellFormed(f) /\ Len(f.raw) <= MaxPayload}

Raws(fields) == FoldLeft(LAMBDA acc, f : acc \o f.raw, <<>>, fields)

NoDuplicate(fields) ==
  \A i, j \in DOMAIN fields :
    i # j /\ fields[i].tag = fields[j].tag => ~Handlers[fields[i].tag].is_unique

GoodPayloads ==
  {Raws(fs) : fs \in {l \in BoundedSeq(AllFields, MaxPayload \div 2) : NoDuplicate(l)}}

\* _parse_tlv_internal reads no byte outside the payload, and when it ends it
\* has accepted exactly the payloads that are lists of well-formed fields,
\* no unique tag twice, after handing each field once, in order, to its
\* handler, with the raw bytes that the hash of a signed payload covers.
TlvExact ==
  /\ tlv.offset \in 0 .. Len(tlvPayload)
  /\ tlv.result = "parsed" =>
       /\ Raws(tlv.handled) = tlvPayload
       /\ NoDuplicate(tlv.handled)
       /\ \A i \in DOMAIN tlv.handled : FieldWellFormed(tlv.handled[i])
  /\ tlv.result = "failed" => tlvPayload \notin GoodPayloads

=============================================================================
