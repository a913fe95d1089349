------------------------------ MODULE OsPrintf ------------------------------
(***************************************************************************)
(* snprintf and strlcpy_utf8 (src/os_printf.c).  A text is a sequence of   *)
(* bytes of three kinds: 0 .. 99 stands for one character, 200 + n begins  *)
(* a character of n bytes and 100 continues it.  A format is a sequence of *)
(* directives, each with the text d.lit in front of it.  An unsigned long  *)
(* is a number below WordMod.                                              *)
(***************************************************************************)
EXTENDS Integers, Sequences, SequencesExt

CONSTANTS
    PCBUF_SIZE,
    WordMod,
    Formats,         \* sequences of directives
    Sources,         \* the texts given to strlcpy_utf8
    StrSizes

VARIABLE print       \* [what, in, size]

printVars == <<print>>

FILL == 50           \* a space
MINUS_SIGN == 51

-----------------------------------------------------------------------------
(* UTF-8 *)

\* find_invalid_trailing_bytes: how many bytes at the end of data begin a
\* character that does not end there
Continues(data, from) == \A i \in from .. Len(data) : data[i] = 100
LeadAt(data) == {i \in 1 .. Len(data) : data[i] >= 200 /\ Continues(data, i + 1)}
find_invalid_trailing_bytes(data) ==
    IF LeadAt(data) = {} THEN 0
    ELSE (LET i == CHOOSE i \in LeadAt(data) : TRUE
          IN IF data[i] - 200 > Len(data) - i + 1 THEN Len(data) - i + 1 ELSE 0)
WholeCharacters(data) == SubSeq(data, 1, Len(data) - find_invalid_trailing_bytes(data))

CutAt(data, n) == SubSeq(data, 1, IF n < Len(data) THEN n ELSE Len(data))

\* strlcpy_utf8: the text copied and the length of the source
strlcpy_utf8(src, dstlen) ==
    [text |-> IF dstlen = 0 THEN <<>> ELSE WholeCharacters(CutAt(src, dstlen - 1)), len |-> Len(src)]

-----------------------------------------------------------------------------
(* The output: ctx is [str, room, written, ok]                             *)

\* sprintf_output
OutputOf(ctx, data, whole, taken) ==
    [ctx EXCEPT !.written = @ + Len(data), !.str = @ \o whole, !.room = @ - taken]
sprintf_output(ctx, data) ==
    IF ctx.room = 0 THEN [ctx EXCEPT !.written = @ + Len(data)]
    ELSE OutputOf(ctx, data, WholeCharacters(CutAt(data, ctx.room)), Len(CutAt(data, ctx.room)))

\* pcBuf is written out each time it is full and something else is to come.
NbFlushes(s) == (Len(s) + PCBUF_SIZE - 1) \div PCBUF_SIZE
Flushed(ctx, s) ==
    FoldLeft(LAMBDA c, k : sprintf_output(c, CutAt(SubSeq(s, (k - 1) * PCBUF_SIZE + 1, Len(s)), PCBUF_SIZE)),
             ctx, [k \in 1 .. NbFlushes(s) |-> k])

-----------------------------------------------------------------------------
(* Numbers *)

\* The highest power of the base in the value; a product that wraps around ends
\* the search.
RECURSIVE HighestPower(_, _, _)
HighestPower(idx, base, value) ==
    IF (idx * base) % WordMod <= value /\ ((idx * base) % WordMod) \div base = idx
    THEN HighestPower((idx * base) % WordMod, base, value) ELSE idx
RECURSIVE DigitsFrom(_, _, _)
DigitsFrom(idx, base, value) ==
    IF idx = 0 THEN <<>> ELSE <<(value \div idx) % base>> \o DigitsFrom(idx \div base, base, value)

\* apply_padding_output: the sign before the zeros, or after the spaces
Repeat(c, n) == [i \in 1 .. (IF n > 0 THEN n ELSE 0) |-> c]
NumberText(digits, neg, width, fill) ==
    LET sign == IF neg THEN <<MINUS_SIGN>> ELSE <<>>
        padding == Repeat(fill, width - Len(digits) - Len(sign))
    IN IF fill = 0 THEN sign \o padding \o digits ELSE padding \o sign \o digits

Hex(data) == FlattenSeq([i \in 1 .. Len(data) |-> <<data[i] \div 16, data[i] % 16>>])

-----------------------------------------------------------------------------
(* vformat_internal: a directive after the other, until one is not known   *)

\* The text of a directive.  A width pads a string on its right, but not one
\* written in hexadecimal; "%*s" is spaces instead of an empty string: as many
\* as asked for, and again those that exceed the text before the directive.
Converted(d) ==
    CASE d.op = "end" -> <<>>
      [] d.op = "c" -> CutAt(d.text, 1)
      [] d.op \in {"d", "u"} -> NumberText(DigitsFrom(HighestPower(1, 10, d.value), 10, d.value), d.neg, d.width, d.fill)
      [] d.op = "x" -> NumberText(DigitsFrom(HighestPower(1, 16, d.value), 16, d.value), FALSE, d.width, d.fill)
      [] d.op = "s" -> d.text
      [] d.op = ".*s" -> CutAt(d.text, d.n)
      [] d.op = ".*H" -> Hex(CutAt(d.text, d.n))
      [] d.op = "*s" -> Repeat(FILL, d.n) \o Repeat(FILL, d.n - Len(d.lit))
Known(d) ==
    /\ d.op \in {"end", "c", "d", "u", "x", "s", ".*s", ".*H", "*s"}
    /\ d.op = "*s" => d.text = <<>>

\* What is written at once, character after character, or through pcBuf.
Filler(ctx, d) ==
    FoldLeft(LAMBDA c, i : sprintf_output(c, <<FILL>>), ctx,
             Repeat(FILL, d.width - Len(Converted(d))))
Directive(ctx, d) ==
    IF d.op \in {"d", "u", "x", ".*H"} THEN Flushed(ctx, Converted(d))
    ELSE IF d.op \in {"s", ".*s"} THEN Filler(sprintf_output(ctx, Converted(d)), d)
    ELSE IF d.op = "*s" THEN FoldLeft(LAMBDA c, x : sprintf_output(c, <<x>>), ctx, Converted(d))
    ELSE sprintf_output(ctx, Converted(d))
Literal(ctx, d) == IF d.lit = <<>> THEN ctx ELSE sprintf_output(ctx, d.lit)
vformat_internal(ctx, format) ==
    FoldLeft(LAMBDA c, d : IF ~c.ok THEN c
                           ELSE IF Known(d) THEN Directive(Literal(c, d), d)
                           ELSE [Literal(c, d) EXCEPT !.ok = FALSE],
             ctx, format)

\* snprintf: the text, and the length it would have had with room enough
snprintf(format, str_size) ==
    vformat_internal([str |-> <<>>, room |-> str_size - 1, written |-> 0, ok |-> TRUE], format)

-----------------------------------------------------------------------------

PrintInit == print = [what |-> "none"]

PrintFormat == print.what = "none" /\ \E f \in Formats, n \in StrSizes \ {0} :
    print' = [what |-> "snprintf", in |-> f, size |-> n]
PrintCopy == print.what = "none" /\ \E s \in Sources, n \in StrSizes :
    print' = [what |-> "strlcpy", in |-> s, size |-> n]

PrintNext == PrintFormat \/ PrintCopy

PrintSpec == PrintInit /\ [][PrintNext]_printVars

-----------------------------------------------------------------------------
(* Properties *)

\* No character of a text is cut: a byte that begins one is followed by the
\* others.
NoneCut(s) == \A i \in DOMAIN s :
    s[i] >= 200 => Len(s) >= i + s[i] - 201 /\ \A k \in 1 .. s[i] - 201 : s[i + k] = 100

\* The whole text of a format, up to a directive that is not known, each part
\* without the beginning of a character it ends with.
RECURSIVE DecimalValue(_, _)
DecimalValue(digits, base) ==
    IF digits = <<>> THEN 0 ELSE DecimalValue(Front(digits), base) * base + Last(digits)
PartOf(d) ==
    d.lit \o (IF ~Known(d) THEN <<>>
              ELSE IF d.op \in {"s", ".*s"}
              THEN WholeCharacters(Converted(d)) \o Repeat(FILL, d.width - Len(Converted(d)))
              ELSE Converted(d))
NbKnown(f) == CHOOSE n \in 0 .. Len(f) : (\A i \in 1 .. n : Known(f[i])) /\ (n < Len(f) => ~Known(f[n + 1]))
TextOf(f) == FlattenSeq([i \in 1 .. (IF NbKnown(f) < Len(f) THEN NbKnown(f) + 1 ELSE Len(f)) |-> PartOf(f[i])])

\* A format whose strings are not cut inside a character by their precision.
Clean(f) == \A i \in 1 .. NbKnown(f) : WholeCharacters(Converted(f[i])) = Converted(f[i])


=============================================================================
