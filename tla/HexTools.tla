------------------------------ MODULE HexTools ------------------------------
(***************************************************************************)
(* The converters hex, itoh and htoi (cutils/hex).  A number of eight      *)
(* bytes is the sequence of its bytes, the most significant one first.     *)
(* The options of a command are a record; an input from stdin is one       *)
(* record field apart, since hex reads it into a buffer of its own.        *)
(***************************************************************************)
EXTENDS HexText

CONSTANTS
  Limit,   \* the size of the buffer that hex reads stdin into, 1024
  Spaces   \* the characters isspace accepts

NewlineByte == 10
NulByte == 0
NewlineChar == "\n"

Refused == [ok |-> FALSE, out |-> <<>>]
Printed(out) == [ok |-> TRUE, out |-> out]

\* What of s comes before the first of these.
Until(s, stops) ==
  LET at == {i \in DOMAIN s : s[i] \in stops}
  IN  IF at = {} THEN s ELSE SubSeq(s, 1, Min(at) - 1)

\* s without what of these it ends with.
TrimEnd(s, what) ==
  LET keep == {i \in DOMAIN s : s[i] \notin what}
  IN  IF keep = {} THEN <<>> ELSE SubSeq(s, 1, Max(keep))

-----------------------------------------------------------------------------
(* hex                                                                     *)

HexEncodedSize(n, seplen, esclen) == IF n = 0 THEN 0 ELSE n * (2 + esclen) + (n - 1) * seplen

\* hex_encode_delimited; to_alpha_upper chooses the table.
HexEncodeDelimited(bytes, sep, esc, upper) ==
  FlattenSeq([i \in DOMAIN bytes |->
    esc \o Digits(IF upper THEN Upper ELSE Lower, bytes[i])
        \o IF i = Len(bytes) THEN <<>> ELSE sep])

IsValidHexLength(len, seplen, esclen) ==
  /\ len > 0
  /\ (len + seplen) % (esclen + 2 + seplen) = 0

\* (Mutant of HexDecode: one separator too few between two bytes.)
HexDecode_NoSep(text, seplen, esclen) ==
  IF ~IsValidHexLength(Len(text), seplen, esclen) THEN Refused
  ELSE LET step == 2 + esclen IN
       Printed([k \in 1 .. (Len(text) + seplen) \div (step + seplen) |->
         ByteOf(text[(k - 1) * step + esclen + 1], text[(k - 1) * step + esclen + 2])])

\* hex_decode: only the lengths count.  What lies between the bytes is not
\* looked at, and the test for a character that is no digit is never true.
HexDecode(text, seplen, esclen) ==
  IF ~IsValidHexLength(Len(text), seplen, esclen) THEN Refused
  ELSE LET step == 2 + seplen + esclen IN
       Printed([k \in 1 .. (Len(text) + seplen) \div step |->
         ByteOf(text[(k - 1) * step + esclen + 1], text[(k - 1) * step + esclen + 2])])

\* main reads at most Limit - 1 characters of stdin: the loop that should make
\* the buffer larger ends first, since fread is then asked for none.
HexInput(s, stdin) == IF stdin THEN SubSeq(s, 1, Min({Len(s), Limit - 1})) ELSE s

\* main of hex, of bytes to encode or of a text to decode.  strlen ends the
\* input at a NUL, and newlines at its end are dropped unless asked for.
HexMainEncode(bytes, o) ==
  LET all == Until(HexInput(bytes, o.stdin), {NulByte})
      in  == IF o.keep THEN all ELSE TrimEnd(all, {NewlineByte})
  IN  HexEncodeDelimited(in, o.sep, o.esc, o.upper)

HexMainDecode(text, o) ==
  LET all == HexInput(text, o.stdin)
      in  == IF o.keep THEN all ELSE TrimEnd(all, {NewlineChar})
  IN  HexDecode(in, Len(o.sep), Len(o.esc))

-----------------------------------------------------------------------------
(* itoh                                                                    *)

Word == 8

\* get_min_width.  For a big-endian number whose first byte is not zero it
\* comes to shift a 64-bit number by 64, and does not return: width 0.
GetMinWidth(n, le) ==
  LET set == {i \in 1 .. Word : n[i] # 0}
      width == IF set = {} THEN 1 ELSE Word + 1 - Min(set)
  IN  IF width = Word /\ ~le THEN 0 ELSE width

\* encode and print_encoded_bytes: the last bytes of n, or the first ones of n
\* in reverse.
EncodeWord(n, o, width) ==
  LET b == IF o.le THEN SubSeq(Reverse(n), 1, width) ELSE SubSeq(n, Word - width + 1, Word)
  IN  HexEncodeDelimited(b, o.sep, o.esc, FALSE)

\* main of itoh, of a decimal number that strtoull has read.
Itoh(n, o) ==
  LET width == IF o.minw THEN GetMinWidth(n, o.le) ELSE o.width
  IN  IF width = 0 THEN Refused ELSE Printed(EncodeWord(n, o, width))

-----------------------------------------------------------------------------
(* htoi                                                                    *)

\* The loop of next_byte over separators, and over blanks if trim is set.
Skip(s, sep, trim) ==
  LET from[i \in 1 .. Len(s) + 1] ==
        IF sep # <<>> /\ IsPrefix(sep, SubSeq(s, i, Len(s))) THEN from[i + Len(sep)]
        ELSE IF i <= Len(s) /\ trim /\ s[i] \in Spaces THEN from[i + 1]
        ELSE SubSeq(s, i, Len(s))
  IN  from[1]

\* next_byte, until it finds none: what stands at the place of a first digit
\* and is none ends the number, at the place of a second one it is an error.
\* A separator is skipped within a byte too.
Bytes(text, sep, trim) ==
  LET rest[i \in 0 .. Len(text)] ==   \* of the last i characters
        LET s == Skip(SubSeq(text, Len(text) - i + 1, Len(text)), sep, trim)
            t == Skip(Tail(s), sep, trim)
            more == rest[Len(t) - 1]
        IN  IF s = <<>> \/ ~IsDigit(s[1]) THEN Printed(<<>>)
            ELSE IF t = <<>> \/ ~IsDigit(t[1]) \/ ~more.ok THEN Refused
            ELSE Printed(<<ByteOf(s[1], t[1])>> \o more.out)
  IN  rest[Len(text)]

\* main of htoi, of a text on its command line; the option -e is read and never used.
Htoi(text, o) ==
  LET shown == IF o.trim THEN TrimEnd(Reverse(TrimEnd(Reverse(text), Spaces)), Spaces) ELSE text
      bytes == Bytes(shown, o.sep, o.trim)
      value == IF o.le THEN Reverse(bytes.out) ELSE bytes.out
  IN  IF bytes.ok /\ Len(bytes.out) \in 1 .. o.width /\ Len(bytes.out) <= Word
      THEN Printed([i \in 1 .. Word - Len(value) |-> 0] \o value) ELSE Refused
=============================================================================
