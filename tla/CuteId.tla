------------------------------- MODULE CuteId -------------------------------
(***************************************************************************)
(* cuteid (cutils/cuteid): entity fields packed into a version 8 uuid, and *)
(* the text of a uuid.  A number is the sequence of its bits, the most     *)
(* significant one first, so that every width is the one of the code; a    *)
(* uuid is a sequence of sixteen bytes.                                    *)
(***************************************************************************)
EXTENDS HexText

Blanks == {" ", "\t"}
AnyBlanks == {" ", "\t", "\r", "\n"}
BufSize == 64    \* of read_uuid_arg

Low(bits, n) == SubSeq(bits, Len(bits) - n + 1, Len(bits))
Zeros(n) == [i \in 1 .. n |-> 0]

ByteFromBits(b) == FoldLeft(LAMBDA n, bit : 2 * n + bit, 0, b)
BitsOfByte(n) == [i \in 1 .. 8 |-> (n \div (2 ^ (8 - i))) % 2]

\* (Mutant of CuteidEncode: the schema as a whole in the first region.)
CuteidEncode_Schema(f) ==
  LET bits == Low(f.start_time, 42) \o Low(f.server_id, 4) \o Low(f.schema, 2)
              \o <<1, 0, 0, 0>> \o Low(f.schema, 2) \o Zeros(8) \o SubSeq(f.process_handle, 1, 2)
              \o <<1, 0>> \o Low(f.process_handle, 30) \o f.alert_handle
  IN  [i \in 1 .. 16 |-> ByteFromBits(SubSeq(bits, 8 * i - 7, 8 * i))]

\* cuteid_encode: the regions a, b and c between version and variant.
CuteidEncode(f) ==
  LET sch == Low(f.schema, 4)
      a == Low(f.start_time, 42) \o Low(f.server_id, 4) \o SubSeq(sch, 1, 2)
      b == SubSeq(sch, 3, 4) \o Zeros(8) \o SubSeq(f.process_handle, 1, 2)
      c == Low(f.process_handle, 30) \o f.alert_handle
      bits == a \o <<1, 0, 0, 0>> \o b \o <<1, 0>> \o c
  IN  [i \in 1 .. 16 |-> ByteFromBits(SubSeq(bits, 8 * i - 7, 8 * i))]

CuteidDecode(u) ==
  LET bits == FlattenSeq([i \in 1 .. 16 |-> BitsOfByte(u[i])])
      a == SubSeq(bits, 1, 48)
      b == SubSeq(bits, 53, 64)
      c == SubSeq(bits, 67, 128)
  IN  [start_time |-> SubSeq(a, 1, 42), server_id |-> SubSeq(a, 43, 46),
       schema |-> Low(a, 2) \o SubSeq(b, 1, 2),
       process_handle |-> Low(b, 2) \o SubSeq(c, 1, 30), alert_handle |-> Low(c, 32)]

UuidVersion(u) == u[7] \div 16

\* 0 is ncs, 1 rfc9562, 2 microsoft, 3 future.
UuidVariant(u) ==
  CASE u[9] < 128 -> 0 [] u[9] \in 128 .. 191 -> 1 [] u[9] \in 192 .. 223 -> 2 [] OTHER -> 3

UuidFormat(u, hyphens) ==
  FlattenSeq([i \in 1 .. 16 |->
    Digits(Lower, u[i]) \o IF hyphens /\ i \in {4, 6, 8, 10} THEN <<"-">> ELSE <<>>])

\* uuid_parse, in a form where rest[i] is what its loop makes of the text from
\* its i-th character on: hyphens may stand anywhere but within a byte.
UuidParse(text) ==
  LET solid == {i \in DOMAIN text : text[i] \notin Blanks}
      s == IF solid = {} THEN <<>> ELSE SubSeq(text, Min(solid), Len(text))
      rest[i \in 1 .. Len(s) + 2, n \in 0 .. 16] ==   \* n bytes are still missing
        IF n = 0 THEN [ok |-> ToSet(SubSeq(s, i, Len(s))) \subseteq AnyBlanks, u |-> <<>>]
        ELSE IF i > Len(s) THEN [ok |-> FALSE, u |-> <<>>]
        ELSE IF s[i] = "-" THEN rest[i + 1, n]
        ELSE IF i = Len(s) \/ ~IsDigit(s[i]) \/ ~IsDigit(s[i + 1])
          THEN [ok |-> FALSE, u |-> <<>>]
        ELSE [rest[i + 2, n - 1] EXCEPT !.u = <<ByteOf(s[i], s[i + 1])>> \o @]
  IN  rest[1, 16]

\* read_uuid_arg: an argument that is too long is refused, of stdin as much as
\* fits the buffer is read, once.
ReadUuidArg(text, stdin) ==
  IF stdin THEN IF text = <<>> THEN [ok |-> FALSE, u |-> <<>>]
                ELSE UuidParse(SubSeq(text, 1, Min({Len(text), BufSize - 1})))
  ELSE IF Len(text) >= BufSize THEN [ok |-> FALSE, u |-> <<>>] ELSE UuidParse(text)

-----------------------------------------------------------------------------
(* The commands.  strtoul and the decimal output are left out: a number is  *)
(* given and shown by its bits, the time of encode by the bits of its       *)
(* seconds after CUTEID_EPOCH.                                               *)

Failed == [ok |-> FALSE]
BeforeEpoch == <<>>    \* a time that has no such seconds

\* These bits are a number of at most n bits.
Fits(bits, n) == ToSet(SubSeq(bits, 1, Len(bits) - n)) \subseteq {0}

\* A number times 1000 in as many bits; what runs over is lost.
Times1000(bits) ==
  LET n == Len(bits)
      sum[i \in 1 .. n + 1] == IF i > n THEN 0 ELSE 1000 * bits[i] + sum[i + 1] \div 2
  IN  [i \in 1 .. n |-> sum[i] % 2]

\* cmd_encode: server and time are checked, of a handle the low bits are taken.
CmdEncode(server, seconds, process, alert) ==
  LET start_time == Times1000(seconds)
  IN  IF ~Fits(server, 4) \/ seconds = BeforeEpoch \/ ~Fits(start_time, 42) THEN Failed
      ELSE [ok |-> TRUE, text |-> UuidFormat(CuteidEncode(
             [start_time |-> start_time, server_id |-> server, schema |-> Zeros(8),
              process_handle |-> Low(process, 32), alert_handle |-> Low(alert, 32)]), TRUE)]

Entity(f) ==
  [server_id |-> f.server_id, start_time |-> f.start_time, process_handle |-> f.process_handle,
   alert_handle |-> f.alert_handle,
   type |-> IF f.alert_handle = Zeros(32) THEN "process" ELSE "alert"]

CmdDecode(text, stdin) ==
  LET r == ReadUuidArg(text, stdin)
      f == CuteidDecode(r.u)
  IN  IF ~r.ok \/ UuidVersion(r.u) # 8 \/ f.schema # Zeros(4) THEN Failed
      ELSE [ok |-> TRUE, entity |-> Entity(f)]

\* cmd_info shows any uuid, and the entity in it if it may be one of cuteid's.
CmdInfo(text, stdin) ==
  LET r == ReadUuidArg(text, stdin)
      f == CuteidDecode(r.u)
      ours == UuidVersion(r.u) = 8 /\ UuidVariant(r.u) = 1 /\ f.schema = Zeros(4)
  IN  IF ~r.ok THEN Failed
      ELSE [ok |-> TRUE, text |-> UuidFormat(r.u, TRUE), version |-> UuidVersion(r.u),
            variant |-> UuidVariant(r.u), entity |-> IF ours THEN <<Entity(f)>> ELSE <<>>]
=============================================================================
