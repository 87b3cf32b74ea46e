----------------------------- MODULE FramedRing -----------------------------
(***************************************************************************)
(* Length-prefixed frames through a circular buffer (skeletons/circ.h).    *)
(* The caller reads what a descriptor has into the ring with               *)
(* framed_io_read or feed_fd, and takes frames out with framed_buf_read    *)
(* (one at a time) or framed_read_delim (as many as fit, each followed by  *)
(* a newline); copy_complete_messages copies without consuming.            *)
(*                                                                         *)
(* head is where the next byte is written, tail where the next one is      *)
(* read.  The peer writes whole frames; read(2) returns any part of them.  *)
(***************************************************************************)
EXTENDS Integers, Sequences

CONSTANTS
  Capacity,    \* size of the ring
  Base,        \* 2^8: a byte is in 0 .. Base - 1, a length has two of them
  Payloads,    \* the payloads the peer sends
  MaxFrames,   \* bound: the frames the peer sends
  OutCap       \* output_capacity

Byte == 0 .. Base - 1

ASSUME FramedRingAssumption ==
  /\ Capacity \in Nat \ {0, 1}
  /\ Base \in Nat \ {0, 1}
  /\ \A p \in Payloads : p \in Seq(Byte) /\ Len(p) < Base * Base
  /\ MaxFrames \in Nat /\ OutCap \in Nat

\* For TLC: an empty payload, one that looks like a header, and one that fills
\* the output.
SamplePayloads == {<<>>, <<1>>, <<0, 1>>}

VARIABLES
  feeder,               \* the call that fills the ring: "framed_io_read", "feed_fd"
  taker,                \* the call that empties it: "framed_buf_read",
                        \* "framed_read_delim"; a program uses one of each
  buffer, head, tail,   \* the ring
  wire,                 \* the bytes sent and not yet read from the descriptor
  sent,                 \* history: the payloads sent
  ends,                 \* history: the bytes sent up to the end of each of them
  got,                  \* history: the payloads taken out
  used,                 \* output_pos: the length of the last output
  loop,                 \* the loop the caller is in: of framed_read_delim
                        \* ("delim"), of copy_complete_messages ("copy")
  copied,               \* contiguous_bytes of the latter
  size,                 \* its argument: what the caller says the ring holds
  brimmed               \* history: a read has filled the ring completely

calls == <<feeder, taker>>
ring == <<buffer, head, tail>>
peer == <<sent, ends>>
vars == <<calls, ring, peer, wire, got, used, loop, copied, size, brimmed>>

Init ==
  /\ buffer = [i \in 0 .. Capacity - 1 |-> 0] /\ head = 0 /\ tail = 0
  /\ wire = <<>> /\ sent = <<>> /\ ends = <<>> /\ got = <<>> /\ used = 0
  /\ loop = "none" /\ copied = 0 /\ size = 0 /\ brimmed = FALSE
  /\ feeder \in {"framed_io_read", "feed_fd"}
  /\ taker \in {"framed_buf_read", "framed_read_delim"}

\* The frame of a payload: its length, high byte first, and its bytes.
Frame(p) == <<Len(p) \div Base, Len(p) % Base>> \o p

\* The bytes sent up to the end of the k-th frame.
End(k) == IF k = 0 THEN 0 ELSE ends[k]

\* The peer sends a frame.
Send(p) ==
  /\ Len(sent) < MaxFrames
  /\ sent' = Append(sent, p) /\ wire' = wire \o Frame(p)
  /\ ends' = Append(ends, End(Len(sent)) + 2 + Len(p))
  /\ UNCHANGED <<calls, ring, got, used, loop, copied, size, brimmed>>

-----------------------------------------------------------------------------
(* Filling the ring                                                        *)

\* The room in the ring; one byte stays free to tell full from empty.
FreeSpace ==
  IF tail <= head THEN Capacity - head + tail - 1 ELSE tail - head - 1

\* What framed_io_read asks read(2) for: no further than the end of the array.
IoReadRequest ==
  IF FreeSpace < Capacity - head THEN FreeSpace ELSE Capacity - head

CircAvail(start, end, len) == IF end >= start THEN end - start ELSE len - start + end
CircSpace(start, end, len) == len - 1 - CircAvail(start, end, len)

\* (Mutant of FeedRequest: the ring is filled behind the reader as well.)
FeedRequest_ToReader ==
  IF CircSpace(tail, head, Capacity) = 0 THEN 0
  ELSE IF head >= tail THEN Capacity - head ELSE tail - head

\* What feed_fd asks read(2) for; nothing if the ring has no space.
FeedRequest ==
  IF CircSpace(tail, head, Capacity) = 0 THEN 0
  ELSE IF head >= tail THEN Capacity - head ELSE tail - head - 1

Request == IF feeder = "feed_fd" THEN FeedRequest ELSE IoReadRequest

Advance(i, n) == (i + n) % Capacity

\* read(2) returned n bytes, which are stored at head.
Fill(n) ==
  /\ loop = "none" /\ n <= Request /\ n <= Len(wire)
  /\ buffer' = [i \in DOMAIN buffer |->
                  IF i \in head .. head + n - 1 THEN wire[i - head + 1] ELSE buffer[i]]
  /\ head' = Advance(head, n)
  /\ wire' = SubSeq(wire, n + 1, Len(wire))
  /\ brimmed' = (brimmed \/ head' = tail)
  /\ UNCHANGED <<calls, tail, peer, got, used, loop, copied, size>>

-----------------------------------------------------------------------------
(* Taking frames out                                                       *)

\* The bytes between a read position and head, and the length stored there.
AvailableData(at) == IF head >= at THEN head - at ELSE Capacity - at + head
Length(at) == buffer[at] * Base + buffer[(at + 1) % Capacity]

\* (Mutants of Complete: the header is left out of the sum; a byte too many.)
Complete_NoHeader(at) == AvailableData(at) >= 2 /\ AvailableData(at) >= Length(at)
Complete_Strict(at) == AvailableData(at) >= 2 /\ AvailableData(at) > 2 + Length(at)

\* A whole frame starts at a read position.
Complete(at) == AvailableData(at) >= 2 /\ AvailableData(at) >= 2 + Length(at)

\* The payload of the frame at a read position, and the position after it.
PayloadAt(at) == [i \in 1 .. Length(at) |-> buffer[(at + 1 + i) % Capacity]]
After(at) == Advance(at, 2 + Length(at))

\* framed_buf_read: one frame.  A longer one than the output stays where it is.
FramedBufRead ==
  /\ taker = "framed_buf_read" /\ loop = "none"
  /\ Complete(tail) /\ Length(tail) <= OutCap
  /\ got' = Append(got, PayloadAt(tail)) /\ used' = Length(tail)
  /\ tail' = After(tail)
  /\ UNCHANGED <<calls, buffer, head, peer, wire, loop, copied, size, brimmed>>

\* (Mutant of FitsDelimited: no room is kept for the newline.)
FitsDelimited_NoNewline(pos, at) == pos + Length(at) <= OutCap

\* The frame and its newline fit behind the output so far.
FitsDelimited(pos, at) == pos + Length(at) + 1 <= OutCap

\* framed_read_delim: the loop copies frames while the next one is complete and
\* fits, and returns the length of its output.
DelimBegin ==
  /\ taker = "framed_read_delim" /\ loop = "none"
  /\ tail # head
  /\ loop' = "delim" /\ used' = 0
  /\ UNCHANGED <<calls, ring, peer, wire, got, copied, size, brimmed>>

DelimRound ==
  /\ loop = "delim" /\ Complete(tail) /\ FitsDelimited(used, tail)
  /\ got' = Append(got, PayloadAt(tail)) /\ used' = used + Length(tail) + 1
  /\ tail' = After(tail)
  /\ UNCHANGED <<calls, buffer, head, peer, wire, loop, copied, size, brimmed>>

DelimReturn ==
  /\ loop = "delim" /\ ~(Complete(tail) /\ FitsDelimited(used, tail))
  /\ loop' = "none"
  /\ UNCHANGED <<calls, ring, peer, wire, got, used, copied, size, brimmed>>

Take == FramedBufRead \/ DelimBegin \/ DelimRound \/ DelimReturn

-----------------------------------------------------------------------------
(* copy_complete_messages                                                  *)

PowerOfTwo == \E e \in 0 .. Capacity : 2 ^ e = Capacity

\* What there is to copy: between equal indices, the whole ring or nothing.
BytesAvailable ==
  IF head = tail THEN IF size > 0 THEN Capacity ELSE 0 ELSE AvailableData(tail)

\* What the loop has not looked at yet, and where that begins.
Remaining == BytesAvailable - copied
CurrPos == Advance(tail, copied)

\* (Mutant of More: a frame counts as soon as its payload is covered.)
More_NoHeader == Remaining >= 2 /\ Remaining >= Length(CurrPos)

\* Another whole frame follows.
More == Remaining >= 2 /\ Remaining >= Length(CurrPos) + 2

\* A capacity that is a power of two is refused with -1.  The caller counts
\* what it put into the ring and took out: between equal indices that is
\* nothing, unless the ring has been filled to its last byte.
CopyBegin ==
  /\ loop = "none" /\ ~PowerOfTwo
  /\ loop' = "copy" /\ copied' = 0
  /\ size' \in IF head # tail THEN {AvailableData(tail)}
              ELSE IF brimmed THEN {0, Capacity} ELSE {0}
  /\ UNCHANGED <<calls, ring, peer, wire, got, used, brimmed>>

CopyRound ==
  /\ loop = "copy" /\ More
  /\ copied' = copied + Length(CurrPos) + 2
  /\ UNCHANGED <<calls, ring, peer, wire, got, used, loop, size, brimmed>>

\* Both chunks are copied, and the ring is left as it is.
CopyReturn ==
  /\ loop = "copy" /\ ~More
  /\ loop' = "none" /\ copied' = 0 /\ size' = 0
  /\ UNCHANGED <<calls, ring, peer, wire, got, used, brimmed>>

FirstChunk == IF head > tail \/ copied < Capacity - tail THEN copied ELSE Capacity - tail

\* The bytes that the two calls of memcpy put out: up to the end of the array,
\* and from its start.
CopyOut(i) == IF i <= FirstChunk THEN buffer[tail + i - 1] ELSE buffer[i - FirstChunk - 1]

Copy == CopyBegin \/ CopyRound \/ CopyReturn

-----------------------------------------------------------------------------
Next ==
  \/ \E p \in Payloads : Send(p)
  \/ \E n \in 1 .. Capacity : Fill(n)
  \/ Take
  \/ Copy

Spec == Init /\ [][Next]_vars

\* The caller alternates between reading and taking: no call is put off for ever
\* by the others, and one that was made returns.
FairSpec ==
  /\ Spec /\ SF_vars(\E n \in 1 .. Capacity : Fill(n)) /\ SF_vars(Take)
  /\ WF_vars(CopyRound \/ CopyReturn)

-----------------------------------------------------------------------------
(* Properties                                                              *)

\* used and copied are bounded: no call writes past the end of the caller's
\* output, and a copy is no longer than what the ring holds.
TypeOK ==
  /\ feeder \in {"framed_io_read", "feed_fd"} /\ brimmed \in BOOLEAN
  /\ taker \in {"framed_buf_read", "framed_read_delim"}
  /\ buffer \in [0 .. Capacity - 1 -> Byte]
  /\ head \in 0 .. Capacity - 1 /\ tail \in 0 .. Capacity - 1
  /\ wire \in Seq(Byte)
  /\ sent \in Seq(Payloads) /\ ends \in Seq(Nat)
  /\ got \in Seq(Seq(Byte)) /\ used \in 0 .. OutCap
  /\ loop \in {"none", "delim", "copy"}
  /\ size \in 0 .. Capacity /\ copied \in 0 .. BytesAvailable

\* The frames sent lie end to end in the stream.
Laid ==
  /\ Len(ends) = Len(sent)
  /\ \A k \in 1 .. Len(sent) : End(k) = End(k - 1) + 2 + Len(sent[k])

\* Frames come out whole, unaltered and in the order in which they were sent,
\* however read(2) cut them and wherever they wrap around the array.
InStep == Len(got) <= Len(sent) /\ \A k \in 1 .. Len(got) : got[k] = sent[k]

\* Where the k-th frame begins behind the reader, and the i-th byte behind the
\* reader: those in the ring come first, then those in the descriptor.
Offset(k) == End(k - 1) - End(Len(got))
Held(i) ==
  IF i <= AvailableData(tail) THEN buffer[(tail + i - 1) % Capacity]
  ELSE wire[i - AvailableData(tail)]

\* Nothing is lost or overwritten, and framing is kept: the ring, then the
\* descriptor, hold exactly the frames that were sent and have not been taken
\* out, unless feed_fd has filled the ring to the last byte.
Conserved ==
  /\ Laid
  /\ brimmed \/
       /\ InStep
       /\ AvailableData(tail) + Len(wire) = Offset(Len(sent) + 1)
       /\ \A k \in Len(got) + 1 .. Len(sent) :
            \A i \in 1 .. 2 + Len(sent[k]) : Held(Offset(k) + i) = Frame(sent[k])[i]

\* copy_complete_messages copies the first frames of those in the ring, byte by
\* byte; when it returns, all that are wholly there, and nothing else.
CopyIsWholeFrames ==
  brimmed \/ loop # "copy" \/
    \E m \in Len(got) .. Len(sent) :
      /\ copied = Offset(m + 1)
      /\ \A k \in Len(got) + 1 .. m :
           \A i \in 1 .. 2 + Len(sent[k]) : CopyOut(Offset(k) + i) = Frame(sent[k])[i]
      /\ ~More => m = Len(sent) \/ Offset(m + 2) > AvailableData(tail)

\* Framing is kept: the bytes in the ring are those of the frames not yet taken,
\* and whoever copies frames out of it gets whole ones.
FramesKept == TypeOK /\ Conserved /\ CopyIsWholeFrames

\* A ring is filled to its last byte, and so looks empty and forgets what is in
\* it, only by feed_fd, and only when the reader stands at the start of the array.
BrimsOnlyAtOrigin ==
  [][head' # head /\ head' = tail => feeder = "feed_fd" /\ tail = 0]_vars

\* A frame that fits the ring and the output is delivered, down to the last byte
\* of either.
Deliverable(p) ==
  /\ Len(p) + 2 <= Capacity - 1
  /\ Len(p) + (IF taker = "framed_read_delim" THEN 1 ELSE 0) <= OutCap
Delivered ==
  (\A p \in Payloads : Deliverable(p)) =>
    \A k \in 1 .. MaxFrames : Len(sent) >= k ~> (Len(got) >= k \/ brimmed)
=============================================================================
