-------------------------- MODULE FramedRingProofs --------------------------
(***************************************************************************)
(* Proofs about FramedRing, for every capacity, every set of payloads and  *)
(* every output size: framing is kept however read(2) cuts the frames and  *)
(* wherever they wrap around the array, and the ring looks empty when it   *)
(* is full only where feed_fd fills it behind a reader at index 0.         *)
(***************************************************************************)
EXTENDS FramedRing, SequenceTheorems, TLAPS

\* Nothing is copied outside the loop; in it, the copy ends where a frame does.
\* The caller claims bytes between equal indices only in a ring that was full.
Idle ==
  /\ loop # "copy" => copied = 0 /\ size = 0
  /\ ~brimmed /\ head = tail => size = 0
AtBoundary ==
  brimmed \/ loop # "copy" \/ \E m \in Len(got) .. Len(sent) : copied = Offset(m + 1)

\* Frames sent later end later.
Later == \A j, k \in 0 .. Len(sent) : j < k => End(j) + 2 <= End(k)

IInv == TypeOK /\ Idle /\ Later /\ Conserved /\ AtBoundary

-----------------------------------------------------------------------------
(* Positions in the array                                                  *)

\* An index that goes once past the end of the array starts again.
LEMMA Wrap ==
  ASSUME NEW a \in 0 .. 2 * Capacity - 1
  PROVE  a % Capacity = IF a < Capacity THEN a ELSE a - Capacity
<1>1. Capacity \in Nat \ {0, 1}
  BY FramedRingAssumption
<1>2. CASE a < Capacity
  BY <1>1, <1>2
<1>3. CASE a >= Capacity
  <2>1. a - Capacity \in 0 .. Capacity - 1 /\ a = Capacity * 1 + (a - Capacity)
    BY <1>1, <1>3
  <2>2. QED
    BY <1>1, <1>3, <2>1, SMTT(20)
<1>4. QED
  BY <1>1, <1>2, <1>3

\* However far an index goes, it stays in the array.
LEMMA InArray ==
  ASSUME NEW a \in Nat
  PROVE  a % Capacity \in 0 .. Capacity - 1
BY FramedRingAssumption

\* A copy takes no more than the array holds, and in a ring that was never full
\* it takes what lies between the indices.
LEMMA BytesRange ==
  ASSUME head \in 0 .. Capacity - 1, tail \in 0 .. Capacity - 1
  PROVE  BytesAvailable \in 0 .. Capacity
BY FramedRingAssumption DEF BytesAvailable, AvailableData

LEMMA BytesBetween ==
  ASSUME Idle, ~brimmed, head \in 0 .. Capacity - 1, tail \in 0 .. Capacity - 1
  PROVE  BytesAvailable = AvailableData(tail)
<1>1. head = tail => ~(size > 0) /\ AvailableData(tail) = 0
  BY DEF Idle, AvailableData
<1>2. QED
  BY <1>1 DEF BytesAvailable

\* The ring holds less than its size, and a length that is read is a number.
LEMMA AvailableRange ==
  ASSUME TypeOK
  PROVE  AvailableData(tail) \in 0 .. Capacity - 1
BY FramedRingAssumption DEF TypeOK, AvailableData

LEMMA LengthRange ==
  ASSUME TypeOK, NEW at \in 0 .. Capacity - 1
  PROVE  Length(at) \in Nat
<1>1. (at + 1) % Capacity \in 0 .. Capacity - 1
  BY InArray
<1>2. buffer[at] \in 0 .. Base - 1 /\ buffer[(at + 1) % Capacity] \in 0 .. Base - 1
  BY <1>1 DEF TypeOK, Byte
<1>3. \A a, b \in 0 .. Base - 1 : a * Base + b \in Nat
  BY FramedRingAssumption
<1>4. QED
  BY <1>2, <1>3 DEF Length

\* A frame: two bytes for the length, from which it is read again, and the payload.
LEMMA FrameOf ==
  ASSUME NEW p \in Payloads
  PROVE  /\ p \in Seq(Byte) /\ Len(p) \in Nat
         /\ Frame(p) \in Seq(Byte) /\ Len(Frame(p)) = 2 + Len(p)
         /\ Frame(p)[1] * Base + Frame(p)[2] = Len(p)
         /\ \A i \in 1 .. Len(p) : Frame(p)[2 + i] = p[i]
<1>1. p \in Seq(Byte) /\ Len(p) \in Nat /\ Len(p) < Base * Base
  BY FramedRingAssumption
<1>. DEFINE n == Len(p)
            high == n \div Base
            low == n % Base
<1>2. n = Base * high + low /\ high \in Nat /\ low \in 0 .. Base - 1
  BY <1>1, FramedRingAssumption, SMTT(20)
<1>3. high < Base
  <2>1. n \in Nat /\ n < Base * Base
    BY <1>1
  <2>. HIDE DEF n, high, low
  <2>2. SUFFICES ASSUME high >= Base PROVE FALSE
    BY <1>2, FramedRingAssumption
  <2>3. Base * high >= Base * Base
    BY <1>2, <2>2, FramedRingAssumption, SMTT(20)
  <2>4. QED
    BY <1>2, <2>1, <2>3, FramedRingAssumption, SMTT(20)
<1>4. high \in Byte /\ low \in Byte
  BY <1>2, <1>3, FramedRingAssumption DEF Byte
<1>5. Frame(p) = <<high, low>> \o p
  BY DEF Frame
<1>6. high * Base + low = n
  <2>. HIDE DEF n, high, low
  <2>. QED
    BY <1>2, FramedRingAssumption, SMTT(20)
<1>. HIDE DEF high, low
<1>7. <<high, low>> \in Seq(Byte) /\ Len(<<high, low>>) = 2
  BY <1>4
<1>8. QED
  BY <1>1, <1>4, <1>5, <1>6, <1>7

-----------------------------------------------------------------------------
(* Filling the ring                                                        *)

\* What read(2) is asked for ends at the end of the array, or before the reader;
\* framed_io_read leaves a byte free in both cases.
LEMMA RequestRange ==
  ASSUME TypeOK, NEW n \in 1 .. Capacity, n <= Request
  PROVE  /\ head + n <= Capacity
         /\ tail > head => head + n < tail
         /\ tail <= head /\ feeder # "feed_fd" => head + n < Capacity + tail
<1>1. Capacity \in Nat \ {0, 1} /\ head \in 0 .. Capacity - 1 /\ tail \in 0 .. Capacity - 1
  BY FramedRingAssumption DEF TypeOK
<1>2. CASE feeder = "feed_fd"
  BY <1>1, <1>2 DEF Request, FeedRequest, CircSpace, CircAvail
<1>3. CASE feeder # "feed_fd"
  BY <1>1, <1>3 DEF Request, IoReadRequest, FreeSpace
<1>4. QED
  BY <1>2, <1>3

\* Where head goes.
LEMMA FillHead ==
  ASSUME TypeOK, NEW n \in 1 .. Capacity, Fill(n)
  PROVE  head' = IF head + n < Capacity THEN head + n ELSE 0
<1>1. head + n \in 0 .. 2 * Capacity - 1 /\ head + n <= Capacity
  BY RequestRange, FramedRingAssumption DEF TypeOK, Fill
<1>. DEFINE a == head + n
<1>2. head' = a % Capacity
  BY DEF Fill, Advance
<1>. HIDE DEF a
<1>3. a % Capacity = IF a < Capacity THEN a ELSE a - Capacity
  BY <1>1, Wrap DEF a
<1>4. QED
  BY <1>1, <1>2, <1>3, FramedRingAssumption DEF a, TypeOK

\* A ring that is filled to the last byte was filled by feed_fd behind a reader at
\* the start of the array.
LEMMA FillBrims ==
  ASSUME TypeOK, NEW n \in 1 .. Capacity, Fill(n), head' = tail
  PROVE  feeder = "feed_fd" /\ tail = 0
<1>1. n <= Request
  BY DEF Fill
<1>2. /\ head + n <= Capacity
      /\ tail > head => head + n < tail
      /\ tail <= head /\ feeder # "feed_fd" => head + n < Capacity + tail
  BY <1>1, RequestRange
<1>3. head' = IF head + n < Capacity THEN head + n ELSE 0
  BY FillHead
<1>4. Capacity \in Nat /\ head \in 0 .. Capacity - 1 /\ tail \in 0 .. Capacity - 1
  BY FramedRingAssumption DEF TypeOK
<1>5. QED
  BY <1>2, <1>3, <1>4

\* Otherwise the bytes read follow those that the ring holds.
LEMMA FillExtends ==
  ASSUME TypeOK, NEW n \in 1 .. Capacity, Fill(n), head' # tail
  PROVE  /\ AvailableData(tail)' = AvailableData(tail) + n
         /\ \A i \in 1 .. AvailableData(tail) + n :
              buffer'[(tail + i - 1) % Capacity] =
                IF i <= AvailableData(tail) THEN buffer[(tail + i - 1) % Capacity]
                ELSE wire[i - AvailableData(tail)]
<1>. DEFINE avail == AvailableData(tail)
<1>1. /\ Capacity \in Nat \ {0, 1} /\ head \in 0 .. Capacity - 1
      /\ tail \in 0 .. Capacity - 1 /\ avail \in 0 .. Capacity - 1
  BY AvailableRange, FramedRingAssumption DEF TypeOK
<1>2. avail = IF head >= tail THEN head - tail ELSE Capacity - tail + head
  BY DEF AvailableData
<1>3. /\ head + n <= Capacity
      /\ tail > head => head + n < tail
  BY RequestRange DEF Fill
<1>4. head' = (IF head + n < Capacity THEN head + n ELSE 0) /\ tail' = tail
  BY FillHead DEF Fill
<1>5. AvailableData(tail)' = IF head' >= tail THEN head' - tail ELSE Capacity - tail + head'
  BY <1>4 DEF AvailableData
<1>. HIDE DEF avail
<1>6. AvailableData(tail)' = avail + n
  BY <1>1, <1>2, <1>3, <1>4, <1>5
<1>7. avail + n <= Capacity - 1
  BY <1>1, <1>2, <1>3, <1>4
<1>8. ASSUME NEW i \in 1 .. avail + n
      PROVE  buffer'[(tail + i - 1) % Capacity] =
               IF i <= avail THEN buffer[(tail + i - 1) % Capacity] ELSE wire[i - avail]
  <2>. DEFINE a == tail + i - 1
              at == a % Capacity
  <2>1. a = tail + i - 1 /\ a \in 0 .. 2 * Capacity - 1
    BY <1>1, <1>7
  <2>. HIDE DEF a
  <2>2. at = IF a < Capacity THEN a ELSE a - Capacity
    BY <2>1, Wrap
  <2>3. at \in 0 .. Capacity - 1
    BY <1>1, <2>1, <2>2
  <2>4. buffer'[at] = IF at \in head .. head + n - 1 THEN wire[at - head + 1] ELSE buffer[at]
    BY <2>3 DEF Fill, TypeOK
  <2>. HIDE DEF at
  <2>5. CASE i <= avail
    <3>1. at \notin head .. head + n - 1
      BY <1>1, <1>2, <1>3, <2>1, <2>2, <2>3, <2>5
    <3>2. QED
      BY <2>4, <2>5, <3>1 DEF at, a
  <2>6. CASE i > avail
    <3>1. at \in head .. head + n - 1 /\ at - head + 1 = i - avail
      BY <1>1, <1>2, <1>3, <1>7, <2>1, <2>2, <2>3, <2>6
    <3>2. QED
      BY <1>1, <2>4, <2>6, <3>1 DEF at, a
  <2>7. QED
    BY <1>1, <2>5, <2>6
<1>9. QED
  BY <1>6, <1>8 DEF avail

-----------------------------------------------------------------------------
(* Reading the ring                                                        *)

\* Wrapping on the way makes no difference.
LEMMA WrapTwice ==
  ASSUME NEW a \in Nat, NEW d \in Nat, a + d < 2 * Capacity
  PROVE  ((a % Capacity) + d) % Capacity = (a + d) % Capacity
<1>. DEFINE b == a + d
            r == a % Capacity
            c == r + d
<1>1. Capacity \in Nat \ {0, 1}
  BY FramedRingAssumption
<1>2. r = IF a < Capacity THEN a ELSE a - Capacity
  BY <1>1, Wrap
<1>. HIDE DEF r
<1>3. c = (IF a < Capacity THEN a + d ELSE a + d - Capacity) /\ b = a + d
  BY <1>1, <1>2
<1>. HIDE DEF b, c
<1>4. b \in 0 .. 2 * Capacity - 1 /\ c \in 0 .. 2 * Capacity - 1
  BY <1>1, <1>3
<1>5. /\ b % Capacity = IF b < Capacity THEN b ELSE b - Capacity
      /\ c % Capacity = IF c < Capacity THEN c ELSE c - Capacity
  BY <1>4, Wrap
<1>6. c % Capacity = b % Capacity
  BY <1>1, <1>3, <1>4, <1>5
<1>7. QED
  BY <1>6 DEF b, c, r

\* The length that is read at a position in the ring is the one that is held there.
LEMMA HeaderAt ==
  ASSUME TypeOK, NEW c \in Nat, c + 2 <= AvailableData(tail)
  PROVE  Length(Advance(tail, c)) = Held(c + 1) * Base + Held(c + 2)
<1>1. tail \in 0 .. Capacity - 1 /\ AvailableData(tail) \in 0 .. Capacity - 1
  BY AvailableRange DEF TypeOK
<1>2. Advance(tail, c) = (tail + c) % Capacity
  BY DEF Advance
<1>3. (((tail + c) % Capacity) + 1) % Capacity = (tail + c + 1) % Capacity
  <2>. DEFINE a == tail + c
  <2>1. a \in Nat /\ a + 1 < 2 * Capacity
    BY <1>1, FramedRingAssumption
  <2>. HIDE DEF a
  <2>2. ((a % Capacity) + 1) % Capacity = (a + 1) % Capacity
    BY <2>1, WrapTwice
  <2>3. QED
    BY <2>2 DEF a
<1>4. tail + (c + 1) - 1 = tail + c /\ tail + (c + 2) - 1 = tail + c + 1
  BY <1>1
<1>5. Held(c + 1) = buffer[(tail + c) % Capacity] /\ Held(c + 2) = buffer[(tail + c + 1) % Capacity]
  BY <1>1, <1>4 DEF Held
<1>6. QED
  BY <1>2, <1>3, <1>5 DEF Length

\* Taking a frame leaves the bytes behind it.
LEMMA TakeShifts ==
  ASSUME TypeOK, NEW n \in Nat, n <= AvailableData(tail),
         tail' = Advance(tail, n), head' = head, buffer' = buffer, wire' = wire
  PROVE  /\ tail' \in 0 .. Capacity - 1
         /\ AvailableData(tail)' = AvailableData(tail) - n
         /\ \A i \in 1 .. AvailableData(tail) + Len(wire) - n : Held(i)' = Held(n + i)
<1>. DEFINE avail == AvailableData(tail)
            a == tail + n
<1>1. /\ Capacity \in Nat \ {0, 1} /\ head \in 0 .. Capacity - 1
      /\ tail \in 0 .. Capacity - 1 /\ avail \in 0 .. Capacity - 1
  BY AvailableRange, FramedRingAssumption DEF TypeOK
<1>2. avail = IF head >= tail THEN head - tail ELSE Capacity - tail + head
  BY DEF AvailableData
<1>3. AvailableData(tail)' = IF head >= tail' THEN head - tail' ELSE Capacity - tail' + head
  BY DEF AvailableData
<1>4. a = tail + n /\ a \in 0 .. 2 * Capacity - 1
  BY <1>1
<1>5. tail' = a % Capacity
  BY DEF Advance
<1>. HIDE DEF a
<1>6. tail' = IF a < Capacity THEN a ELSE a - Capacity
  BY <1>4, <1>5, Wrap
<1>7. tail' \in 0 .. Capacity - 1
  BY <1>1, <1>4, <1>6
<1>8. AvailableData(tail)' = avail - n
  <2>1. n <= avail
    OBVIOUS
  <2>. HIDE DEF avail
  <2>2. QED
    BY <2>1, <1>1, <1>2, <1>3, <1>4, <1>6
<1>9. ASSUME NEW i \in 1 .. avail + Len(wire) - n PROVE Held(i)' = Held(n + i)
  <2>1. Len(wire) \in Nat
    BY DEF TypeOK
  <2>2. CASE i <= avail - n
    <3>1. /\ Held(i)' = buffer[(tail' + i - 1) % Capacity]
          /\ Held(n + i) = buffer[(tail + (n + i) - 1) % Capacity]
      BY <1>1, <1>8, <2>1, <2>2 DEF Held
    <3>2. i - 1 \in Nat /\ tail' + i - 1 = (a % Capacity) + (i - 1) /\ tail + (n + i) - 1 = a + (i - 1)
      BY <1>1, <1>4, <1>5, <1>7, <2>1
    <3>3. a + (i - 1) < 2 * Capacity
      BY <1>1, <1>4, <2>1, <2>2
    <3>4. QED
      BY <1>4, <3>1, <3>2, <3>3, WrapTwice
  <2>3. CASE ~(i <= avail - n)
    <3>1. Held(i)' = wire[i - (avail - n)] /\ Held(n + i) = wire[(n + i) - avail]
      BY <1>1, <1>8, <2>1, <2>3 DEF Held
    <3>2. i - (avail - n) = (n + i) - avail
      BY <1>1, <2>1
    <3>3. QED
      BY <3>1, <3>2
  <2>4. QED
    BY <2>2, <2>3
<1>10. QED
  BY <1>7, <1>8, <1>9 DEF avail

\* The two chunks of a copy put together are the bytes held.
LEMMA ChunksAreHeld ==
  ASSUME TypeOK, NEW c \in 0 .. AvailableData(tail), NEW i \in 1 .. c,
         NEW f, f = IF head > tail \/ c < Capacity - tail THEN c ELSE Capacity - tail
  PROVE  (IF i <= f THEN buffer[tail + i - 1] ELSE buffer[i - f - 1]) = Held(i)
<1>. DEFINE avail == AvailableData(tail)
            a == tail + i - 1
<1>1. /\ Capacity \in Nat \ {0, 1} /\ head \in 0 .. Capacity - 1
      /\ tail \in 0 .. Capacity - 1 /\ avail \in 0 .. Capacity - 1
  BY AvailableRange, FramedRingAssumption DEF TypeOK
<1>2. avail = IF head >= tail THEN head - tail ELSE Capacity - tail + head
  BY DEF AvailableData
<1>3. Held(i) = buffer[a % Capacity]
  BY <1>1 DEF Held
<1>4. a = tail + i - 1 /\ a \in 0 .. 2 * Capacity - 1
  BY <1>1
<1>. HIDE DEF a, avail
<1>5. a % Capacity = IF a < Capacity THEN a ELSE a - Capacity
  BY <1>4, Wrap
<1>6. c \in 0 .. avail
  BY DEF avail
<1>7. CASE i <= f
  <2>1. a < Capacity
    BY <1>1, <1>2, <1>4, <1>6, <1>7
  <2>2. QED
    BY <1>3, <1>4, <1>5, <1>7, <2>1
<1>8. CASE ~(i <= f)
  <2>1. a >= Capacity /\ i - f - 1 = a - Capacity
    BY <1>1, <1>2, <1>4, <1>6, <1>8
  <2>2. QED
    BY <1>1, <1>3, <1>4, <1>5, <1>8, <2>1
<1>9. QED
  BY <1>7, <1>8

-----------------------------------------------------------------------------
(* Frames in the ring                                                      *)

\* What has been laid has ends.
LEMMA EndsRange ==
  ASSUME TypeOK, Laid
  PROVE  /\ Len(sent) \in Nat /\ Len(got) \in Nat /\ Len(wire) \in Nat
         /\ \A k \in 0 .. Len(sent) : End(k) \in Nat
         /\ \A k \in 1 .. Len(sent) :
              sent[k] \in Payloads /\ Len(sent[k]) \in Nat /\ End(k) = End(k - 1) + 2 + Len(sent[k])
<1>1. Len(sent) \in Nat /\ Len(got) \in Nat /\ Len(wire) \in Nat
  BY DEF TypeOK
<1>2. \A k \in 1 .. Len(sent) : sent[k] \in Payloads /\ ends[k] \in Nat
  BY DEF TypeOK, Laid
<1>3. \A k \in 0 .. Len(sent) : End(k) \in Nat
  BY <1>1, <1>2 DEF End
<1>4. \A k \in 1 .. Len(sent) : Len(sent[k]) \in Nat
  BY <1>2, FrameOf
<1>5. QED
  BY <1>1, <1>2, <1>3, <1>4 DEF Laid

\* While the ring was never full to the brim: wherever the reader stands between
\* two frames with two bytes in front of it, there is a frame, and the length read
\* there is its length.
LEMMA FrameAt ==
  ASSUME TypeOK, Conserved, ~brimmed,
         NEW m \in Len(got) .. Len(sent), NEW c, c = Offset(m + 1), c \in Nat,
         c + 2 <= AvailableData(tail)
  PROVE  /\ m + 1 \in Len(got) + 1 .. Len(sent)
         /\ Length(Advance(tail, c)) = Len(sent[m + 1])
         /\ Offset(m + 2) = c + 2 + Len(sent[m + 1])
<1>1. Laid /\ InStep /\ AvailableData(tail) + Len(wire) = Offset(Len(sent) + 1)
  BY DEF Conserved
<1>2. /\ Len(sent) \in Nat /\ Len(got) \in Nat /\ Len(wire) \in Nat
      /\ AvailableData(tail) \in Nat
  BY <1>1, EndsRange, AvailableRange
<1>3. m # Len(sent)
  BY <1>1, <1>2
<1>4. m + 1 \in Len(got) + 1 .. Len(sent) /\ m + 1 \in 1 .. Len(sent)
  BY <1>2, <1>3
<1>5. /\ sent[m + 1] \in Payloads /\ Len(sent[m + 1]) \in Nat
      /\ End(m + 1) = End((m + 1) - 1) + 2 + Len(sent[m + 1])
  BY <1>1, <1>4, EndsRange
<1>6. \A i \in 1 .. 2 + Len(sent[m + 1]) : Held(c + i) = Frame(sent[m + 1])[i]
  BY <1>4 DEF Conserved
<1>7. Held(c + 1) = Frame(sent[m + 1])[1] /\ Held(c + 2) = Frame(sent[m + 1])[2]
  BY <1>5, <1>6
<1>8. Length(Advance(tail, c)) = Len(sent[m + 1])
  BY <1>5, <1>7, HeaderAt, FrameOf
<1>9. Offset(m + 2) = c + 2 + Len(sent[m + 1])
  <2>1. m \in 0 .. Len(sent) /\ Len(got) \in 0 .. Len(sent)
    BY <1>2
  <2>2. End(m) \in Nat /\ End(Len(got)) \in Nat
    BY <1>1, <2>1, EndsRange
  <2>3. (m + 1) - 1 = m /\ (m + 2) - 1 = m + 1
    BY <1>2
  <2>4. Offset(m + 1) = End(m) - End(Len(got)) /\ Offset(m + 2) = End(m + 1) - End(Len(got))
    BY <2>3 DEF Offset
  <2>. DEFINE x == End(m)
              y == End(Len(got))
              z == End(m + 1)
              n == Len(sent[m + 1])
  <2>5. z = x + 2 + n /\ x \in Nat /\ y \in Nat /\ n \in Nat
    BY <1>5, <2>2, <2>3
  <2>6. c = x - y /\ Offset(m + 2) = z - y
    BY <2>4
  <2>. HIDE DEF x, y, z, n
  <2>7. Offset(m + 2) = c + 2 + n
    BY <2>5, <2>6
  <2>8. QED
    BY <2>7 DEF n
<1>10. QED
  BY <1>4, <1>8, <1>9

\* The frame in front of the reader.
LEMMA FirstFrame ==
  ASSUME TypeOK, Conserved, ~brimmed, Complete(tail)
  PROVE  /\ Len(got) + 1 \in 1 .. Len(sent)
         /\ Length(tail) = Len(sent[Len(got) + 1])
         /\ PayloadAt(tail) = sent[Len(got) + 1]
<1>. DEFINE k == Len(got) + 1
            avail == AvailableData(tail)
<1>1. Laid /\ InStep
  BY DEF Conserved
<1>2. /\ Len(sent) \in Nat /\ Len(got) \in Nat /\ avail \in 0 .. Capacity - 1
      /\ tail \in 0 .. Capacity - 1 /\ Capacity \in Nat
  BY <1>1, EndsRange, AvailableRange, FramedRingAssumption DEF TypeOK
<1>3. Offset(k) = 0
  BY <1>1, <1>2, EndsRange DEF Offset, InStep
<1>4. Len(got) \in Len(got) .. Len(sent)
  BY <1>1, <1>2 DEF InStep
<1>5. Advance(tail, 0) = tail
  <2>1. tail % Capacity = tail
    BY <1>2, Wrap
  <2>2. QED
    BY <1>2, <2>1 DEF Advance
<1>6. 0 + 2 <= avail
  BY DEF Complete
<1>7. k \in Len(got) + 1 .. Len(sent) /\ Length(tail) = Len(sent[k])
  BY <1>3, <1>4, <1>5, <1>6, FrameAt
<1>8. k \in 1 .. Len(sent) /\ sent[k] \in Payloads /\ Len(sent[k]) \in Nat
  BY <1>1, <1>2, <1>7, EndsRange
<1>9. sent[k] \in Seq(Byte) /\ \A i \in 1 .. Len(sent[k]) : Frame(sent[k])[2 + i] = sent[k][i]
  BY <1>8, FrameOf
<1>10. 2 + Len(sent[k]) <= avail
  BY <1>7 DEF Complete
<1>11. \A i \in 1 .. 2 + Len(sent[k]) : Held(0 + i) = Frame(sent[k])[i]
  BY <1>3, <1>7 DEF Conserved
<1>12. ASSUME NEW i \in 1 .. Len(sent[k])
       PROVE  buffer[(tail + 1 + i) % Capacity] = sent[k][i]
  <2>1. 2 + i \in 1 .. 2 + Len(sent[k]) /\ 0 + (2 + i) = 2 + i /\ tail + (2 + i) - 1 = tail + 1 + i
    BY <1>2, <1>8
  <2>2. Held(2 + i) = sent[k][i]
    BY <1>9, <1>11, <2>1
  <2>3. Held(2 + i) = buffer[(tail + 1 + i) % Capacity]
    BY <1>2, <1>8, <1>10, <2>1 DEF Held
  <2>4. QED
    BY <2>2, <2>3
<1>13. PayloadAt(tail) = [i \in 1 .. Len(sent[k]) |-> sent[k][i]]
  BY <1>7, <1>12 DEF PayloadAt
<1>14. sent[k] = [i \in 1 .. Len(sent[k]) |-> sent[k][i]]
  BY <1>9
<1>15. QED
  BY <1>7, <1>8, <1>13, <1>14

-----------------------------------------------------------------------------
(* The invariant holds at first, and every action keeps its types          *)

LEMMA InitIInv ==
  ASSUME Init PROVE IInv
<1>1. /\ head = 0 /\ tail = 0 /\ wire = <<>> /\ sent = <<>> /\ ends = <<>> /\ got = <<>>
      /\ loop = "none" /\ copied = 0 /\ size = 0 /\ BytesAvailable = 0
      /\ AvailableData(tail) = 0
  BY DEF Init, AvailableData, BytesAvailable
<1>2. TypeOK
  <2>1. brimmed \in BOOLEAN
    BY Zenon DEF Init
  <2>2. buffer \in [0 .. Capacity - 1 -> Byte]
    BY FramedRingAssumption DEF Init, Byte
  <2>3. QED
    BY <1>1, <2>1, <2>2, FramedRingAssumption DEF Init, TypeOK
<1>3. Len(sent) = 0 /\ Len(got) = 0 /\ Len(ends) = 0 /\ Len(wire) = 0
  BY <1>1
<1>4. Later
  BY <1>3 DEF Later
<1>5. Conserved
  <2>1. Laid /\ InStep
    BY <1>3 DEF Laid, InStep
  <2>2. Offset(Len(sent) + 1) = 0
    BY <1>3 DEF Offset, End
  <2>3. QED
    BY <1>1, <1>3, <2>1, <2>2 DEF Conserved
<1>6. QED
  BY <1>1, <1>2, <1>4, <1>5 DEF IInv, Idle, AtBoundary

\* A frame taken, and what is left of the types.
LEMMA TakeTypes ==
  ASSUME TypeOK, Idle, loop # "copy", Complete(tail),
         got' = Append(got, PayloadAt(tail)), tail' = After(tail),
         UNCHANGED <<calls, buffer, head, peer, wire, loop, copied, size, brimmed>>,
         used' \in 0 .. OutCap
  PROVE  TypeOK'
<1>1. tail \in 0 .. Capacity - 1 /\ Length(tail) \in Nat /\ AvailableData(tail) \in Nat
  BY LengthRange, AvailableRange DEF TypeOK
<1>2. 2 + Length(tail) <= AvailableData(tail) /\ tail' = Advance(tail, 2 + Length(tail))
  BY DEF Complete, After
<1>3. tail' \in 0 .. Capacity - 1 /\ AvailableData(tail)' = AvailableData(tail) - (2 + Length(tail))
  BY <1>1, <1>2, TakeShifts
<1>4. PayloadAt(tail) \in Seq(Byte)
  <2>1. \A i \in 1 .. Length(tail) : (tail + 1 + i) % Capacity \in 0 .. Capacity - 1
    BY <1>1, FramedRingAssumption
  <2>2. \A i \in 1 .. Length(tail) : buffer[(tail + 1 + i) % Capacity] \in Byte
    BY <2>1 DEF TypeOK
  <2>3. QED
    BY <1>1, <2>2 DEF PayloadAt
<1>5. got' \in Seq(Seq(Byte))
  <2>. DEFINE p == PayloadAt(tail)
  <2>. HIDE DEF p
  <2>1. p \in Seq(Byte) /\ got' = Append(got, p) /\ got \in Seq(Seq(Byte))
    BY <1>4 DEF p, TypeOK
  <2>2. QED
    BY <2>1
<1>6. copied' = 0 /\ size' = size
  BY DEF Idle
<1>7. 0 \in 0 .. BytesAvailable'
  <2>1. head' \in 0 .. Capacity - 1
    BY DEF TypeOK
  <2>2. ASSUME NEW h \in 0 .. Capacity - 1, NEW t \in 0 .. Capacity - 1
        PROVE  (IF h >= t THEN h - t ELSE Capacity - t + h) \in Nat
    BY FramedRingAssumption
  <2>. DEFINE a == AvailableData(tail)'
  <2>3. a \in Nat
    BY <1>3, <2>1, <2>2 DEF AvailableData
  <2>4. BytesAvailable' = IF head' = tail' THEN IF size' > 0 THEN Capacity ELSE 0 ELSE a
    BY DEF BytesAvailable
  <2>. HIDE DEF a
  <2>5. BytesAvailable' \in Nat
    BY <2>3, <2>4, FramedRingAssumption
  <2>6. QED
    BY <2>5
<1>8. QED
  BY <1>3, <1>5, <1>6, <1>7 DEF TypeOK, calls, peer

LEMMA TypeStep ==
  ASSUME TypeOK, Idle, Laid, [Next]_vars PROVE TypeOK'
<1>. USE DEF calls, ring, peer
<1>0. /\ Capacity \in Nat \ {0, 1} /\ head \in 0 .. Capacity - 1
      /\ tail \in 0 .. Capacity - 1 /\ AvailableData(tail) \in 0 .. Capacity - 1
  BY AvailableRange, FramedRingAssumption DEF TypeOK
<1>1. ASSUME NEW p \in Payloads, Send(p) PROVE TypeOK'
  <2>1. p \in Seq(Byte) /\ Len(p) \in Nat /\ Frame(p) \in Seq(Byte)
    BY FrameOf
  <2>2. wire' \in Seq(Byte) /\ sent' \in Seq(Payloads)
    BY <1>1, <2>1 DEF Send, TypeOK
  <2>3. ends' \in Seq(Nat)
    <3>1. End(Len(sent)) \in Nat
      <4>1. Len(sent) \in 0 .. Len(sent) /\ \A k \in 0 .. Len(sent) : End(k) \in Nat
        BY EndsRange
      <4>2. QED
        BY <4>1
    <3>2. QED
      BY <1>1, <2>1, <3>1 DEF Send, TypeOK
  <2>4. BytesAvailable' = BytesAvailable
    BY <1>1 DEF Send, AvailableData, BytesAvailable
  <2>5. QED
    BY <1>1, <2>2, <2>3, <2>4 DEF Send, TypeOK
<1>2. ASSUME NEW n \in 1 .. Capacity, Fill(n) PROVE TypeOK'
  <2>1. head' \in 0 .. Capacity - 1
    <3>1. head' = IF head + n < Capacity THEN head + n ELSE 0
      BY <1>2, FillHead
    <3>2. QED
      BY <1>0, <3>1
  <2>2. buffer' \in [0 .. Capacity - 1 -> Byte]
    <3>1. wire \in Seq(Byte) /\ Len(wire) \in Nat /\ n <= Len(wire)
      BY <1>2 DEF Fill, TypeOK
    <3>2. ASSUME NEW i \in head .. head + n - 1 PROVE wire[i - head + 1] \in Byte
      <4>1. i - head + 1 \in 1 .. Len(wire)
        BY <1>0, <3>1
      <4>2. QED
        BY <3>1, <4>1
    <3>3. QED
      BY <1>2, <3>2 DEF Fill, TypeOK
  <2>3. wire' \in Seq(Byte)
    BY <1>2 DEF Fill, TypeOK
  <2>4. brimmed' \in BOOLEAN
    BY <1>2, Zenon DEF Fill
  <2>5. copied' = 0 /\ size' = 0 /\ 0 \in 0 .. BytesAvailable'
    <3>1. copied' = 0 /\ size' = 0 /\ tail' \in 0 .. Capacity - 1
      BY <1>2 DEF Fill, Idle, TypeOK
    <3>. DEFINE a == AvailableData(tail)'
                h == head'
                t == tail'
    <3>2. /\ a = IF h >= t THEN h - t ELSE Capacity - t + h
          /\ h \in 0 .. Capacity - 1 /\ t \in 0 .. Capacity - 1
      BY <2>1, <3>1 DEF AvailableData
    <3>3. BytesAvailable' = IF h = t THEN IF size' > 0 THEN Capacity ELSE 0 ELSE a
      BY DEF BytesAvailable
    <3>. HIDE DEF a, h, t
    <3>4. BytesAvailable' \in Nat
      BY <1>0, <3>2, <3>3
    <3>5. QED
      BY <3>1, <3>4
  <2>6. QED
    BY <1>2, <2>1, <2>2, <2>3, <2>4, <2>5 DEF Fill, TypeOK
<1>3. CASE FramedBufRead
  <2>1. Length(tail) \in Nat
    BY LengthRange DEF TypeOK
  <2>2. used' \in 0 .. OutCap
    BY <1>3, <2>1 DEF FramedBufRead
  <2>3. QED
    BY <1>3, <2>2, TakeTypes DEF FramedBufRead
<1>4. CASE DelimRound
  <2>1. Length(tail) \in Nat
    BY LengthRange DEF TypeOK
  <2>2. used' \in 0 .. OutCap
    BY <1>4, <2>1, FramedRingAssumption DEF DelimRound, FitsDelimited, TypeOK
  <2>3. QED
    BY <1>4, <2>2, TakeTypes DEF DelimRound
<1>5. ASSUME UNCHANGED <<calls, ring, peer, wire, got, brimmed>>,
             used' \in 0 .. OutCap, loop' \in {"none", "delim", "copy"},
             size' \in 0 .. Capacity, copied' = 0 \/ size' = size,
             copied' \in 0 .. BytesAvailable
      PROVE  TypeOK'
  <2>1. AvailableData(tail)' = AvailableData(tail) /\ head' = head /\ tail' = tail
    BY <1>5 DEF AvailableData
  <2>2. copied' \in 0 .. BytesAvailable'
    <3>1. CASE size' = size
      BY <1>5, <2>1, <3>1 DEF BytesAvailable
    <3>2. CASE copied' = 0
      <4>1. BytesAvailable' \in Nat
        BY <1>0, <2>1 DEF BytesAvailable
      <4>2. QED
        BY <3>2, <4>1
    <3>3. QED
      BY <1>5, <3>1, <3>2
  <2>3. QED
    BY <1>5, <2>1, <2>2 DEF TypeOK
<1>6. CASE DelimBegin \/ DelimReturn
  BY <1>5, <1>6, FramedRingAssumption DEF DelimBegin, DelimReturn, TypeOK
<1>7. CASE CopyBegin \/ CopyReturn
  <2>1. size' \in 0 .. Capacity
    BY <1>0, <1>7 DEF CopyBegin, CopyReturn
  <2>2. copied' = 0 /\ 0 \in 0 .. BytesAvailable
    BY <1>7, BytesRange DEF CopyBegin, CopyReturn, TypeOK
  <2>3. /\ UNCHANGED <<calls, ring, peer, wire, got, brimmed>>
        /\ used' \in 0 .. OutCap /\ loop' \in {"none", "delim", "copy"}
    BY <1>7 DEF CopyBegin, CopyReturn, TypeOK
  <2>4. QED
    BY <1>5, <2>1, <2>2, <2>3
<1>8. CASE CopyRound
  <2>1. CurrPos \in 0 .. Capacity - 1
    <3>1. tail + copied \in Nat
      BY <1>0 DEF TypeOK
    <3>2. QED
      BY <3>1, InArray DEF CurrPos, Advance
  <2>2. Length(CurrPos) \in Nat /\ BytesAvailable \in Nat
    BY <2>1, LengthRange, BytesRange DEF TypeOK
  <2>3. copied' \in 0 .. BytesAvailable
    BY <1>8, <2>2 DEF CopyRound, More, Remaining, TypeOK
  <2>4. QED
    BY <1>5, <1>8, <2>3 DEF CopyRound, TypeOK
<1>9. CASE UNCHANGED vars
  BY <1>5, <1>9 DEF vars, TypeOK
<1>10. QED
  BY <1>1, <1>2, <1>3, <1>4, <1>6, <1>7, <1>8, <1>9 DEF Next, Take, Copy

\* copied is reset when the loop is left.
LEMMA IdleStep ==
  ASSUME Idle, [Next]_vars PROVE Idle'
<1>1. CASE loop # "copy" /\ loop' # "copy"
  BY <1>1 DEF Next, Take, Copy, Send, Fill, FramedBufRead, DelimBegin, DelimRound, DelimReturn,
              CopyBegin, CopyRound, CopyReturn, vars, Idle
<1>2. CASE loop = "copy" \/ loop' = "copy"
  BY <1>2 DEF Next, Take, Copy, Send, Fill, FramedBufRead, DelimBegin, DelimRound, DelimReturn,
              CopyBegin, CopyRound, CopyReturn, vars, ring, Idle
<1>3. QED
  BY <1>1, <1>2

-----------------------------------------------------------------------------
(* The frames in the stream                                                *)

\* A frame sent is laid behind those before it, which stay where they are.
LEMMA SendLays ==
  ASSUME TypeOK, Laid, NEW p \in Payloads, Send(p), NEW n, n = Len(sent)
  PROVE  /\ Len(sent)' = n + 1 /\ sent'[n + 1] = p
         /\ \A k \in 1 .. n : sent'[k] = sent[k]
         /\ \A k \in 0 .. n : End(k)' = End(k)
         /\ End(n + 1)' = End(n) + 2 + Len(p)
         /\ Laid'
<1>. DEFINE e == End(n) + 2 + Len(p)
<1>1. n \in Nat /\ n = Len(sent) /\ Len(ends) = n /\ Len(p) \in Nat /\ \A k \in 0 .. n : End(k) \in Nat
  BY EndsRange, FrameOf DEF Laid
<1>2. e \in Nat
  BY <1>1
<1>3. sent' = Append(sent, p) /\ ends' = Append(ends, e)
  BY DEF Send
<1>4. sent \in Seq(Payloads) /\ ends \in Seq(Nat)
  BY DEF TypeOK
<1>. HIDE DEF e
<1>5. /\ Len(sent') = n + 1 /\ sent'[n + 1] = p /\ \A k \in 1 .. n : sent'[k] = sent[k]
  BY <1>3, <1>4
<1>6. /\ Len(ends') = n + 1 /\ ends'[n + 1] = e /\ \A k \in 1 .. n : ends'[k] = ends[k]
  BY <1>1, <1>2, <1>3, <1>4
<1>7. \A k \in 0 .. n : End(k)' = End(k)
  BY <1>6 DEF End
<1>8. End(n + 1)' = e
  BY <1>1, <1>6 DEF End
<1>9. \A k \in 1 .. n : End(k) = End(k - 1) + 2 + Len(sent[k])
  BY DEF Laid
<1>10. ASSUME NEW k \in 1 .. n + 1 PROVE End(k)' = End(k - 1)' + 2 + Len(sent'[k])
  <2>1. CASE k = n + 1
    <3>1. k - 1 = n /\ End(n)' = End(n)
      BY <1>1, <1>7, <2>1
    <3>2. QED
      BY <1>5, <1>8, <2>1, <3>1 DEF e
  <2>2. CASE k # n + 1
    <3>1. k \in 1 .. n /\ k \in 0 .. n /\ k - 1 \in 0 .. n
      BY <1>1, <2>2
    <3>2. QED
      BY <1>5, <1>7, <1>9, <3>1
  <2>3. QED
    BY <2>1, <2>2
<1>11. Laid'
  BY <1>5, <1>6, <1>10 DEF Laid
<1>12. QED
  BY <1>5, <1>7, <1>8, <1>11 DEF e

\* Later frames end later.
LEMMA LaterStep ==
  ASSUME TypeOK, Laid, Later, [Next]_vars PROVE Later' /\ Laid'
<1>1. ASSUME NEW p \in Payloads, Send(p) PROVE Later' /\ Laid'
  <2>0. PICK n : n = Len(sent)
    OBVIOUS
  <2>1. /\ Len(sent)' = n + 1 /\ \A k \in 0 .. n : End(k)' = End(k)
        /\ End(n + 1)' = End(n) + 2 + Len(p) /\ Laid'
    BY <1>1, <2>0, SendLays
  <2>2. n \in Nat /\ Len(p) \in Nat /\ \A k \in 0 .. n : End(k) \in Nat
    BY <2>0, EndsRange, FrameOf
  <2>3. ASSUME NEW j \in 0 .. n + 1, NEW k \in 0 .. n + 1, j < k
        PROVE  End(j)' + 2 <= End(k)'
    <3>1. j \in 0 .. n /\ End(j)' = End(j) /\ End(j) \in Nat /\ End(n) \in Nat
      BY <2>1, <2>2, <2>3
    <3>2. CASE k = n + 1
      <4>1. End(j) <= End(n)
        <5>1. CASE j = n
          BY <3>1, <5>1
        <5>2. CASE j # n
          <6>1. n \in 0 .. n /\ j < n
            BY <2>2, <3>1, <5>2
          <6>2. End(j) + 2 <= End(n)
            BY <2>0, <3>1, <6>1 DEF Later
          <6>3. QED
            BY <3>1, <6>2
        <5>3. QED
          BY <5>1, <5>2
      <4>2. End(k)' = End(n) + 2 + Len(p)
        BY <2>1, <3>2
      <4>3. QED
        BY <2>2, <3>1, <4>1, <4>2
    <3>3. CASE k # n + 1
      <4>1. k \in 0 .. n
        BY <2>2, <3>3
      <4>2. End(k)' = End(k) /\ End(j) + 2 <= End(k)
        BY <2>0, <2>1, <2>3, <3>1, <4>1 DEF Later
      <4>3. QED
        BY <3>1, <4>2
    <3>4. QED
      BY <3>2, <3>3
  <2>4. QED
    BY <2>1, <2>3 DEF Later
<1>2. CASE UNCHANGED peer
  BY <1>2 DEF peer, Later, Laid, End
<1>3. QED
  BY <1>1, <1>2 DEF Next, Take, Copy, Fill, FramedBufRead, DelimBegin, DelimRound, DelimReturn,
                    CopyBegin, CopyRound, CopyReturn, vars, ring, peer, calls

\* The bytes of a frame not yet taken are among those held.
LEMMA Within ==
  ASSUME TypeOK, Later, Conserved, ~brimmed,
         NEW k \in Len(got) + 1 .. Len(sent), NEW i \in 1 .. 2 + Len(sent[k])
  PROVE  /\ Offset(k) \in Nat
         /\ Offset(k) + i \in 1 .. AvailableData(tail) + Len(wire)
<1>1. Laid /\ InStep /\ AvailableData(tail) + Len(wire) = Offset(Len(sent) + 1)
  BY DEF Conserved
<1>. DEFINE n == Len(sent)
            g == Len(got)
<1>2. n \in Nat /\ g \in Nat /\ g <= n
  BY <1>1, EndsRange DEF InStep
<1>3. k \in 1 .. n /\ k - 1 \in 0 .. n /\ g <= k - 1 /\ k \in 0 .. n /\ g \in 0 .. n
  BY <1>2
<1>4. /\ End(k - 1) \in Nat /\ End(k) \in Nat /\ End(g) \in Nat /\ End(n) \in Nat
      /\ Len(sent[k]) \in Nat /\ End(k) = End(k - 1) + 2 + Len(sent[k])
  <2>1. /\ \A m \in 0 .. n : End(m) \in Nat
        /\ \A m \in 1 .. n : Len(sent[m]) \in Nat /\ End(m) = End(m - 1) + 2 + Len(sent[m])
    BY <1>1, EndsRange, Zenon
  <2>2. n \in 0 .. n  BY <1>2
  <2>3. QED  BY <1>3, <2>1, <2>2, Zenon
<1>5. End(g) <= End(k - 1) /\ End(k) <= End(n)
  <2>1. CASE g = k - 1
    <3>1. k = n \/ End(k) + 2 <= End(n)
      BY <1>2, <1>3 DEF Later
    <3>2. QED
      BY <1>4, <2>1, <3>1
  <2>2. CASE g # k - 1
    <3>1. g < k - 1 /\ (k = n \/ k < n)
      BY <1>2, <1>3, <2>2
    <3>2. End(g) + 2 <= End(k - 1) /\ (k = n \/ End(k) + 2 <= End(n))
      BY <1>3, <3>1 DEF Later
    <3>3. QED
      BY <1>4, <3>2, SMTT(30)
  <2>3. QED
    BY <2>1, <2>2
<1>6. (n + 1) - 1 = n
  BY <1>2
<1>7. Offset(k) = End(k - 1) - End(g) /\ AvailableData(tail) + Len(wire) = End(n) - End(g)
  BY <1>1, <1>6 DEF Offset
<1>. DEFINE x == End(k - 1)
            y == End(k)
            z == End(g)
            u == End(n)
            l == Len(sent[k])
            h == AvailableData(tail) + Len(wire)
<1>8. /\ x \in Nat /\ y \in Nat /\ z \in Nat /\ u \in Nat /\ l \in Nat /\ i \in 1 .. 2 + l
      /\ y = x + 2 + l /\ z <= x /\ y <= u /\ Offset(k) = x - z /\ h = u - z
  BY <1>4, <1>5, <1>7
<1>. HIDE DEF x, y, z, u, l, h
<1>9. Offset(k) \in Nat /\ Offset(k) + i \in 1 .. h
  BY <1>8
<1>10. QED
  BY <1>9 DEF h

-----------------------------------------------------------------------------
(* Framing is kept by every action                                         *)

\* What has to be shown of a step, with the counts of its frames named.
LEMMA ConservedNext ==
  ASSUME NEW n \in Nat, NEW g \in Nat, n = Len(sent)', g = Len(got)', Laid', InStep',
         AvailableData(tail)' + Len(wire)' = End(n)' - End(g)',
         \A k \in g + 1 .. n : \A i \in 1 .. 2 + Len(sent'[k]) :
           \A j : j = (End(k - 1)' - End(g)') + i => Held(j)' = Frame(sent'[k])[i]
  PROVE  Conserved'
<1>1. (n + 1) - 1 = n
  OBVIOUS
<1>2. Offset(Len(sent) + 1)' = End(n)' - End(g)'
  BY <1>1 DEF Offset, End
<1>3. ASSUME NEW k \in g + 1 .. n, NEW i \in 1 .. 2 + Len(sent'[k])
      PROVE  Held(Offset(k) + i)' = Frame(sent[k])'[i]
  <2>1. PICK j : j = (End(k - 1)' - End(g)') + i
    OBVIOUS
  <2>2. j = Offset(k)' + i
    BY <2>1 DEF Offset, End
  <2>3. Held(j)' = Frame(sent'[k])[i]
    BY <2>1
  <2>4. Held(Offset(k) + i)' = Held(j)'
    BY <2>2 DEF Held
  <2>5. Frame(sent[k])' = Frame(sent'[k])
    BY DEF Frame
  <2>6. QED
    BY <2>3, <2>4, <2>5
<1>4. QED
  BY <1>2, <1>3 DEF Conserved

LEMMA ConservedSend ==
  ASSUME TypeOK, Later, Conserved, NEW p \in Payloads, Send(p)
  PROVE  Conserved'
<1>1. PICK n, g, a, w, l : /\ n = Len(sent) /\ g = Len(got) /\ a = AvailableData(tail)
                           /\ w = Len(wire) /\ l = Len(p)
  OBVIOUS
<1>2. Laid /\ n \in Nat /\ g \in Nat /\ a \in Nat /\ w \in Nat /\ l \in Nat
  BY <1>1, EndsRange, AvailableRange, FrameOf DEF Conserved
<1>3. /\ Len(sent)' = n + 1 /\ sent'[n + 1] = p
      /\ \A k \in 1 .. n : sent'[k] = sent[k]
      /\ \A k \in 0 .. n : End(k)' = End(k)
      /\ End(n + 1)' = End(n) + 2 + l
      /\ Laid'
  BY <1>1, <1>2, SendLays
<1>4. /\ wire' = wire \o Frame(p) /\ got' = got /\ brimmed' = brimmed
      /\ buffer' = buffer /\ tail' = tail /\ head' = head
  BY DEF Send, ring
<1>5. /\ Len(wire)' = w + 2 + l
      /\ \A i \in 1 .. w : wire'[i] = wire[i]
      /\ \A i \in 1 .. 2 + l : wire'[w + i] = Frame(p)[i]
  <2>. DEFINE f == Frame(p)
  <2>1. wire \in Seq(Byte) /\ f \in Seq(Byte) /\ wire' = wire \o f /\ Len(f) = 2 + l
    BY <1>1, <1>4, FrameOf DEF TypeOK
  <2>. HIDE DEF f
  <2>2. /\ Len(wire') = Len(wire) + Len(f)
        /\ \A i \in 1 .. Len(wire) : wire'[i] = wire[i]
        /\ \A i \in 1 .. Len(f) : wire'[Len(wire) + i] = f[i]
    <3>1. /\ Len(wire') = Len(wire) + Len(f) /\ Len(wire) \in Nat /\ Len(f) \in Nat
          /\ \A i \in 1 .. Len(wire) + Len(f) :
               wire'[i] = IF i <= Len(wire) THEN wire[i] ELSE f[i - Len(wire)]
      <4>. DEFINE u == wire
      <4>1. u \in Seq(Byte) /\ f \in Seq(Byte) /\ wire' = u \o f /\ u = wire
        BY <2>1
      <4>. HIDE DEF u
      <4>2. /\ Len(u \o f) = Len(u) + Len(f)
            /\ \A i \in 1 .. Len(u) + Len(f) :
                 (u \o f)[i] = IF i <= Len(u) THEN u[i] ELSE f[i - Len(u)]
        BY <4>1, ConcatProperties, Zenon
      <4>3. Len(u) \in Nat /\ Len(f) \in Nat
        BY <4>1, LenProperties
      <4>4. QED
        BY <4>1, <4>2, <4>3, Zenon
    <3>2. ASSUME NEW i \in 1 .. Len(f) PROVE wire'[Len(wire) + i] = f[i]
      <4>1. /\ Len(wire) + i \in 1 .. Len(wire) + Len(f) /\ ~(Len(wire) + i <= Len(wire))
            /\ (Len(wire) + i) - Len(wire) = i
        BY <3>1
      <4>2. QED
        BY <3>1, <4>1
    <3>3. QED
      BY <3>1, <3>2
  <2>3. QED
    BY <1>1, <1>2, <2>1, <2>2 DEF f
<1>6. AvailableData(tail)' = a
  BY <1>1, <1>4 DEF AvailableData
<1>7. CASE brimmed
  BY <1>3, <1>4, <1>7 DEF Conserved
<1>8. CASE ~brimmed
  <2>1. /\ g <= n /\ \A k \in 1 .. g : got[k] = sent[k]
        /\ a + w = Offset(n + 1)
        /\ \A k \in g + 1 .. n : \A i \in 1 .. 2 + Len(sent[k]) :
             Held(Offset(k) + i) = Frame(sent[k])[i]
    BY <1>1, <1>8 DEF Conserved, InStep
  <2>2. InStep'
    BY <1>1, <1>2, <1>3, <1>4, <2>1 DEF InStep
  <2>3. End(g)' = End(g) /\ End(n)' = End(n) /\ End(g) \in Nat /\ End(n) \in Nat
    BY <1>1, <1>2, <1>3, <2>1, EndsRange
  <2>4. a + w = End(n) - End(g)
    <3>1. (n + 1) - 1 = n
      BY <1>2
    <3>2. QED
      BY <1>1, <2>1, <3>1 DEF Offset
  <2>5. a + (w + 2 + l) = End(n + 1)' - End(g)'
    <3>. DEFINE x == End(n)
                y == End(g)
    <3>1. End(n + 1)' = x + 2 + l /\ End(g)' = y
      BY <1>3, <2>3
    <3>2. x \in Nat /\ y \in Nat /\ a + w = x - y
      BY <2>3, <2>4
    <3>. HIDE DEF x, y
    <3>3. a + (w + 2 + l) = (x + 2 + l) - y
      BY <1>2, <3>2
    <3>4. QED
      BY <3>1, <3>3
  <2>6. \A j \in 1 .. a + w : Held(j)' = Held(j)
    BY <1>1, <1>2, <1>4, <1>5, <1>6 DEF Held
  <2>7. ASSUME NEW i \in 1 .. 2 + l PROVE Held(a + w + i)' = Frame(p)[i]
    <3>1. ~(a + w + i <= a) /\ (a + w + i) - a = w + i
      BY <1>2
    <3>2. Held(a + w + i)' = wire'[w + i]
      BY <1>6, <3>1 DEF Held
    <3>3. QED
      BY <1>5, <3>2
  <2>8. ASSUME NEW k \in g + 1 .. n + 1, NEW i \in 1 .. 2 + Len(sent'[k]),
               NEW j, j = (End(k - 1)' - End(g)') + i
        PROVE  Held(j)' = Frame(sent'[k])[i]
    <3>1. CASE k = n + 1
      <4>1. k - 1 = n /\ sent'[k] = p
        BY <1>2, <1>3, <3>1
      <4>2. j = a + w + i /\ i \in 1 .. 2 + l
        BY <1>1, <2>3, <2>4, <2>8, <4>1
      <4>3. QED
        BY <2>7, <4>1, <4>2
    <3>2. CASE k # n + 1
      <4>1. k \in g + 1 .. n /\ k \in 1 .. n /\ k - 1 \in 0 .. n
        BY <1>2, <3>2
      <4>2. sent'[k] = sent[k] /\ i \in 1 .. 2 + Len(sent[k])
        BY <1>3, <4>1
      <4>3. j = Offset(k) + i
        BY <1>1, <1>3, <2>3, <2>8, <4>1 DEF Offset
      <4>4. j \in 1 .. a + w
        BY <1>1, <1>8, <4>1, <4>2, <4>3, Within
      <4>5. QED
        BY <2>1, <2>6, <4>1, <4>2, <4>3, <4>4
    <3>3. QED
      BY <3>1, <3>2
  <2>9. /\ n + 1 \in Nat /\ g = Len(got)'
        /\ AvailableData(tail)' + Len(wire)' = End(n + 1)' - End(g)'
    BY <1>1, <1>2, <1>4, <1>5, <1>6, <2>5
  <2>10. QED
    <3>. DEFINE m == n + 1
    <3>1. /\ m \in Nat /\ m = Len(sent)'
          /\ AvailableData(tail)' + Len(wire)' = End(m)' - End(g)'
          /\ \A k \in g + 1 .. m : \A i \in 1 .. 2 + Len(sent'[k]) :
               \A j : j = (End(k - 1)' - End(g)') + i => Held(j)' = Frame(sent'[k])[i]
      BY <1>3, <2>8, <2>9
    <3>. HIDE DEF m
    <3>2. QED
      BY <1>2, <1>3, <2>2, <2>9, <3>1, ConservedNext
<1>9. QED
  BY <1>7, <1>8

\* A frame begins and ends where it did before a step that sends none.
LEMMA SameEnds ==
  ASSUME UNCHANGED peer
  PROVE  /\ \A k : End(k)' = End(k)
         /\ Len(sent)' = Len(sent) /\ sent' = sent
BY DEF peer, End

LEMMA ConservedFill ==
  ASSUME TypeOK, Later, Conserved, Laid', NEW n \in 1 .. Capacity, Fill(n)
  PROVE  Conserved'
<1>1. PICK m, g, a, w : /\ m = Len(sent) /\ g = Len(got) /\ a = AvailableData(tail)
                        /\ w = Len(wire)
  OBVIOUS
<1>2. Laid /\ m \in Nat /\ g \in Nat /\ a \in Nat /\ w \in Nat /\ n \in Nat /\ n <= w
  BY <1>1, EndsRange, AvailableRange, FramedRingAssumption DEF Conserved, Fill
<1>3. /\ sent' = sent /\ got' = got /\ tail' = tail /\ \A k : End(k)' = End(k)
      /\ wire' = SubSeq(wire, n + 1, Len(wire)) /\ brimmed' = (brimmed \/ head' = tail)
  BY SameEnds DEF Fill
<1>4. CASE brimmed'
  BY <1>4 DEF Conserved
<1>5. CASE ~brimmed'
  <2>1. ~brimmed /\ head' # tail
    BY <1>3, <1>5
  <2>2. /\ AvailableData(tail)' = a + n
        /\ \A i \in 1 .. a + n :
             buffer'[(tail + i - 1) % Capacity] =
               IF i <= a THEN buffer[(tail + i - 1) % Capacity] ELSE wire[i - a]
    BY <1>1, <2>1, FillExtends
  <2>3. Len(wire)' = w - n /\ \A i \in 1 .. w - n : wire'[i] = wire[n + i]
    <3>1. wire \in Seq(Byte) /\ w = Len(wire)
      BY <1>1 DEF TypeOK
    <3>2. /\ Len(wire') = w - n
          /\ \A i \in 1 .. w - n : wire'[i] = wire[(n + 1) + i - 1]
      BY <1>2, <1>3, <3>1
    <3>3. QED
      BY <1>2, <3>2
  <2>4. /\ g <= m /\ \A k \in 1 .. g : got[k] = sent[k]
        /\ a + w = Offset(m + 1)
        /\ \A k \in g + 1 .. m : \A i \in 1 .. 2 + Len(sent[k]) :
             Held(Offset(k) + i) = Frame(sent[k])[i]
    BY <1>1, <2>1 DEF Conserved, InStep
  <2>5. \A j \in 1 .. a + w : Held(j)' = Held(j)
    <3>1. ASSUME NEW j \in 1 .. a + w, j <= a + n PROVE Held(j)' = Held(j)
      <4>1. j \in 1 .. a + n
        BY <1>2, <3>1
      <4>2. Held(j)' = buffer'[(tail + j - 1) % Capacity]
        BY <1>3, <2>2, <3>1 DEF Held
      <4>3. QED
        BY <1>1, <2>2, <4>1, <4>2 DEF Held
    <3>2. ASSUME NEW j \in 1 .. a + w, ~(j <= a + n) PROVE Held(j)' = Held(j)
      <4>1. j - (a + n) \in 1 .. w - n /\ n + (j - (a + n)) = j - a /\ ~(j <= a)
        BY <1>2, <3>2
      <4>2. Held(j)' = wire'[j - (a + n)]
        BY <2>2, <3>2 DEF Held
      <4>3. Held(j)' = wire[j - a]
        BY <2>3, <4>1, <4>2
      <4>4. QED
        BY <1>1, <4>1, <4>3 DEF Held
    <3>3. QED
      BY <3>1, <3>2
  <2>6. /\ m = Len(sent)' /\ g = Len(got)' /\ InStep'
        /\ AvailableData(tail)' + Len(wire)' = End(m)' - End(g)'
    <3>1. (m + 1) - 1 = m /\ (a + n) + (w - n) = a + w
      BY <1>2
    <3>2. a + w = End(m) - End(g)
      BY <1>1, <2>4, <3>1 DEF Offset
    <3>3. QED
      BY <1>1, <1>3, <2>2, <2>3, <2>4, <3>1, <3>2 DEF InStep
  <2>7. ASSUME NEW k \in g + 1 .. m, NEW i \in 1 .. 2 + Len(sent'[k]),
               NEW j, j = (End(k - 1)' - End(g)') + i
        PROVE  Held(j)' = Frame(sent'[k])[i]
    <3>1. j = Offset(k) + i
      BY <1>1, <1>3, <2>7 DEF Offset
    <3>2. j \in 1 .. a + w
      BY <1>1, <1>3, <2>1, <3>1, Within
    <3>3. QED
      BY <1>3, <2>4, <2>5, <3>1, <3>2
  <2>8. QED
    BY <1>2, <2>6, <2>7, ConservedNext
<1>6. QED
  BY <1>4, <1>5

LEMMA ConservedTake ==
  ASSUME TypeOK, Later, Conserved, Laid', Complete(tail),
         got' = Append(got, PayloadAt(tail)), tail' = After(tail),
         UNCHANGED <<buffer, head, peer, wire, brimmed>>
  PROVE  Conserved'
<1>1. PICK m, g, a, w, l : /\ m = Len(sent) /\ g = Len(got) /\ a = AvailableData(tail)
                           /\ w = Len(wire) /\ l = Length(tail)
  OBVIOUS
<1>2. Laid /\ m \in Nat /\ g \in Nat /\ a \in Nat /\ w \in Nat /\ l \in Nat /\ 2 + l <= a
  BY <1>1, EndsRange, AvailableRange, LengthRange DEF Conserved, Complete, TypeOK
<1>3. sent' = sent /\ wire' = wire /\ \A k : End(k)' = End(k)
  BY SameEnds
<1>4. CASE brimmed
  BY <1>4 DEF Conserved
<1>5. CASE ~brimmed
  <2>1. /\ g <= m /\ \A k \in 1 .. g : got[k] = sent[k]
        /\ a + w = Offset(m + 1)
        /\ \A k \in g + 1 .. m : \A i \in 1 .. 2 + Len(sent[k]) :
             Held(Offset(k) + i) = Frame(sent[k])[i]
    BY <1>1, <1>5 DEF Conserved, InStep
  <2>2. g + 1 \in 1 .. m /\ l = Len(sent[g + 1]) /\ PayloadAt(tail) = sent[g + 1]
    BY <1>1, <1>5, FirstFrame
  <2>3. /\ Len(got') = g + 1 /\ got'[g + 1] = sent[g + 1]
        /\ \A k \in 1 .. g : got'[k] = got[k]
    BY <1>1, <2>2 DEF TypeOK
  <2>4. InStep'
    <3>1. \A k \in 1 .. g + 1 : k \in 1 .. g \/ k = g + 1
      BY <1>2
    <3>2. g + 1 <= m
      BY <1>2, <2>2
    <3>3. QED
      BY <1>1, <1>3, <2>1, <2>3, <3>1, <3>2 DEF InStep
  <2>5. /\ AvailableData(tail)' = a - (2 + l)
        /\ \A j \in 1 .. (a + w) - (2 + l) : Held(j)' = Held((2 + l) + j)
    <3>. DEFINE n == 2 + l
    <3>1. n \in Nat /\ n <= a /\ tail' = Advance(tail, n)
      BY <1>1, <1>2 DEF After
    <3>. HIDE DEF n
    <3>2. /\ AvailableData(tail)' = a - n
          /\ \A j \in 1 .. a + w - n : Held(j)' = Held(n + j)
      BY <1>1, <3>1, TakeShifts
    <3>3. QED
      BY <1>2, <3>2 DEF n
  <2>6. End(g + 1) = End(g) + 2 + l /\ End(g) \in Nat /\ End(m) \in Nat
    <3>1. (g + 1) - 1 = g /\ g \in 0 .. m /\ m \in 0 .. m
      BY <1>2, <2>1
    <3>2. QED
      BY <1>1, <1>2, <2>2, <3>1, EndsRange
  <2>7. (a - (2 + l)) + w = End(m)' - End(g + 1)'
    <3>1. (m + 1) - 1 = m
      BY <1>2
    <3>2. a + w = End(m) - End(g)
      BY <1>1, <2>1, <3>1 DEF Offset
    <3>. DEFINE x == End(m)
                y == End(g)
    <3>3. a + w = x - y /\ x \in Nat /\ y \in Nat /\ End(m)' = x /\ End(g + 1)' = y + 2 + l
      BY <1>3, <2>6, <3>2
    <3>. HIDE DEF x, y
    <3>4. (a - (2 + l)) + w = x - (y + 2 + l)
      BY <1>2, <3>3
    <3>5. QED
      BY <3>3, <3>4
  <2>8. ASSUME NEW k \in (g + 1) + 1 .. m, NEW i \in 1 .. 2 + Len(sent'[k]),
               NEW j, j = (End(k - 1)' - End(g + 1)') + i
        PROVE  Held(j)' = Frame(sent'[k])[i]
    <3>1. k \in g + 1 .. m /\ i \in 1 .. 2 + Len(sent[k]) /\ k - 1 \in 0 .. m /\ k - 1 \in g + 1 .. m
      BY <1>2, <1>3
    <3>2. Offset(k) + i = (2 + l) + j /\ j \in Int
      <4>. DEFINE x == End(k - 1)
                  y == End(g)
      <4>1. x \in Nat /\ y \in Nat
        BY <1>1, <1>2, <2>6, <3>1, EndsRange
      <4>2. j = (x - (y + 2 + l)) + i /\ Offset(k) = x - y
        BY <1>1, <1>3, <2>6, <2>8 DEF Offset
      <4>3. i \in Int
        OBVIOUS
      <4>. HIDE DEF x, y
      <4>4. QED
        BY <1>2, <4>1, <4>2, <4>3
    <3>3. Offset(k) + i \in 1 .. a + w
      BY <1>1, <1>5, <3>1, Within
    <3>4. j >= 1
      <4>1. CASE k - 1 = g + 1
        <5>1. g + 1 \in 0 .. m
          BY <1>2, <2>2
        <5>2. End(g + 1) \in Nat
          BY <1>1, <1>2, <5>1, EndsRange
        <5>3. j = (End(g + 1) - End(g + 1)) + i
          BY <1>3, <2>8, <4>1
        <5>4. QED
          BY <5>2, <5>3
      <4>2. CASE k - 1 # g + 1
        <5>1. g + 1 \in 0 .. m /\ k - 1 \in 0 .. m /\ g + 1 < k - 1
          BY <1>2, <2>2, <3>1, <4>2
        <5>2. End(g + 1) + 2 <= End(k - 1)
          BY <1>1, <5>1 DEF Later
        <5>3. End(g + 1) \in Nat /\ End(k - 1) \in Nat
          BY <1>1, <1>2, <5>1, EndsRange
        <5>4. QED
          BY <1>3, <2>8, <5>2, <5>3
      <4>3. QED
        BY <4>1, <4>2
    <3>5. j \in 1 .. (a + w) - (2 + l)
      BY <1>2, <3>2, <3>3, <3>4
    <3>6. QED
      BY <1>3, <2>1, <2>5, <3>1, <3>2, <3>5
  <2>9. QED
    <3>. DEFINE h == g + 1
    <3>1. /\ h \in Nat /\ h = Len(got)' /\ m = Len(sent)'
          /\ AvailableData(tail)' + Len(wire)' = End(m)' - End(h)'
          /\ \A k \in h + 1 .. m : \A i \in 1 .. 2 + Len(sent'[k]) :
               \A j : j = (End(k - 1)' - End(h)') + i => Held(j)' = Frame(sent'[k])[i]
      BY <1>1, <1>2, <1>3, <2>3, <2>5, <2>7, <2>8
    <3>. HIDE DEF h
    <3>2. QED
      BY <1>2, <2>4, <3>1, ConservedNext
<1>6. QED
  BY <1>4, <1>5

LEMMA ConservedStep ==
  ASSUME TypeOK, Later, Conserved, Laid', [Next]_vars PROVE Conserved'
<1>1. ASSUME NEW p \in Payloads, Send(p) PROVE Conserved'
  BY <1>1, ConservedSend
<1>2. ASSUME NEW n \in 1 .. Capacity, Fill(n) PROVE Conserved'
  BY <1>2, ConservedFill
<1>3. CASE FramedBufRead
  BY <1>3, ConservedTake DEF FramedBufRead
<1>4. CASE DelimRound
  BY <1>4, ConservedTake DEF DelimRound
<1>5. CASE UNCHANGED <<ring, peer, wire, got, brimmed>>
  <2>1. /\ \A k : End(k)' = End(k) /\ Offset(k)' = Offset(k)
        /\ \A i : Held(i)' = Held(i)
        /\ AvailableData(tail)' = AvailableData(tail)
    BY <1>5 DEF ring, peer, End, Offset, Held, AvailableData
  <2>2. PICK n, g : n = Len(sent) /\ g = Len(got)
    OBVIOUS
  <2>3. brimmed => Conserved'
    BY <1>5 DEF Conserved
  <2>4. ASSUME ~brimmed PROVE Conserved'
    <3>1. sent' = sent /\ got' = got /\ Len(wire)' = Len(wire) /\ Laid
      BY <1>5 DEF peer, Conserved
    <3>2. /\ InStep /\ AvailableData(tail) + Len(wire) = Offset(n + 1)
          /\ \A k \in g + 1 .. n : \A i \in 1 .. 2 + Len(sent[k]) :
               Held(Offset(k) + i) = Frame(sent[k])[i]
      BY <2>2, <2>4 DEF Conserved
    <3>3. n \in Nat /\ g \in Nat /\ (n + 1) - 1 = n
      BY <2>2, <3>1, EndsRange
    <3>4. InStep'
      BY <3>1, <3>2 DEF InStep
    <3>5. AvailableData(tail)' + Len(wire)' = End(n)' - End(g)'
      BY <2>1, <2>2, <3>1, <3>2, <3>3 DEF Offset
    <3>6. ASSUME NEW k \in g + 1 .. n, NEW i \in 1 .. 2 + Len(sent'[k]),
                 NEW j, j = (End(k - 1)' - End(g)') + i
          PROVE  Held(j)' = Frame(sent'[k])[i]
      <4>1. j = Offset(k) + i
        BY <2>1, <2>2, <3>6 DEF Offset
      <4>2. Held(j)' = Held(j)
        BY <2>1
      <4>3. QED
        BY <3>1, <3>2, <4>1, <4>2
    <3>7. QED
      BY <2>2, <3>1, <3>3, <3>4, <3>5, <3>6, ConservedNext
  <2>5. QED
    BY <2>3, <2>4
<1>6. QED
  BY <1>1, <1>2, <1>3, <1>4, <1>5 DEF Next, Take, Copy, DelimBegin, DelimReturn, CopyBegin,
                                      CopyRound, CopyReturn, vars

-----------------------------------------------------------------------------
(* copy_complete_messages                                                  *)

\* Its loop goes from the end of one frame to the end of the next.
LEMMA BoundaryStep ==
  ASSUME TypeOK, Idle, Later, Conserved, AtBoundary, [Next]_vars PROVE AtBoundary'
<1>1. PICK n, g : n = Len(sent) /\ g = Len(got)
  OBVIOUS
<1>2. Laid /\ n \in Nat /\ g \in Nat
  BY <1>1, EndsRange DEF Conserved
<1>3. CASE brimmed' \/ loop' # "copy"
  BY <1>3 DEF AtBoundary
<1>4. CASE ~brimmed' /\ loop' = "copy"
  <2>1. brimmed' = brimmed \/ \E i \in 1 .. Capacity : Fill(i)
    BY DEF Next, Take, Copy, Send, FramedBufRead, DelimBegin, DelimRound, DelimReturn,
           CopyBegin, CopyRound, CopyReturn, vars
  <2>2. ~brimmed
    BY <1>4, <2>1 DEF Fill
  <2>3. g <= n
    BY <1>1, <2>2 DEF Conserved, InStep
  <2>4. ASSUME NEW m \in g .. n, n <= Len(sent)', Len(sent)' \in Nat, got' = got,
               \A k \in 0 .. n : End(k)' = End(k), copied' = End(m) - End(g)
        PROVE  AtBoundary'
    <3>1. m \in Len(got)' .. Len(sent)' /\ (m + 1) - 1 = m /\ m \in 0 .. n /\ g \in 0 .. n
      BY <1>1, <1>2, <2>3, <2>4
    <3>2. Offset(m + 1)' = End(m)' - End(g)'
      BY <1>1, <2>4, <3>1 DEF Offset, End
    <3>3. copied' = Offset(m + 1)'
      BY <2>4, <3>1, <3>2
    <3>4. QED
      BY <3>1, <3>3 DEF AtBoundary
  <2>5. CASE CopyBegin
    <3>1. copied' = 0 /\ sent' = sent /\ ends' = ends /\ got' = got
      BY <2>5 DEF CopyBegin, peer
    <3>2. End(g) \in Nat /\ \A k \in 0 .. n : End(k)' = End(k)
      BY <1>1, <1>2, <2>3, <3>1, EndsRange DEF End
    <3>3. g \in g .. n /\ copied' = End(g) - End(g)
      BY <1>2, <2>3, <3>1, <3>2
    <3>4. QED
      BY <1>1, <1>2, <2>4, <3>1, <3>2, <3>3
  <2>6. CASE CopyRound
    <3>1. PICK m \in g .. n : copied = Offset(m + 1)
      BY <1>1, <2>2, <2>6 DEF AtBoundary, CopyRound
    <3>2. /\ copied' = copied + Length(CurrPos) + 2 /\ sent' = sent /\ ends' = ends
          /\ got' = got /\ copied + 2 <= AvailableData(tail)
      <4>1. BytesAvailable = AvailableData(tail)
        BY <2>2, BytesBetween DEF TypeOK
      <4>2. QED
        BY <2>6, <4>1, AvailableRange DEF CopyRound, peer, More, Remaining, TypeOK
    <3>3. copied \in Nat /\ m \in Len(got) .. Len(sent)
      BY <1>1 DEF TypeOK
    <3>4. PICK c : c = copied
      OBVIOUS
    <3>5. /\ m + 1 \in Len(got) + 1 .. Len(sent) /\ Length(Advance(tail, c)) = Len(sent[m + 1])
          /\ Offset(m + 2) = c + 2 + Len(sent[m + 1])
      BY <2>2, <3>1, <3>2, <3>3, <3>4, FrameAt
    <3>6. m + 1 \in g .. n /\ (m + 2) - 1 = m + 1 /\ m + 1 \in 1 .. Len(sent)
      BY <1>1, <1>2, <3>5
    <3>7. Len(sent[m + 1]) \in Nat
      BY <1>2, <3>6, EndsRange
    <3>8. copied' = Offset(m + 2)
      <4>1. Length(CurrPos) = Len(sent[m + 1])
        BY <3>4, <3>5 DEF CurrPos
      <4>. DEFINE l == Len(sent[m + 1])
      <4>2. copied' = c + l + 2 /\ c \in Nat /\ l \in Nat /\ Offset(m + 2) = c + 2 + l
        BY <3>2, <3>3, <3>4, <3>5, <3>7, <4>1
      <4>. HIDE DEF l
      <4>3. QED
        BY <4>2
    <3>9. copied' = End(m + 1) - End(g)
      BY <1>1, <3>6, <3>8 DEF Offset
    <3>10. \A k \in 0 .. n : End(k)' = End(k)
      BY <3>2 DEF End
    <3>11. QED
      BY <1>1, <1>2, <2>4, <3>2, <3>6, <3>9, <3>10
  <2>7. ASSUME NEW p \in Payloads, Send(p) PROVE AtBoundary'
    <3>1. /\ Len(sent)' = n + 1 /\ \A k \in 0 .. n : End(k)' = End(k)
          /\ copied' = copied /\ loop' = loop /\ got' = got
      BY <1>1, <1>2, <2>7, SendLays DEF Send
    <3>2. PICK m \in g .. n : copied = Offset(m + 1)
      BY <1>1, <1>4, <2>2, <3>1 DEF AtBoundary
    <3>3. (m + 1) - 1 = m
      BY <1>2
    <3>4. copied' = End(m) - End(g)
      BY <1>1, <3>1, <3>2, <3>3 DEF Offset
    <3>5. QED
      BY <1>2, <2>4, <3>1, <3>4
  <2>8. CASE UNCHANGED vars
    <3>1. /\ sent' = sent /\ ends' = ends /\ got' = got /\ copied' = copied /\ loop' = loop
      BY <2>8 DEF vars, peer
    <3>2. PICK m \in g .. n : copied = Offset(m + 1)
      BY <1>1, <1>4, <2>2, <3>1 DEF AtBoundary
    <3>3. (m + 1) - 1 = m /\ \A k \in 0 .. n : End(k)' = End(k)
      BY <1>2, <3>1 DEF End
    <3>4. copied' = End(m) - End(g)
      BY <1>1, <3>1, <3>2, <3>3 DEF Offset
    <3>5. QED
      BY <1>1, <1>2, <2>4, <3>1, <3>3, <3>4
  <2>9. QED
    BY <1>4, <2>5, <2>6, <2>7, <2>8 DEF Next, Take, Copy, Fill, FramedBufRead, DelimBegin,
                                        DelimRound, DelimReturn, CopyReturn
<1>5. QED
  BY <1>3, <1>4

\* What ends where a frame does is a copy of whole frames; and as long as another
\* one is in the ring, the loop goes on.
LEMMA CopiesFrames ==
  ASSUME TypeOK, Idle, Later, Conserved, AtBoundary PROVE CopyIsWholeFrames
<1>. SUFFICES ASSUME ~brimmed, loop = "copy" PROVE CopyIsWholeFrames
  BY DEF CopyIsWholeFrames
<1>1. PICK n, g, a : n = Len(sent) /\ g = Len(got) /\ a = AvailableData(tail)
  OBVIOUS
<1>2. PICK m \in g .. n : copied = Offset(m + 1)
  BY <1>1 DEF AtBoundary
<1>3. /\ Laid /\ InStep /\ n \in Nat /\ g \in Nat /\ g <= n
      /\ copied \in 0 .. a /\ a \in 0 .. Capacity - 1
      /\ m \in Len(got) .. Len(sent) /\ m \in 0 .. n /\ (m + 1) - 1 = m
  <2>1. Laid /\ InStep
    BY DEF Conserved
  <2>2. n \in Nat /\ g \in Nat
    BY <1>1, <2>1, EndsRange
  <2>3. g <= n /\ copied \in 0 .. a
    BY <1>1, <2>1, BytesBetween DEF InStep, TypeOK
  <2>4. QED
    BY <1>1, <2>1, <2>2, <2>3, AvailableRange
<1>4. PICK c : c = copied
  OBVIOUS
<1>5. c \in Nat /\ c = Offset(m + 1) /\ c <= a /\ c = End(m) - End(g)
  <2>1. a \in Nat
    BY <1>3
  <2>2. QED
    BY <1>1, <1>2, <1>3, <1>4, <2>1 DEF Offset
<1>6. End(m) \in Nat /\ End(g) \in Nat
  BY <1>1, <1>3, EndsRange
<1>7. ASSUME NEW k \in g + 1 .. m, NEW i \in 1 .. 2 + Len(sent[k])
      PROVE  CopyOut(Offset(k) + i) = Frame(sent[k])[i]
  <2>1. k \in g + 1 .. n /\ k \in 1 .. n /\ k \in 0 .. n
    BY <1>3
  <2>2. Offset(k) \in Nat /\ Offset(k) = End(k - 1) - End(g)
    BY <1>1, <2>1, Within DEF Offset
  <2>3. /\ Len(sent[k]) \in Nat /\ End(k) \in Nat /\ End(k - 1) \in Nat
        /\ End(k) = End(k - 1) + 2 + Len(sent[k])
    <3>1. k - 1 \in 0 .. n
      BY <1>3, <2>1
    <3>2. QED
      BY <1>1, <1>3, <2>1, <3>1, EndsRange
  <2>4. End(k) <= End(m)
    <3>1. CASE k = m
      BY <2>3, <3>1
    <3>2. CASE k # m
      <4>1. k < m
        BY <1>3, <2>1, <3>2
      <4>2. End(k) + 2 <= End(m)
        BY <1>1, <1>3, <2>1, <4>1 DEF Later
      <4>3. QED
        BY <1>6, <2>3, <4>2
    <3>3. QED
      BY <3>1, <3>2
  <2>5. PICK j : j = Offset(k) + i
    OBVIOUS
  <2>6. j \in 1 .. c
    <3>. DEFINE x == End(k - 1)
                y == End(k)
                z == End(m)
                u == End(g)
                l == Len(sent[k])
    <3>1. /\ x \in Nat /\ y \in Nat /\ z \in Nat /\ u \in Nat /\ l \in Nat
          /\ y = x + 2 + l /\ y <= z /\ c = z - u /\ x - u \in Nat /\ j = (x - u) + i
          /\ i \in 1 .. 2 + l
      BY <1>5, <1>6, <2>2, <2>3, <2>4, <2>5
    <3>. HIDE DEF x, y, z, u, l
    <3>2. QED
      BY <1>5, <3>1
  <2>7. CopyOut(j) = Held(j)
    <3>1. PICK f : f = FirstChunk
      OBVIOUS
    <3>2. f = IF head > tail \/ c < Capacity - tail THEN c ELSE Capacity - tail
      BY <1>4, <3>1 DEF FirstChunk
    <3>3. c \in 0 .. AvailableData(tail)
      BY <1>1, <1>3, <1>4
    <3>4. (IF j <= f THEN buffer[tail + j - 1] ELSE buffer[j - f - 1]) = Held(j)
      BY <2>6, <3>2, <3>3, ChunksAreHeld
    <3>5. QED
      BY <3>1, <3>4 DEF CopyOut
  <2>8. Held(j) = Frame(sent[k])[i]
    BY <1>1, <2>1, <2>5 DEF Conserved
  <2>9. QED
    BY <2>5, <2>7, <2>8
<1>8. ASSUME ~More, m # n, ~(Offset(m + 2) > a) PROVE FALSE
  <2>1. m + 1 \in 1 .. n /\ m + 1 \in 0 .. n /\ (m + 2) - 1 = m + 1
    BY <1>3, <1>8
  <2>2. /\ Len(sent[m + 1]) \in Nat /\ End(m + 1) \in Nat
        /\ End(m + 1) = End(m) + 2 + Len(sent[m + 1])
    BY <1>1, <1>3, <2>1, EndsRange
  <2>3. Offset(m + 2) = End(m + 1) - End(g)
    BY <1>1, <2>1 DEF Offset
  <2>. DEFINE x == End(m)
              y == End(m + 1)
              u == End(g)
              l == Len(sent[m + 1])
  <2>4. /\ x \in Nat /\ y \in Nat /\ u \in Nat /\ l \in Nat /\ a \in Nat
        /\ y = x + 2 + l /\ c = x - u /\ ~(y - u > a)
    BY <1>3, <1>5, <1>6, <1>8, <2>2, <2>3
  <2>. HIDE DEF x, y, u, l
  <2>5. c + 2 <= a /\ a - c >= 2 /\ a - c >= l + 2
    BY <1>5, <2>4
  <2>6. Length(Advance(tail, c)) = Len(sent[m + 1])
    BY <1>1, <1>3, <1>5, <2>5, FrameAt
  <2>7. More
    <3>1. BytesAvailable = a
      BY <1>1, BytesBetween DEF TypeOK
    <3>2. QED
      BY <1>4, <2>5, <2>6, <3>1 DEF More, Remaining, CurrPos, l
  <2>8. QED
    BY <1>8, <2>7
<1>9. QED
  BY <1>1, <1>2, <1>3, <1>7, <1>8 DEF CopyIsWholeFrames

-----------------------------------------------------------------------------
(* The theorems                                                            *)

\* IInv holds in every reachable state of every instance.
THEOREM InductiveInvariant == Spec => []IInv
<1>1. IInv /\ [Next]_vars => IInv'
  <2>. SUFFICES ASSUME IInv, [Next]_vars PROVE IInv'
    OBVIOUS
  <2>1. TypeOK /\ Idle /\ Later /\ Conserved /\ AtBoundary /\ Laid
    BY DEF IInv, Conserved
  <2>2. TypeOK' /\ Idle'
    BY <2>1, TypeStep, IdleStep
  <2>3. Later' /\ Laid'
    BY <2>1, LaterStep
  <2>4. Conserved'
    BY <2>1, <2>3, ConservedStep
  <2>5. AtBoundary'
    BY <2>1, BoundaryStep
  <2>6. QED
    BY <2>2, <2>3, <2>4, <2>5 DEF IInv
<1>2. QED
  BY <1>1, InitIInv, PTL DEF Spec

\* However read(2) cuts the frames, wherever they wrap around the array, whichever
\* calls fill and empty it: frames come out whole and in the order in which they
\* were sent, nothing between the reader and the peer is lost or overwritten, no
\* output is written past its end, and a copy is made of all the frames that are
\* wholly in the ring - as long as feed_fd has not filled it to the last byte.
THEOREM FramesKeptHolds == Spec => []FramesKept
<1>1. IInv => FramesKept
  BY CopiesFrames DEF IInv, FramesKept
<1>2. QED
  BY <1>1, InductiveInvariant, PTL

\* A full ring looks empty only where feed_fd has filled it behind a reader at the
\* start of the array; framed_io_read never does that.
THEOREM BrimsOnlyAtOriginHolds == Spec => BrimsOnlyAtOrigin
<1>1. IInv /\ [Next]_vars => [head' # head /\ head' = tail => feeder = "feed_fd" /\ tail = 0]_vars
  <2>. SUFFICES ASSUME IInv, [Next]_vars, head' # head, head' = tail
                PROVE  feeder = "feed_fd" /\ tail = 0
    OBVIOUS
  <2>1. PICK n \in 1 .. Capacity : Fill(n)
    BY DEF Next, Take, Copy, Send, FramedBufRead, DelimBegin, DelimRound, DelimReturn,
           CopyBegin, CopyRound, CopyReturn, vars, ring
  <2>2. QED
    BY <2>1, FillBrims DEF IInv
<1>2. QED
  BY <1>1, InductiveInvariant, PTL DEF Spec, BrimsOnlyAtOrigin
=============================================================================
