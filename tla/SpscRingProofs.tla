--------------------------- MODULE SpscRingProofs ---------------------------
(***************************************************************************)
(* Proofs about SpscRing, for every number of slots, every index width     *)
(* that is a multiple of it and every number of pushes.  The arithmetic of *)
(* the wrapping indices comes first; the rest of the proof meets it only   *)
(* in RoomIsRoom, NothingIsNothing and SlotOfIndex.                        *)
(***************************************************************************)
EXTENDS SpscRing, TLAPS

\* What a division leaves: a quotient, a remainder below the divisor.
LEMMA DivMod ==
  ASSUME NEW c \in Nat \ {0}, NEW a \in Nat
  PROVE /\ a \div c \in Nat /\ a % c \in 0 .. c - 1
        /\ a = c * (a \div c) + (a % c)
 BY SMTT(20)

\* A remainder is the only number below the divisor that fits.
LEMMA ModUnique ==
  ASSUME NEW c \in Nat \ {0}, NEW q \in Int, NEW r \in 0 .. c - 1, NEW a \in Int, a = (c * q) + r
  PROVE a % c = r
 BY SMTT(20)

\* A positive multiple of c is at least c.
LEMMA NoMultiple ==
  ASSUME NEW c \in Nat \ {0}, NEW x \in Int, c * x > 0
  PROVE  c * x >= c
<1>1. CASE x <= 0 BY <1>1, SMTT(20)
<1>2. CASE x >= 1 BY <1>2, SMTT(20)
<1> QED BY <1>1, <1>2

\* Multiplication distributes over sums and differences.
LEMMA Distr ==
  ASSUME NEW c \in Int, NEW x \in Int, NEW y \in Int
  PROVE c * (x - y) = (c * x) - (c * y) /\ c * (x + y) = (c * x) + (c * y)
 BY SMTT(20)

\* Two numbers less than c apart have different remainders: the indices of the
\* elements a ring holds select different slots.
LEMMA NoClash ==
  ASSUME NEW c \in Nat \ {0}, NEW a \in Nat, NEW b \in Nat, a < b, b < a + c
  PROVE a % c # b % c
<1>1. SUFFICES ASSUME a % c = b % c PROVE FALSE OBVIOUS
<1> DEFINE qa == a \div c qb == b \div c
<1>2. qa \in Nat /\ qb \in Nat /\ a = c * qa + (a % c) /\ b = c * qb + (b % c) /\ a % c \in Int BY DivMod
<1> HIDE DEF qa, qb
<1>3. b - a = (c * qb) - (c * qa) BY <1>1, <1>2, SMTT(20)
<1>4. b - a = c * (qb - qa) BY <1>2, <1>3, Distr
<1> QED BY <1>2, <1>4, NoMultiple, SMTT(20)

\* Wrapping before or after adding one makes no difference.
LEMMA ModAdd ==
  ASSUME NEW w \in Nat \ {0}, NEW a \in Nat
  PROVE ((a % w) + 1) % w = (a + 1) % w
<1> DEFINE q == (a + 1) \div w r == (a+1) % w p == a \div w
<1>0. a + 1 \in Nat OBVIOUS
<1>1. q \in Nat /\ r \in 0 .. w - 1 /\ a + 1 = (w * q) + r BY <1>0, DivMod
<1>2. p \in Nat /\ a % w \in Int /\ a = w * p + (a % w) BY DivMod
<1> HIDE DEF q, r, p
<1>3. (a % w) + 1 = ((w * q) - (w * p)) + r BY <1>1, <1>2, SMTT(20)
<1>4. (a % w) + 1 = (w * (q - p)) + r BY <1>1, <1>2, <1>3, Distr
<1>5. ((a % w) + 1) % w = r BY <1>1, <1>2, <1>4, ModUnique
<1> QED BY <1>5 DEF r

\* The wrapped difference of two wrapped counters is the difference of the
\* counters, as long as that is less than the modulus.
LEMMA WrapDistance ==
  ASSUME NEW w \in Nat \ {0}, NEW a \in Nat, NEW b \in Nat, a <= b, b < a + w
  PROVE ((b % w) - (a % w)) % w = b - a
<1> DEFINE qa == a \div w qb == b \div w
<1>1. qa \in Nat /\ qb \in Nat /\ a % w \in Int /\ b % w \in Int
      /\ a = w * qa + (a % w) /\ b = w * qb + (b % w) BY DivMod
<1> HIDE DEF qa, qb
<1>2. (b % w) - (a % w) = ((w * qa) - (w * qb)) + (b - a) BY <1>1, SMTT(20)
<1>3. (b % w) - (a % w) = (w * (qa - qb)) + (b - a) BY <1>1, <1>2, Distr
<1>4. qa - qb \in Int /\ b - a \in 0 .. w - 1 /\ (b % w) - (a % w) \in Int
  BY <1>1
<1> QED BY <1>3, <1>4, ModUnique, SMTT(30)

\* The bits under a mask survive the wrap of a wider counter.
LEMMA ModMod ==
  ASSUME NEW c \in Nat \ {0}, NEW k \in Nat \ {0}, NEW a \in Nat
  PROVE (a % (c * k)) % c = a % c
<1> DEFINE w == c * k
<1>1. w \in Nat \ {0} BY SMTT(20)
<1> HIDE DEF w
<1> DEFINE p == a \div w m == a % w
<1>2. a = (w * p) + m /\ p \in Nat /\ m \in Nat BY <1>1, DivMod
<1> HIDE DEF p, m
<1> DEFINE q == m \div c r == m % c
<1>3. m = (c * q) + r /\ q \in Nat /\ r \in 0 .. c - 1 BY <1>2, DivMod
<1> HIDE DEF q, r
<1>4. w * p = c * (k * p) BY <1>2, SMTT(20) DEF w
<1>5. k * p \in Int /\ (k * p) + q \in Int BY <1>2, <1>3, SMTT(20)
<1>6. a = (c * ((k * p) + q)) + r 
  <2>1. c * ((k * p) + q) = (c * (k * p)) + (c * q) BY <1>3, <1>5, Distr
  <2> QED BY <2>1, <1>2, <1>3, <1>4, <1>5
<1> DEFINE z == (k * p) + q
<1>7. z \in Int /\ a = (c * z) + r BY <1>5, <1>6
<1> HIDE DEF z
<1>8. a % c = r BY <1>3, <1>7, ModUnique
<1> QED BY <1>8 DEF w, m, r

-----------------------------------------------------------------------------
\* The modulus of the indices is larger than the ring.
LEMMA WrapIsWide == W \in Nat \ {0} /\ Cap < W
<1>1. Cap * Laps >= Cap * 2  BY RingAssumption, SMTT(20)
<1>2. Cap * Laps \in Nat  BY RingAssumption, SMTT(20)
<1> QED  BY <1>1, <1>2, RingAssumption DEF W

\* A wrapped index selects the slot of the unwrapped one.
LEMMA SlotOfIndex ==
  ASSUME NEW n \in Nat
  PROVE  Slot(n % W) = n % Cap /\ n % Cap \in 0 .. Cap - 1
  BY ModMod, DivMod, RingAssumption DEF Slot, W

\* The wrapped test of push is a test of the number of elements.
LEMMA RoomIsRoom ==
  ASSUME TypeOK, CountersAgree
  PROVE  Full <=> Len(given) = stores + Cap
<1> DEFINE n == Len(given)
<1>1. n \in Nat /\ stores \in Nat  BY DEF TypeOK
<1>2. stores <= n /\ n < stores + W
  BY <1>1, WrapIsWide, RingAssumption DEF CountersAgree
<1>3. ((n % W) - (stores % W)) % W = n - stores
  <2> HIDE DEF n
  <2> QED  BY <1>1, <1>2, WrapIsWide, WrapDistance
<1> QED  BY <1>1, <1>3, RingAssumption DEF Full, CountersAgree

\* The comparison of pop is a test for an empty ring.
LEMMA NothingIsNothing ==
  ASSUME TypeOK, CountersAgree
  PROVE  tail = head <=> stores = Len(given)
<1> DEFINE n == Len(given)
<1>1. n \in Nat /\ stores \in Nat  BY DEF TypeOK
<1>2. stores <= n /\ n < stores + W
  BY <1>1, WrapIsWide, RingAssumption DEF CountersAgree
<1>3. CASE stores < n
  <2>1. stores % W # n % W
    <3> HIDE DEF n
    <3> QED  BY <1>1, <1>2, <1>3, WrapIsWide, NoClash
  <2> QED  BY <2>1, <1>3, <1>1 DEF CountersAgree
<1>4. CASE stores = n  BY <1>4 DEF CountersAgree
<1> QED  BY <1>1, <1>2, <1>3, <1>4

-----------------------------------------------------------------------------
\* The invariant holds initially.
LEMMA InitIInv == Init => IInv
<1> SUFFICES ASSUME Init PROVE IInv  OBVIOUS
<1>1. W \in Nat \ {0} /\ 0 % W = 0
  BY WrapIsWide, ModUnique
<1>2. given = <<>> /\ taken = <<>> /\ stores = 0 /\ Len(given) = 0 /\ Len(taken) = 0
  BY DEF Init
<1>3. TypeOK
  <2>1. 0 \in 0 .. W - 1 /\ 0 \in 0 .. ByteMod - 1
    BY <1>1, RingAssumption
  <2>2. <<>> \in Seq(Nat)  OBVIOUS
  <2>3. buf \in [0 .. Cap - 1 -> 0 .. ByteMod - 1]
    BY <2>1 DEF Init
  <2> QED  BY <2>1, <2>2, <2>3 DEF Init, TypeOK
<1>4. CountersAgree  BY <1>1, <1>2, RingAssumption DEF Init, CountersAgree
<1>5. UnreadKept  BY <1>2 DEF UnreadKept
<1>6. PushInRoom  BY DEF Init, PushInRoom
<1>7. PopInHand  BY <1>2 DEF Init, PopInHand, Loading, Storing
<1>8. LappedAtMostOnce /\ Fifo  BY <1>2 DEF LappedAtMostOnce, Fifo
<1> QED  BY <1>3, <1>4, <1>5, <1>6, <1>7, <1>8 DEF IInv
\* Bytes are bytes.
LEMMA LowType == \A x \in Nat : Low(x) \in 0 .. ByteMod - 1
  BY DivMod, RingAssumption DEF Low

\* The machine does not change its memory order.
LEMMA OrderFixed == ASSUME [Next]_vars PROVE inOrder' = inOrder
  BY DEF Next, Producer, Consumer, PushStart, PushRefused, WriteSlot, Publish,
         PopRefused, PopStart, LoadSlot, StoreTail, PopReturn, producer, consumer,
         vars

\* Every step keeps the types.
LEMMA TypeStep == IInv /\ [Next]_vars => TypeOK'
<1> SUFFICES ASSUME IInv, [Next]_vars PROVE TypeOK'  OBVIOUS
<1>1. TypeOK  BY DEF IInv
<1>2. \A n \in Nat : n % W \in 0 .. W - 1  BY WrapIsWide, DivMod
<1>3. ASSUME NEW x \in Values, PushStart(x) PROVE TypeOK'
  BY <1>1, <1>3, RingAssumption DEF TypeOK, PushStart, consumer
<1>4. CASE WriteSlot
  <2>1. Low(v) \in 0 .. ByteMod - 1  BY <1>1, LowType DEF TypeOK
  <2>2. buf' \in [0 .. Cap - 1 -> 0 .. ByteMod - 1]
    BY <1>1, <1>4, <2>1 DEF TypeOK, WriteSlot
  <2> QED  BY <1>1, <1>4, <2>2 DEF TypeOK, WriteSlot, consumer
<1>5. CASE Publish
  <2>1. h + 1 \in Nat  BY <1>1, WrapIsWide DEF TypeOK
  <2>2. (h + 1) % W \in 0 .. W - 1  BY <1>2, <2>1
  <2>3. Append(given, v) \in Seq(Nat)  BY <1>1 DEF TypeOK
  <2> QED  BY <1>1, <1>5, <2>2, <2>3 DEF TypeOK, Publish, consumer
<1>6. CASE PopStart  BY <1>1, <1>6 DEF TypeOK, PopStart, producer
<1>7. CASE LoadSlot
  <2>1. t \in Nat  BY <1>1, WrapIsWide DEF TypeOK
  <2>2. Slot(t) \in 0 .. Cap - 1  BY <2>1, DivMod, RingAssumption DEF Slot
  <2>3. buf[Slot(t)] \in Nat
    BY <1>1, <2>2, RingAssumption DEF TypeOK
  <2> QED  BY <1>1, <1>7, <2>3 DEF TypeOK, LoadSlot, producer
<1>8. CASE StoreTail
  <2>1. t + 1 \in Nat  BY <1>1, WrapIsWide DEF TypeOK
  <2>2. (t + 1) % W \in 0 .. W - 1  BY <1>2, <2>1
  <2> QED  BY <1>1, <1>8, <2>2 DEF TypeOK, StoreTail, producer
<1>9. CASE PopReturn
  <2>1. Append(taken, o) \in Seq(Nat)  BY <1>1 DEF TypeOK
  <2> QED  BY <1>1, <1>9, <2>1 DEF TypeOK, PopReturn, producer
<1>10. CASE UNCHANGED vars  BY <1>1, <1>10 DEF TypeOK, vars
<1> QED
  BY <1>3, <1>4, <1>5, <1>6, <1>7, <1>8, <1>9, <1>10
  DEF Next, Producer, Consumer, PushRefused, PopRefused
\* What is written stays written: a step adds at most one value, at the end.
LEMMA WrittenGrows ==
  ASSUME IInv, [Next]_vars
  PROVE  /\ Len(given) \in Nat /\ Len(given) <= Len(given')
         /\ \A k \in 1 .. Len(given) : given'[k] = given[k]
         /\ Len(Written) <= Len(Written')
         /\ \A k \in 1 .. Len(Written) : Written'[k] = Written[k]
<1>1. TypeOK /\ Len(given) \in Nat  BY DEF IInv, TypeOK
<1>2. CASE Publish  BY <1>1, <1>2 DEF Publish, Written, TypeOK
<1>3. CASE WriteSlot  BY <1>1, <1>3 DEF WriteSlot, Written, TypeOK
<1>4. ASSUME NEW x \in Values, PushStart(x)
      PROVE  given' = given /\ Written' = Written
  BY <1>4 DEF PushStart, Written
<1>5. CASE Consumer \/ PushRefused \/ UNCHANGED vars
  <2>1. given' = given /\ ppc' = ppc /\ v' = v
    BY <1>5 DEF Consumer, PopStart, PopRefused, LoadSlot, StoreTail, PopReturn,
                PushRefused, vars, producer
  <2> QED  BY <1>1, <2>1 DEF Written, TypeOK
<1>6. given \in Seq(Nat) /\ Written \in Seq(Nat)
  BY <1>1 DEF TypeOK, Written
<1> QED  BY <1>1, <1>2, <1>3, <1>4, <1>5, <1>6 DEF Next, Producer

\* The counters keep agreeing with the elements they count.
LEMMA CountersStep == IInv /\ [Next]_vars => CountersAgree'
<1> SUFFICES ASSUME IInv, [Next]_vars PROVE CountersAgree'  OBVIOUS
<1>1. TypeOK /\ CountersAgree  BY DEF IInv
<1>2. Len(given) \in Nat /\ Len(taken) \in Nat /\ stores \in Nat  BY <1>1 DEF TypeOK
<1>3. ASSUME NEW x \in Values, PushStart(x) PROVE CountersAgree'
  BY <1>1, <1>3 DEF CountersAgree, PushStart
<1>4. CASE WriteSlot  BY <1>1, <1>4 DEF CountersAgree, WriteSlot
<1>5. CASE Publish
  <2>1. h = Len(given) % W /\ Len(given) < stores + Cap
    BY <1>1, <1>5 DEF IInv, PushInRoom, Publish, CountersAgree
  <2>2. (h + 1) % W = (Len(given) + 1) % W  BY <1>2, <2>1, WrapIsWide, ModAdd
  <2>3. Len(given') = Len(given) + 1
    BY <1>1, <1>5 DEF Publish, TypeOK
  <2> QED
    BY <1>1, <1>2, <1>5, <2>1, <2>2, <2>3, RingAssumption DEF Publish, CountersAgree
<1>6. CASE StoreTail
  <2>1. stores = Len(taken) /\ stores + 1 <= Len(given) /\ t = stores % W
    BY <1>2, <1>6 DEF IInv, PopInHand, Storing, StoreTail
  <2>2. (t + 1) % W = (stores + 1) % W  BY <1>2, <2>1, WrapIsWide, ModAdd
  <2> QED
    BY <1>1, <1>2, <1>6, <2>1, <2>2, RingAssumption DEF StoreTail, CountersAgree, producer
<1>7. CASE PopStart \/ LoadSlot \/ PopReturn \/ UNCHANGED vars
  <2>1. UNCHANGED <<head, tail, given, stores>>
    BY <1>7 DEF PopStart, LoadSlot, PopReturn, vars
  <2> QED  BY <1>1, <2>1 DEF CountersAgree
<1> QED
  BY <1>3, <1>4, <1>5, <1>6, <1>7 DEF Next, Producer, Consumer, PushRefused, PopRefused

\* The slot a push writes is the slot of no unread element.
LEMMA UnreadStep == IInv /\ [Next]_vars => UnreadKept'
<1> SUFFICES ASSUME IInv, [Next]_vars PROVE UnreadKept'  OBVIOUS
<1>1. TypeOK /\ CountersAgree /\ UnreadKept /\ PushInRoom  BY DEF IInv
<1>2. Len(given) \in Nat /\ stores \in Nat  BY <1>1 DEF TypeOK
<1>3. ASSUME NEW x \in Values, PushStart(x) PROVE UnreadKept'
  BY <1>1, <1>3 DEF UnreadKept, PushStart
<1>4. CASE WriteSlot
  <2> SUFFICES ASSUME NEW k \in stores + 1 .. Len(given)
               PROVE  buf'[(k - 1) % Cap] = Low(given[k])
    BY <1>4 DEF WriteSlot, UnreadKept
  <2>1. h = Len(given) % W /\ Len(given) < stores + Cap
    BY <1>1, <1>4 DEF PushInRoom, WriteSlot, CountersAgree
  <2>2. Slot(h) = Len(given) % Cap  BY <1>2, <2>1, SlotOfIndex
  <2>3. k - 1 \in Nat /\ k - 1 < Len(given) /\ Len(given) < (k - 1) + Cap
    BY <1>2, <2>1, RingAssumption
  <2>4. (k - 1) % Cap # Slot(h)
    BY <1>2, <2>2, <2>3, NoClash, RingAssumption
  <2>5. buf'[(k - 1) % Cap] = buf[(k - 1) % Cap]
    <3>1. (k - 1) % Cap \in 0 .. Cap - 1  BY <2>3, DivMod, RingAssumption
    <3> QED  BY <1>1, <1>4, <2>4, <3>1 DEF WriteSlot, TypeOK
  <2> QED  BY <1>1, <2>5 DEF UnreadKept
<1>5. CASE Publish
  <2>1. h = Len(given) % W /\ buf[Slot(h)] = Low(v)
    BY <1>1, <1>5 DEF PushInRoom, Publish, CountersAgree
  <2>2. Slot(h) = Len(given) % Cap  BY <1>2, <2>1, SlotOfIndex
  <2>3. /\ Len(given') = Len(given) + 1 /\ given'[Len(given) + 1] = v
        /\ \A k \in 1 .. Len(given) : given'[k] = given[k]
    BY <1>1, <1>5 DEF Publish, TypeOK
  <2> SUFFICES ASSUME NEW k \in stores + 1 .. Len(given) + 1
               PROVE  buf[(k - 1) % Cap] = Low(given'[k])
    BY <1>5, <2>3 DEF Publish, UnreadKept, consumer
  <2>4. CASE k = Len(given) + 1
    <3>1. k - 1 = Len(given)  BY <1>2, <2>4
    <3> QED  BY <2>1, <2>2, <2>3, <2>4, <3>1
  <2>5. CASE k <= Len(given)
    BY <1>1, <1>2, <2>3, <2>5 DEF UnreadKept
  <2> QED  BY <1>2, <2>4, <2>5
<1>6. CASE StoreTail  BY <1>1, <1>2, <1>6 DEF StoreTail, UnreadKept
<1>7. CASE PopStart \/ LoadSlot \/ PopReturn \/ UNCHANGED vars
  <2>1. UNCHANGED <<buf, given, stores>>
    BY <1>7 DEF PopStart, LoadSlot, PopReturn, vars
  <2> QED  BY <1>1, <2>1 DEF UnreadKept
<1> QED
  BY <1>3, <1>4, <1>5, <1>6, <1>7 DEF Next, Producer, Consumer, PushRefused, PopRefused

\* A push under way still has the room it found.
LEMMA PushStep == IInv /\ [Next]_vars => PushInRoom'
<1> SUFFICES ASSUME IInv, [Next]_vars PROVE PushInRoom'  OBVIOUS
<1>1. TypeOK /\ CountersAgree /\ PushInRoom  BY DEF IInv
<1>2. Len(given) \in Nat /\ stores \in Nat  BY <1>1 DEF TypeOK
<1>3. ASSUME NEW x \in Values, PushStart(x) PROVE PushInRoom'
  <2>1. Len(given) # stores + Cap  BY <1>1, <1>3, RoomIsRoom DEF PushStart
  <2>2. Len(given) < stores + Cap
    BY <1>1, <1>2, <2>1, RingAssumption DEF CountersAgree
  <2> QED  BY <1>3, <2>2 DEF PushInRoom, PushStart
<1>4. CASE WriteSlot
  <2>1. h \in Nat /\ Slot(h) \in 0 .. Cap - 1
    BY <1>1, WrapIsWide, DivMod, RingAssumption DEF TypeOK, Slot
  <2>2. buf'[Slot(h)] = Low(v)  BY <1>1, <1>4, <2>1 DEF WriteSlot, TypeOK
  <2> QED  BY <1>1, <1>4, <2>2 DEF PushInRoom, WriteSlot
<1>5. CASE Publish  BY <1>5 DEF PushInRoom, Publish
<1>6. CASE StoreTail
  BY <1>1, <1>2, <1>6, RingAssumption DEF StoreTail, PushInRoom, producer
<1>7. CASE PopStart \/ LoadSlot \/ PopReturn \/ UNCHANGED vars
  <2>1. UNCHANGED <<ppc, h, v, buf, head, given, stores>>
    BY <1>7 DEF PopStart, LoadSlot, PopReturn, vars, producer
  <2> QED  BY <1>1, <2>1 DEF PushInRoom
<1> QED
  BY <1>3, <1>4, <1>5, <1>6, <1>7 DEF Next, Producer, Consumer, PushRefused, PopRefused
\* The slot of the element a pop has yet to read, before tail is advanced.
LEMMA SlotOfNext ==
  ASSUME IInv, Storing
  PROVE  buf[Slot(t)] = Low(given[Len(taken) + 1])
<1>1. /\ Len(taken) \in Nat /\ stores = Len(taken) /\ Len(taken) + 1 <= Len(given)
      /\ t = Len(taken) % W
  BY DEF IInv, TypeOK, PopInHand, Storing
<1>2. Slot(t) = Len(taken) % Cap  BY <1>1, SlotOfIndex
<1>3. (Len(taken) + 1) - 1 = Len(taken) /\ Len(taken) + 1 \in stores + 1 .. Len(given)
  BY <1>1 DEF IInv, TypeOK
<1>4. buf[((Len(taken) + 1) - 1) % Cap] = Low(given[Len(taken) + 1])
  BY <1>3 DEF IInv, UnreadKept
<1> QED  BY <1>2, <1>3, <1>4

\* What a pop holds, or is about to read, when only the producer moves.
LEMMA PopStepOfProducer ==
  ASSUME IInv, [Next]_vars, UNCHANGED <<todo, t, o, busy, stores, taken>>,
         buf' = buf \/ WriteSlot
  PROVE  PopInHand'
<1>1. TypeOK /\ PopInHand /\ Len(taken) \in Nat /\ stores \in Nat /\ Len(given) \in Nat
  BY DEF IInv, TypeOK
<1> DEFINE k == Len(taken) + 1
<1>2. (Loading' <=> Loading) /\ (Storing' <=> Storing)  BY DEF Loading, Storing
<1>3. /\ ~busy => todo = {} /\ stores = Len(taken)
      /\ Storing => stores = Len(taken) /\ k <= Len(given)
      /\ busy /\ ~Storing => stores = k
      /\ busy => t = Len(taken) % W
      /\ Loading /\ inOrder => Storing
  BY <1>1 DEF PopInHand
<1>4. busy => k \in 1 .. Len(given) /\ given'[k] = given[k]
  BY <1>1, <1>3, WrittenGrows DEF IInv, CountersAgree
<1>5. k + Cap <= Len(Written) =>
        k + Cap <= Len(Written') /\ Written'[k + Cap] = Written[k + Cap]
  <2>1. Written \in Seq(Nat) /\ Written' \in Seq(Nat)
    BY <1>1, TypeStep DEF Written, TypeOK
  <2>2. Len(Written) \in Nat /\ Len(Written') \in Nat  BY <2>1
  <2>3. k + Cap \in Nat /\ k + Cap >= 1  BY <1>1, RingAssumption
  <2> QED  BY <2>2, <2>3, WrittenGrows
<1>6. busy /\ ~Loading =>
        \/ o = Low(given'[k])
        \/ ~inOrder /\ k + Cap <= Len(Written') /\ o = Low(Written'[k + Cap])
  BY <1>1, <1>4, <1>5 DEF PopInHand
<1>7. Loading /\ ~Storing =>
        \/ buf'[Slot(t)] = Low(given'[k])
        \/ k + Cap <= Len(Written') /\ buf'[Slot(t)] = Low(Written'[k + Cap])
  <2> SUFFICES ASSUME Loading, ~Storing
               PROVE  \/ buf'[Slot(t)] = Low(given'[k])
                      \/ /\ k + Cap <= Len(Written')
                         /\ buf'[Slot(t)] = Low(Written'[k + Cap])
    OBVIOUS
  <2>1. busy  BY DEF Loading
  <2>2. CASE buf' = buf
    BY <1>1, <1>4, <1>5, <2>1, <2>2 DEF PopInHand
  <2>3. CASE WriteSlot
    <3>1. h = Len(given) % W /\ Len(given) < stores + Cap /\ stores <= Len(given)
      BY <2>3 DEF IInv, PushInRoom, WriteSlot, CountersAgree
    <3>2. Slot(h) = Len(given) % Cap /\ Slot(t) = Len(taken) % Cap
          /\ Slot(h) \in 0 .. Cap - 1 /\ Slot(t) \in 0 .. Cap - 1
      BY <1>1, <1>3, <2>1, <3>1, SlotOfIndex
    <3>3. buf' = [buf EXCEPT ![Slot(h)] = Low(v)] /\ Written' = Append(given, v)
      BY <2>3 DEF WriteSlot, Written
    <3>4. stores = k  BY <1>3, <2>1
    <3>5. CASE Len(given) = Len(taken) + Cap
      <4>1. Len(Written') = k + Cap /\ Written'[k + Cap] = v
        <5>1. given \in Seq(Nat) /\ v \in Nat  BY <1>1 DEF TypeOK
        <5>2. /\ Len(Append(given, v)) = Len(given) + 1
              /\ Append(given, v)[Len(given) + 1] = v
          BY <5>1
        <5>3. Len(given) + 1 = k + Cap  BY <1>1, <3>5, RingAssumption
        <5> QED  BY <3>3, <5>2, <5>3
      <4>2. buf'[Slot(t)] = Low(v)  \/ buf'[Slot(t)] = buf[Slot(t)]
        BY <1>1, <3>2, <3>3 DEF TypeOK
      <4>3. CASE buf'[Slot(t)] = Low(v)
        BY <4>1, <4>3, <1>1, RingAssumption
      <4>4. CASE buf'[Slot(t)] = buf[Slot(t)]
        BY <1>1, <1>4, <1>5, <2>1, <4>4 DEF PopInHand
      <4> QED  BY <4>2, <4>3, <4>4
    <3>6. CASE Len(given) < Len(taken) + Cap
      <4>1. Len(taken) < Len(given)  BY <1>1, <3>1, <3>4
      <4>2. Slot(t) # Slot(h)
        BY <1>1, <3>2, <3>6, <4>1, NoClash, RingAssumption
      <4>3. buf'[Slot(t)] = buf[Slot(t)]
        BY <1>1, <3>2, <3>3, <4>2 DEF TypeOK
      <4> QED  BY <1>1, <1>4, <1>5, <2>1, <4>3 DEF PopInHand
    <3> QED  BY <1>1, <3>1, <3>4, <3>5, <3>6, RingAssumption
  <2> QED  BY <2>2, <2>3
<1>8. Storing => k <= Len(given')
  BY <1>1, <1>3, WrittenGrows, TypeStep DEF TypeOK
<1> QED  BY <1>2, <1>3, <1>6, <1>7, <1>8, OrderFixed DEF PopInHand, Slot

\* A pop under way has in hand what it is to return.
LEMMA PopStep == IInv /\ [Next]_vars => PopInHand'
<1> SUFFICES ASSUME IInv, [Next]_vars PROVE PopInHand'  OBVIOUS
<1>1. TypeOK /\ CountersAgree /\ PopInHand /\ Len(taken) \in Nat /\ stores \in Nat
      /\ Len(given) \in Nat
  BY DEF IInv, TypeOK
<1> DEFINE k == Len(taken) + 1
<1>2. ASSUME NEW x \in Values, PushStart(x) PROVE PopInHand'
  BY <1>2, PopStepOfProducer DEF PushStart, consumer
<1>3. CASE WriteSlot  BY <1>3, PopStepOfProducer DEF WriteSlot, consumer
<1>4. CASE Publish  BY <1>4, PopStepOfProducer DEF Publish, consumer
<1>5. CASE UNCHANGED vars  BY <1>5, PopStepOfProducer DEF vars
<1>6. CASE PopStart
  <2>1. stores # Len(given)  BY <1>1, <1>6, NothingIsNothing DEF PopStart
  <2>2. stores = Len(taken) /\ k <= Len(given)
    BY <1>1, <1>6, <2>1 DEF PopStart, PopInHand, CountersAgree
  <2>3. Loading' /\ Storing' /\ busy' /\ t' = Len(taken) % W
    BY <1>1, <1>6, <2>2 DEF PopStart, Loading, Storing, CountersAgree
  <2> QED  BY <1>6, <2>2, <2>3 DEF PopInHand, PopStart
<1>7. CASE LoadSlot
  <2>1. Loading /\ busy
    BY <1>1, <1>7 DEF LoadSlot, Loading, PopInHand
  <2>2. ~Loading' /\ busy' /\ (Storing' <=> Storing) /\ UNCHANGED <<t, stores, taken, given>>
        /\ Written' = Written /\ o' = buf[Slot(t)]
    BY <1>7, <2>1 DEF LoadSlot, Loading, Storing, producer, Written
  <2>3. CASE Storing
    <3>1. o' = Low(given'[k])  BY <2>2, <2>3, SlotOfNext
    <3> QED  BY <1>1, <2>1, <2>2, <2>3, <3>1 DEF PopInHand
  <2>4. CASE ~Storing
    <3>1. ~inOrder  BY <1>1, <2>1, <2>4 DEF PopInHand
    <3>2. \/ o' = Low(given'[k])
          \/ k + Cap <= Len(Written') /\ o' = Low(Written'[k + Cap])
      BY <1>1, <2>1, <2>2, <2>4 DEF PopInHand
    <3> QED  BY <1>1, <2>1, <2>2, <2>4, <3>1, <3>2, OrderFixed DEF PopInHand
  <2> QED  BY <2>3, <2>4
<1>8. CASE StoreTail
  <2>1. Storing /\ busy /\ stores = Len(taken) /\ k <= Len(given)
    BY <1>1, <1>8 DEF StoreTail, Storing, PopInHand
  <2>2. ~Storing' /\ busy' /\ (Loading' <=> Loading) /\ stores' = k
        /\ UNCHANGED <<t, o, taken, given, buf>> /\ Written' = Written
    BY <1>8, <2>1 DEF StoreTail, Loading, Storing, producer, Written
  <2>3. Loading => ~inOrder
    BY <1>8 DEF StoreTail, MayStore, Loading
  <2>4. buf'[Slot(t)] = Low(given'[k])  BY <2>1, <2>2, SlotOfNext
  <2> QED  BY <1>1, <2>1, <2>2, <2>3, <2>4, OrderFixed DEF PopInHand, Slot
<1>9. CASE PopReturn
  <2>1. stores = k /\ Len(taken') = k
    BY <1>1, <1>9 DEF PopReturn, PopInHand, Storing, TypeOK
  <2>2. ~busy' /\ todo' = {} /\ stores' = stores /\ ~Loading' /\ ~Storing'
    BY <1>9 DEF PopReturn, Loading, Storing
  <2> QED  BY <2>1, <2>2 DEF PopInHand
<1> QED
  BY <1>2, <1>3, <1>4, <1>5, <1>6, <1>7, <1>8, <1>9
  DEF Next, Producer, Consumer, PushRefused, PopRefused
\* A value popped is the right one, or one that lapped it while it was read.
LEMMA LappedStep == IInv /\ [Next]_vars => LappedAtMostOnce' /\ Fifo'
<1> SUFFICES ASSUME IInv, [Next]_vars PROVE LappedAtMostOnce' /\ Fifo'  OBVIOUS
<1>1. /\ TypeOK /\ CountersAgree /\ PopInHand /\ LappedAtMostOnce /\ Fifo
      /\ Len(taken) \in Nat /\ stores \in Nat /\ Len(given) \in Nat
  BY DEF IInv, TypeOK
<1>2. /\ Written \in Seq(Nat) /\ Written' \in Seq(Nat) /\ given' \in Seq(Nat)
  BY <1>1, TypeStep DEF Written, TypeOK
<1>3. Len(Written) \in Nat /\ Len(Written') \in Nat /\ Len(given') \in Nat  BY <1>2
<1>4. ASSUME NEW k \in Nat, k >= 1, k <= Len(given),
             NEW x, \/ x = Low(given[k])
                    \/ k + Cap <= Len(Written) /\ x = Low(Written[k + Cap])
      PROVE  /\ k <= Len(given')
             /\ \/ x = Low(given'[k])
                \/ k + Cap <= Len(Written') /\ x = Low(Written'[k + Cap])
  <2>1. k <= Len(given') /\ given'[k] = given[k]
    BY <1>1, <1>3, <1>4, WrittenGrows
  <2>2. k + Cap <= Len(Written) =>
          k + Cap <= Len(Written') /\ Written'[k + Cap] = Written[k + Cap]
    <3>1. k + Cap \in Nat /\ k + Cap >= 1  BY <1>4, RingAssumption
    <3> QED  BY <1>3, <3>1, WrittenGrows
  <2> QED  BY <1>4, <2>1, <2>2
<1>5. CASE PopReturn
  <2> DEFINE n == Len(taken) + 1
  <2>1. /\ taken' = Append(taken, o) /\ Len(taken') = n /\ taken'[n] = o
        /\ \A k \in 1 .. Len(taken) : taken'[k] = taken[k]
    BY <1>1, <1>5 DEF PopReturn, TypeOK
  <2>2. /\ n \in Nat /\ n >= 1 /\ n <= Len(given)
        /\ \/ o = Low(given[n])
           \/ ~inOrder /\ n + Cap <= Len(Written) /\ o = Low(Written[n + Cap])
    BY <1>1, <1>5 DEF PopReturn, PopInHand, Loading, Storing, CountersAgree
  <2>3. given' = given  BY <1>5 DEF PopReturn
  <2>4. LappedAtMostOnce'
    <3> SUFFICES ASSUME NEW k \in 1 .. n
                 PROVE  /\ k <= Len(given')
                        /\ \/ taken'[k] = Low(given'[k])
                           \/ /\ k + Cap <= Len(Written')
                              /\ taken'[k] = Low(Written'[k + Cap])
      BY <2>1 DEF LappedAtMostOnce
    <3>1. CASE k = n  BY <1>4, <2>1, <2>2, <3>1
    <3>2. CASE k \in 1 .. Len(taken)
      <4>1. taken'[k] = taken[k] /\ k \in Nat /\ k >= 1  BY <1>1, <2>1, <3>2
      <4>2. /\ k <= Len(given)
            /\ \/ taken[k] = Low(given[k])
               \/ k + Cap <= Len(Written) /\ taken[k] = Low(Written[k + Cap])
        BY <1>1, <3>2 DEF LappedAtMostOnce
      <4> QED  BY <1>4, <4>1, <4>2
    <3> QED  BY <1>1, <3>1, <3>2
  <2>5. Fifo'
    <3> SUFFICES ASSUME inOrder, NEW k \in 1 .. n
                 PROVE  k <= Len(given') /\ taken'[k] = Low(given'[k])
      BY <2>1, OrderFixed DEF Fifo
    <3>1. CASE k = n  BY <2>1, <2>2, <2>3, <3>1
    <3>2. CASE k \in 1 .. Len(taken)
      BY <1>1, <2>1, <2>3, <3>2 DEF Fifo
    <3> QED  BY <1>1, <3>1, <3>2
  <2> QED  BY <2>4, <2>5
<1>6. CASE taken' = taken
  <2>1. LappedAtMostOnce'
    <3> SUFFICES ASSUME NEW k \in 1 .. Len(taken)
                 PROVE  /\ k <= Len(given')
                        /\ \/ taken[k] = Low(given'[k])
                           \/ /\ k + Cap <= Len(Written')
                              /\ taken[k] = Low(Written'[k + Cap])
      BY <1>6 DEF LappedAtMostOnce
    <3> QED  BY <1>1, <1>4 DEF LappedAtMostOnce
  <2>2. Fifo'
    <3> SUFFICES ASSUME inOrder, NEW k \in 1 .. Len(taken)
                 PROVE  k <= Len(given') /\ taken[k] = Low(given'[k])
      BY <1>6, OrderFixed DEF Fifo
    <3>1. k <= Len(given) /\ taken[k] = Low(given[k])  BY <1>1 DEF Fifo
    <3> QED  BY <1>1, <1>3, <3>1, WrittenGrows
  <2> QED  BY <2>1, <2>2
<1> QED
  BY <1>5, <1>6
  DEF Next, Producer, Consumer, PushStart, PushRefused, WriteSlot, Publish,
      PopRefused, PopStart, LoadSlot, StoreTail, vars

-----------------------------------------------------------------------------
\* The inductive invariant of push and pop, for every ring.
THEOREM InductiveInvariant == Spec => []IInv
<1>1. IInv /\ [Next]_vars => IInv'
  BY TypeStep, CountersStep, UnreadStep, PushStep, PopStep, LappedStep DEF IInv
<1> QED  BY InitIInv, <1>1, PTL DEF Spec

\* With accesses in program order the ring is first-in first-out, across every
\* wrap of its 32-bit indices.
THEOREM FifoHolds == Spec => []Fifo
<1>1. IInv => Fifo  BY DEF IInv
<1> QED  BY <1>1, InductiveInvariant, PTL

\* Whatever the memory order of pop, a popped value is the right one or the one
\* pushed exactly Cap later.
THEOREM LappedAtMostOnceHolds == Spec => []LappedAtMostOnce
<1>1. IInv => LappedAtMostOnce  BY DEF IInv
<1> QED  BY <1>1, InductiveInvariant, PTL

-----------------------------------------------------------------------------
\* A counter that has wrapped selects, with an offset, the slot of the counter
\* that has not.
LEMMA ModShift ==
  ASSUME NEW c \in Nat \ {0}, NEW k \in Nat \ {0}, NEW a \in Nat, NEW b \in Nat
  PROVE  ((a % (c * k)) + b) % c = (a + b) % c
<1> DEFINE w == c * k
<1>1. w \in Nat \ {0}  BY SMTT(20)
<1> HIDE DEF w
<1> DEFINE p == a \div w m == a % w
<1>2. a = (w * p) + m /\ p \in Nat /\ m \in Nat  BY <1>1, DivMod
<1> HIDE DEF p, m
<1> DEFINE q == (a + b) \div c r == (a + b) % c
<1>3. a + b \in Nat  OBVIOUS
<1>4. a + b = (c * q) + r /\ q \in Nat /\ r \in 0 .. c - 1  BY <1>3, DivMod
<1> HIDE DEF q, r
<1>5. w * p = c * (k * p) /\ k * p \in Int  BY <1>2, SMTT(20) DEF w
<1> DEFINE n == k * p
<1>6. n \in Int /\ w * p = c * n  BY <1>5
<1> HIDE DEF n
<1>7. c * (q - n) = (c * q) - (c * n)  BY <1>4, <1>6, Distr
<1>8. c * q \in Int /\ c * n \in Int  BY <1>4, <1>6
<1>9. m + b = (c * (q - n)) + r  BY <1>2, <1>4, <1>6, <1>7, <1>8
<1>10. (m + b) % c = r
  <2> DEFINE x == m + b z == q - n
  <2>1. x \in Int /\ z \in Int /\ x = (c * z) + r  BY <1>2, <1>4, <1>6, <1>9
  <2> HIDE DEF x, z
  <2>2. x % c = r  BY <1>4, <2>1, ModUnique
  <2> QED  BY <2>2 DEF x
<1> QED  BY <1>10 DEF r, m, w

LEMMA SlotOfShifted ==
  ASSUME NEW n \in Nat, NEW j \in Nat
  PROVE  Slot((n % W) + j) = (n + j) % Cap
<1>1. \A c, k \in Nat \ {0} : ((n % (c * k)) + j) % c = (n + j) % c
  BY ModShift
<1>2. Cap \in Nat \ {0} /\ Laps \in Nat \ {0}  BY RingAssumption
<1>3. ((n % (Cap * Laps)) + j) % Cap = (n + j) % Cap  BY <1>1, <1>2, Zenon
<1> QED  BY <1>3, Zenon DEF Slot, W

\* The values pushed and not yet released.
Unreleased == [k \in 1 .. Len(given) - stores |-> Low(given[stores + k])]

\* They are what the slots hold, in the order of the indices.
LEMMA QueueIs ==
  ASSUME IInv
  PROVE  Len(given) - stores \in Nat /\ Queue = Unreleased
<1>1. /\ TypeOK /\ CountersAgree /\ UnreadKept
      /\ Len(given) \in Nat /\ stores \in Nat /\ Len(given) - stores \in Nat
  BY DEF IInv, TypeOK, CountersAgree
<1>2. (head - tail) % W = Len(given) - stores
  <2> DEFINE n == Len(given)
  <2>1. n \in Nat /\ stores <= n /\ n < stores + W
    BY <1>1, WrapIsWide, RingAssumption DEF CountersAgree
  <2>2. ((n % W) - (stores % W)) % W = n - stores
    <3> HIDE DEF n
    <3> QED  BY <1>1, <2>1, WrapIsWide, WrapDistance
  <2> QED  BY <1>1, <2>2 DEF CountersAgree
<1>3. ASSUME NEW k \in 1 .. Len(given) - stores
      PROVE  buf[Slot(tail + k - 1)] = Low(given[stores + k])
  <2>1. k - 1 \in Nat /\ stores + k \in stores + 1 .. Len(given)
        /\ (stores + k) - 1 = stores + (k - 1) /\ tail \in Nat
        /\ tail + k - 1 = tail + (k - 1)
    BY <1>1, <1>3, WrapIsWide DEF TypeOK
  <2> DEFINE j == k - 1
  <2>2. Slot((stores % W) + j) = (stores + j) % Cap
    <3> HIDE DEF j
    <3> QED  BY <1>1, <2>1, SlotOfShifted DEF j
  <2>3. Slot(tail + k - 1) = ((stores + k) - 1) % Cap
    BY <1>1, <2>1, <2>2 DEF CountersAgree
  <2> QED  BY <1>1, <2>1, <2>3 DEF UnreadKept
<1> QED  BY <1>1, <1>2, <1>3 DEF Queue, Unreleased

QueueKept == Queue = Unreleased

LEMMA QueueIsNext == IInv' => Queue' = Unreleased'
<1>1. IInv => QueueKept  BY QueueIs DEF QueueKept
<1>2. IInv' => QueueKept'  BY <1>1, PTL
<1> QED  BY <1>2 DEF QueueKept

\* What the abstract queue has given out.
Got == IF busy /\ ~Storing THEN Append(taken, o) ELSE taken

LEMMA InitFifo == Init => Fifos!Init
<1> SUFFICES ASSUME Init PROVE Fifos!Init  OBVIOUS
<1>1. IInv /\ given = <<>> /\ stores = 0 /\ ~busy /\ taken = <<>>
  BY InitIInv DEF Init
<1>2. Queue = <<>>  BY <1>1, QueueIs DEF Unreleased
<1> QED  BY <1>1, <1>2 DEF Fifos!Init

\* A push takes effect at its store to head.
LEMMA PublishPuts ==
  ASSUME IInv, IInv', Publish
  PROVE  Fifos!Put
<1> DEFINE n == Len(given) - stores
<1>1. /\ given \in Seq(Nat) /\ v \in Nat /\ stores \in Nat /\ Len(given) \in Nat
      /\ stores <= Len(given) /\ Len(given) < stores + Cap
  BY DEF IInv, TypeOK, PushInRoom, CountersAgree, Publish
<1>2. /\ given' = Append(given, v) /\ stores' = stores
      /\ UNCHANGED <<busy, todo, taken, o>>
  BY DEF Publish, consumer
<1>3. /\ Len(given') = Len(given) + 1 /\ given'[Len(given) + 1] = v
      /\ \A k \in 1 .. Len(given) : given'[k] = given[k]
  BY <1>1, <1>2
<1>4. SubSeq(given', 1, Len(given)) = given
  BY <1>1, <1>2, <1>3
<1>5. n \in Nat /\ n < Cap /\ Len(given') - stores' = n + 1
      /\ stores + (n + 1) = Len(given) + 1
  BY <1>1, <1>2, <1>3, RingAssumption
<1>6. Queue = [k \in 1 .. n |-> Low(given[stores + k])]  BY QueueIs DEF Unreleased
<1>7. Queue' = [k \in 1 .. n + 1 |-> Low(given'[stores + k])]
  <2>1. Queue' = [k \in 1 .. Len(given') - stores' |-> Low(given'[stores' + k])]
    BY QueueIsNext DEF Unreleased
  <2> QED  BY <1>2, <1>5, <2>1
<1>8. \A k \in 1 .. n : stores + k \in 1 .. Len(given)  BY <1>1
<1>9. Len(Queue) = n  BY <1>5, <1>6
<1>10. Queue' = Append(Queue, Low(v))
  <2>1. \A k \in 1 .. n : Queue'[k] = Queue[k]
    BY <1>3, <1>5, <1>6, <1>7, <1>8
  <2>2. Queue'[n + 1] = Low(v)  BY <1>3, <1>5, <1>7
  <2>3. Append(Queue, Low(v))
          = [k \in 1 .. n + 1 |-> IF k = n + 1 THEN Low(v) ELSE Queue[k]]
    BY <1>5, <1>6, <1>9
  <2> HIDE DEF n
  <2>4. Queue' = [k \in 1 .. n + 1 |-> Queue'[k]]  BY <1>7
  <2>5. \A k \in 1 .. n + 1 : Queue'[k] = IF k = n + 1 THEN Low(v) ELSE Queue[k]
    BY <1>5, <2>1, <2>2
  <2> QED  BY <2>3, <2>4, <2>5
<1>11. Got' = Got  BY <1>2 DEF Got, Storing
<1> QED  BY <1>2, <1>3, <1>4, <1>5, <1>9, <1>10, <1>11 DEF Fifos!Put, Got

\* A pop takes effect at its store to tail, when it has read the slot before.
LEMMA StoreTailTakes ==
  ASSUME IInv, IInv', StoreTail, inOrder
  PROVE  Fifos!Take
<1> DEFINE n == Len(given) - stores
<1>1. /\ given \in Seq(Nat) /\ taken \in Seq(Nat) /\ stores \in Nat
      /\ Len(given) \in Nat /\ Len(taken) \in Nat
  BY SMTT(30) DEF IInv, TypeOK
<1>2. Storing /\ busy /\ ~Loading
  BY DEF IInv, PopInHand, StoreTail, MayStore, Storing, Loading
<1>3. stores = Len(taken) /\ stores + 1 <= Len(given) /\ o = Low(given[stores + 1])
  BY <1>2 DEF IInv, PopInHand
<1>4. /\ stores' = stores + 1 /\ given' = given /\ taken' = taken /\ o' = o
      /\ busy' = busy /\ ~Storing'
  BY DEF StoreTail, producer, Storing
<1>5. Queue = [k \in 1 .. n |-> Low(given[stores + k])] /\ n \in Nat /\ n >= 1
  BY <1>1, <1>3, QueueIs DEF Unreleased
<1>6. Queue' = [k \in 1 .. n - 1 |-> Low(given[stores + 1 + k])]
  <2>1. Queue' = [k \in 1 .. Len(given') - stores' |-> Low(given'[stores' + k])]
    BY QueueIsNext DEF Unreleased
  <2>2. Len(given') - stores' = n - 1  BY <1>1, <1>4
  <2> QED  BY <1>4, <2>1, <2>2
<1>7. Len(Queue) = n /\ Queue # <<>> /\ Head(Queue) = o
  <2>1. Len(Queue) = n  BY <1>5
  <2>2. Queue[1] = o  BY <1>3, <1>5
  <2>3. Queue # <<>> /\ Head(Queue) = Queue[1]  BY <1>5, <2>1
  <2> QED  BY <2>1, <2>2, <2>3
<1>8. Queue' = Tail(Queue)
  <2>1. Tail(Queue) = [k \in 1 .. n - 1 |-> Queue[k + 1]]  BY <1>5, <1>7
  <2>2. \A k \in 1 .. n - 1 : Queue[k + 1] = Low(given[stores + 1 + k])
    <3> SUFFICES ASSUME NEW k \in 1 .. n - 1
                 PROVE  Queue[k + 1] = Low(given[stores + 1 + k])
      OBVIOUS
    <3>1. k + 1 \in 1 .. n /\ stores + (k + 1) = stores + 1 + k  BY <1>1, <1>5
    <3> QED  BY <1>5, <3>1
  <2> QED  BY <1>6, <2>1, <2>2
<1>9. Got = taken /\ Got' = Append(taken, o)  BY <1>2, <1>4 DEF Got
<1> QED  BY <1>4, <1>7, <1>8, <1>9 DEF Fifos!Take, Got

\* The other steps of push and pop are steps of the implementation only.
LEMMA OthersStutter ==
  ASSUME IInv, IInv', inOrder, [Next]_vars, ~Publish, ~StoreTail
  PROVE  UNCHANGED <<Queue, given, Got>>
<1>1. given' = given /\ stores' = stores
  BY DEF Next, Producer, Consumer, PushStart, PushRefused, WriteSlot, PopStart,
         PopRefused, LoadSlot, PopReturn, vars
<1>2. Queue' = Queue
  <2>1. Queue' = [k \in 1 .. Len(given') - stores' |-> Low(given'[stores' + k])]
    BY QueueIsNext DEF Unreleased
  <2>2. Queue = [k \in 1 .. Len(given) - stores |-> Low(given[stores + k])]
    BY QueueIs DEF Unreleased
  <2> QED  BY <1>1, <2>1, <2>2
<1>3. ASSUME UNCHANGED <<todo, busy, taken, o>> PROVE Got' = Got
  BY <1>3 DEF Got, Storing
<1>4. ASSUME PopStart PROVE Got' = Got
  BY <1>4 DEF PopStart, Got, Storing
<1>5. ASSUME LoadSlot PROVE Got' = Got
  <2>1. Storing /\ Storing'
    BY <1>5 DEF IInv, PopInHand, LoadSlot, Loading, Storing
  <2> QED  BY <1>5, <2>1 DEF LoadSlot, Got
<1>6. ASSUME PopReturn PROVE Got' = Got
  BY <1>6 DEF PopReturn, Got, Storing
<1> QED
  BY <1>1, <1>2, <1>3, <1>4, <1>5, <1>6
  DEF Next, Producer, Consumer, PushStart, PushRefused, WriteSlot, PopRefused,
      vars, consumer

\* On a machine that keeps loads ahead of later stores the ring is a bounded
\* first-in first-out queue of bytes, for every capacity, every index width
\* that is a multiple of it and every number of pushes.
THEOREM Refinement == Spec => ImplementsFifo
<1>1. ASSUME IInv, IInv', [Next]_vars
      PROVE  [inOrder => Fifos!Next]_(Fifos!vars)
  <2>1. CASE Publish  BY <1>1, <2>1, PublishPuts DEF Fifos!Next
  <2>2. CASE StoreTail  BY <1>1, <2>2, StoreTailTakes DEF Fifos!Next
  <2>3. CASE inOrder /\ ~Publish /\ ~StoreTail
    BY <1>1, <2>3, OthersStutter DEF Fifos!vars, Got
  <2> QED  BY <2>1, <2>2, <2>3
<1>2. QED  BY <1>1, InitFifo, InductiveInvariant, PTL DEF Spec, ImplementsFifo
=============================================================================
