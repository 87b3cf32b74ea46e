-------------------------- MODULE SnowflakeProofs --------------------------
(***************************************************************************)
(* Proofs about the generators: the one behind the mutex (Spec), for any   *)
(* number of threads and ids, any behaviour of the realtime clock and any  *)
(* number of restarts, and the lock-free one (A!Spec), for any number of   *)
(* threads and calls and any clock readings.                               *)
(***************************************************************************)
EXTENDS Snowflake, TLAPS

-----------------------------------------------------------------------------
(* Facts about stamps, for every width of the sequence number that leaves  *)
(* ++seq room in its 16 bits                                               *)

\* Before is a strict total order on stamps.
LEMMA BeforeOrder ==
  ASSUME NEW a \in Stamp, NEW b \in Stamp, NEW c \in Stamp
  PROVE  /\ ~Before(a, a)
         /\ Before(a, b) /\ Before(b, c) => Before(a, c)
         /\ Before(a, b) => ~Before(b, a)
         /\ ~Before(a, b) /\ ~Before(b, a) => a = b
         /\ ~Before(a, b) /\ Before(a, c) => Before(b, c)
         /\ Before(a, b) /\ ~Before(c, b) => Before(a, c)
<1>1. ~Before(a, b) /\ ~Before(b, a) => a = b
  BY SeqAssumption DEF Stamp, Before
<1>2. QED
  BY <1>1, SeqAssumption DEF Stamp, Before

\* snowflake_gen_next yields a well-formed stamp after
\* the last one whose millisecond is not behind the caller's clock.
LEMMA AdvanceMovesForward ==
  ASSUME NEW last \in Stamp, NEW now \in Nat
  PROVE  /\ Advance(last, now) \in Stamp
         /\ Before(last, Advance(last, now))
         /\ Advance(last, now).ms >= now
<1>1. (last.seq + 1) % SeqMod = last.seq + 1
  BY SeqAssumption DEF Stamp
<1>2. QED
  BY <1>1, SeqAssumption DEF Advance, Clamp, Overflow, Stamp, Before

-----------------------------------------------------------------------------
(* The generator behind the mutex                                          *)

LEMMA ZeroIsStamp == ZeroStamp \in Stamp
BY SeqAssumption DEF ZeroStamp, Stamp

LEMMA InitIInv ==
  ASSUME Init PROVE IInv
<1>1. TypeOK
  <2>1. unsafe \in BOOLEAN
    BY Zenon DEF Init
  <2>2. QED
    BY <2>1, ZeroIsStamp DEF Init, TypeOK, Idle, NoClock, NoStamp
<1>2. OneInside /\ IdsIncrease /\ GivenBehind /\ OutIsNewest
  BY DEF Init, OneInside, IdsIncrease, GivenBehind, OutIsNewest, Idle
<1>3. QED
  BY <1>1, <1>2 DEF IInv

LEMMA TypeStep ==
  ASSUME TypeOK, [Next]_vars PROVE TypeOK'
<1>. USE DEF TypeOK, history
<1>1. ASSUME NEW t \in Threads, Call(t) PROVE TypeOK'
  BY <1>1 DEF Call
<1>2. ASSUME NEW t \in Threads, Lock(t) PROVE TypeOK'
  BY <1>2 DEF Lock
<1>3. ASSUME NEW t \in Threads, ReadClock(t) PROVE TypeOK'
  BY <1>3 DEF ReadClock
<1>4. ASSUME NEW t \in Threads, GenNext(t) PROVE TypeOK'
  <2>1. gen' \in Stamp
    BY <1>4, AdvanceMovesForward DEF GenNext
  <2>2. unsafe' \in BOOLEAN
    BY <1>4, Zenon DEF GenNext
  <2>3. QED
    BY <1>4, <2>1, <2>2 DEF GenNext
<1>5. ASSUME NEW t \in Threads, Unlock(t) PROVE TypeOK'
  BY <1>5 DEF Unlock
<1>6. CASE Tick
  BY <1>6 DEF Tick
<1>7. CASE SetBack
  BY <1>7 DEF SetBack
<1>8. CASE Restart
  BY <1>8, ZeroIsStamp DEF Restart, Idle, NoClock, NoStamp, Stamp
<1>9. CASE UNCHANGED vars
  BY <1>9 DEF vars
<1>10. QED
  BY <1>1, <1>2, <1>3, <1>4, <1>5, <1>6, <1>7, <1>8, <1>9 DEF Next, Thread

\* The mutex keeps every other thread out of snowflake_gen_next.
LEMMA OneInsideStep ==
  ASSUME TypeOK, OneInside, [Next]_vars PROVE OneInside'
<1>. USE DEF TypeOK, OneInside, history
<1>1. ASSUME NEW t \in Threads, Call(t) PROVE OneInside'
  BY <1>1 DEF Call
<1>2. ASSUME NEW t \in Threads, Lock(t) PROVE OneInside'
  BY <1>2 DEF Lock, LockFree
<1>3. ASSUME NEW t \in Threads, ReadClock(t) PROVE OneInside'
  BY <1>3 DEF ReadClock
<1>4. ASSUME NEW t \in Threads, GenNext(t) PROVE OneInside'
  BY <1>4 DEF GenNext
<1>5. ASSUME NEW t \in Threads, Unlock(t) PROVE OneInside'
  BY <1>5 DEF Unlock
<1>6. CASE Tick \/ SetBack \/ UNCHANGED vars
  BY <1>6 DEF Tick, SetBack, vars
<1>7. CASE Restart
  BY <1>7 DEF Restart, Idle
<1>8. QED
  BY <1>1, <1>2, <1>3, <1>4, <1>5, <1>6, <1>7 DEF Next, Thread

\* Computing an id while the clock or last_ms has passed every earlier process
\* puts it after everything handed out.
LEMMA GenNextStep ==
  ASSUME IInv, NEW t \in Threads, GenNext(t), ~unsafe'
  PROVE  GivenBehind' /\ OutIsNewest'
<1>1. ~unsafe /\ GivenBehind /\ (gen.ms > high \/ now_ms[t] > high)
  <2>1. ~unsafe /\ ~(gen.ms <= high /\ now_ms[t] <= high)
    BY Zenon DEF GenNext
  <2>2. gen.ms \in Nat /\ high \in Nat /\ now_ms[t] \in Nat
    BY DEF IInv, TypeOK, Stamp
  <2>3. GivenBehind
    BY <2>1 DEF IInv
  <2>4. QED
    BY <2>1, <2>2, <2>3
<1>2. gen' \in Stamp /\ Before(gen, gen') /\ gen'.ms >= now_ms[t]
  BY AdvanceMovesForward DEF GenNext, IInv, TypeOK
<1>3. gen'.ms > high
  BY <1>1, <1>2 DEF IInv, TypeOK, Stamp, Before
<1>4. \A i \in DOMAIN given : Before(given[i], gen')
  <2>. SUFFICES ASSUME NEW i \in DOMAIN given PROVE Before(given[i], gen')
    OBVIOUS
  <2>1. given[i] \in Stamp /\ gen \in Stamp /\ high \in Nat
    BY DEF IInv, TypeOK
  <2>2. CASE given[i].ms <= high
    BY <1>2, <1>3, <2>1, <2>2 DEF Before, Stamp
  <2>3. CASE ~Before(gen, given[i])
    BY <1>2, <2>1, <2>3, BeforeOrder
  <2>4. QED
    BY <1>1, <2>2, <2>3 DEF GivenBehind
<1>5. given' = given /\ high' = high
  BY DEF GenNext
<1>6. GivenBehind'
  <2>1. \A i \in DOMAIN given : given[i] \in Stamp
    BY DEF IInv, TypeOK
  <2>2. QED
    BY <1>2, <1>4, <1>5, <2>1, BeforeOrder DEF GivenBehind
<1>7. out'[t] = gen'
  BY DEF GenNext, IInv, TypeOK
<1>8. \A u \in Threads : pc'[u] = "unlock" => u = t
  BY DEF GenNext, IInv, TypeOK, OneInside
<1>9. OutIsNewest'
  BY <1>3, <1>4, <1>5, <1>7, <1>8 DEF OutIsNewest
<1>10. QED
  BY <1>6, <1>9

\* Returning the newest id keeps the returned ids in order.
LEMMA UnlockStep ==
  ASSUME IInv, NEW t \in Threads, Unlock(t), ~unsafe
  PROVE  GivenBehind' /\ OutIsNewest' /\ IdsIncrease'
<1>1. /\ GivenBehind /\ out[t] = gen /\ gen.ms > high /\ gen \in Stamp
      /\ \A i \in DOMAIN given : Before(given[i], gen)
  BY DEF Unlock, IInv, OutIsNewest, TypeOK
<1>2. /\ given \in Seq(Stamp) /\ given' = Append(given, gen)
      /\ DOMAIN given = 1 .. Len(given) /\ DOMAIN given' = 1 .. Len(given) + 1
      /\ \A i \in DOMAIN given : given'[i] = given[i] /\ given[i] \in Stamp
      /\ given'[Len(given) + 1] = gen
  BY <1>1 DEF Unlock, IInv, TypeOK
<1>3. gen' = gen /\ high' = high
  BY DEF Unlock
<1>4. GivenBehind'
  BY <1>1, <1>2, <1>3, BeforeOrder DEF GivenBehind
<1>5. \A u \in Threads : pc'[u] # "unlock"
  BY DEF Unlock, IInv, TypeOK, OneInside
<1>6. OutIsNewest'
  BY <1>5 DEF OutIsNewest
<1>7. IdsIncrease'
  BY <1>1, <1>2 DEF IInv, IdsIncrease
<1>8. QED
  BY <1>4, <1>6, <1>7

\* When the process dies, everything it handed out moves below high.
LEMMA RestartStep ==
  ASSUME IInv, Restart, ~unsafe
  PROVE  GivenBehind' /\ OutIsNewest'
<1>1. GivenBehind /\ given' = given
  BY DEF IInv, Restart
<1>2. \A i \in DOMAIN given : given[i].ms <= high'
  <2>. SUFFICES ASSUME NEW i \in DOMAIN given PROVE given[i].ms <= high'
    OBVIOUS
  <2>1. given[i] \in Stamp /\ gen \in Stamp /\ high \in Nat
    BY DEF IInv, TypeOK
  <2>2. QED
    BY <1>1, <2>1 DEF Restart, GivenBehind, Stamp, Before
<1>3. \A t \in Threads : pc'[t] = "idle"
  BY DEF Restart, Idle
<1>4. QED
  BY <1>1, <1>2, <1>3 DEF GivenBehind, OutIsNewest

LEMMA OrderStep ==
  ASSUME IInv, [Next]_vars
  PROVE  IdsIncrease' /\ (unsafe' \/ (GivenBehind' /\ OutIsNewest'))
<1>1. ASSUME NEW t \in Threads, GenNext(t)
      PROVE  IdsIncrease' /\ (unsafe' \/ (GivenBehind' /\ OutIsNewest'))
  <2>1. given' = given /\ (unsafe => unsafe')
    BY <1>1 DEF GenNext
  <2>2. QED
    BY <1>1, <2>1, GenNextStep DEF IInv, IdsIncrease
<1>2. ASSUME NEW t \in Threads, Unlock(t)
      PROVE  IdsIncrease' /\ (unsafe' \/ (GivenBehind' /\ OutIsNewest'))
  <2>1. unsafe' = unsafe
    BY <1>2 DEF Unlock
  <2>2. QED
    BY <1>2, <2>1, UnlockStep DEF IdsIncrease
<1>3. CASE Restart
  <2>1. unsafe' = unsafe /\ given' = given
    BY <1>3 DEF Restart
  <2>2. QED
    BY <1>3, <2>1, RestartStep DEF IInv, IdsIncrease
<1>4. CASE UNCHANGED <<gen, given, high, unsafe, out>>
           /\ \A t \in Threads : pc'[t] = "unlock" => pc[t] = "unlock"
  BY <1>4 DEF IInv, IdsIncrease, GivenBehind, OutIsNewest
<1>5. ASSUME NEW t \in Threads, Call(t) \/ Lock(t) \/ ReadClock(t)
      PROVE  /\ UNCHANGED <<gen, given, high, unsafe, out>>
             /\ \A u \in Threads : pc'[u] = "unlock" => pc[u] = "unlock"
  BY <1>5 DEF Call, Lock, ReadClock, history, IInv, TypeOK
<1>6. ASSUME Tick \/ SetBack \/ UNCHANGED vars
      PROVE  /\ UNCHANGED <<gen, given, high, unsafe, out>>
             /\ \A u \in Threads : pc'[u] = "unlock" => pc[u] = "unlock"
  BY <1>6 DEF Tick, SetBack, vars, history
<1>7. QED
  BY <1>1, <1>2, <1>3, <1>4, <1>5, <1>6 DEF Next, Thread

\* IInv holds in every reachable state of every instance.
THEOREM InductiveInvariant == Spec => []IInv
<1>1. IInv /\ [Next]_vars => IInv'
  BY TypeStep, OneInsideStep, OrderStep DEF IInv
<1>2. QED
  BY <1>1, InitIInv, PTL DEF Spec

\* Ids come out in strictly increasing order across threads, clock steps and
\* restarts, unless a restarted process outran its predecessor's last_ms.
THEOREM IdsIncreaseHolds == Spec => []IdsIncrease
<1>1. IInv => IdsIncrease
  BY DEF IInv
<1>2. QED
  BY <1>1, InductiveInvariant, PTL

-----------------------------------------------------------------------------
\* One more millisecond is one more set of sequence numbers, and fewer
\* milliseconds are never more of them.
LEMMA WholeMillisecond ==
  ASSUME NEW k \in Nat, NEW d \in Nat, NEW e \in Nat
  PROVE  /\ (d + 1) * k = (d * k) + k
         /\ d * k \in Nat
         /\ e <= d => e * k <= d * k
<1>1. (d + 1) * k = (d * k) + k /\ d * k \in Nat
  BY SMTT(20)
<1>2. ASSUME e <= d PROVE e * k <= d * k
  <2>. DEFINE r == d - e
  <2>1. r \in Nat /\ d = e + r
    BY <1>2
  <2>. HIDE DEF r
  <2>2. (e + r) * k = (e * k) + (r * k) /\ r * k \in Nat /\ e * k \in Nat
    BY <2>1, SMTT(20)
  <2>3. QED
    BY <2>1, <2>2
<1>3. QED
  BY <1>1, <1>2

LEMMA ClocksStep ==
  ASSUME TypeOK, ClocksBehindPeak, [Next]_vars PROVE ClocksBehindPeak'
<1>. USE DEF TypeOK, ClocksBehindPeak, history
<1>1. ASSUME NEW t \in Threads, Thread(t) PROVE ClocksBehindPeak'
  BY <1>1 DEF Thread, Call, Lock, ReadClock, GenNext, Unlock
<1>2. CASE Tick
  BY <1>2 DEF Tick
<1>3. CASE SetBack
  BY <1>3 DEF SetBack
<1>4. CASE Restart
  BY <1>4 DEF Restart, NoClock
<1>5. CASE UNCHANGED vars
  BY <1>5 DEF vars
<1>6. QED
  BY <1>1, <1>2, <1>3, <1>4, <1>5 DEF Next

\* snowflake_gen_next counts one id, and moves last_ms past peak only when the
\* sequence numbers of last_ms are used up.
LEMMA GenNextBorrows ==
  ASSUME BorrowInv, NEW t \in Threads, GenNext(t) PROVE NoneSkipped'
<1>. DEFINE now == now_ms[t]
            k == SeqMax + 1
<1>1. /\ gen.ms \in Nat /\ gen.seq \in 0 .. SeqMax /\ now \in Nat /\ now <= peak
      /\ peak \in Nat /\ made \in Nat /\ k \in Nat /\ k = SeqMax + 1
      /\ SeqMax \in Nat
  BY SeqAssumption DEF BorrowInv, TypeOK, ClocksBehindPeak, Stamp
<1>2. peak' = peak /\ made' = made + 1 /\ gen' = Advance(gen, now)
  BY DEF GenNext
<1>3. gen.ms >= peak => (gen.ms - peak) * k + gen.seq + 1 <= made
  BY DEF BorrowInv, NoneSkipped
<1>4. (gen.seq + 1) % SeqMod = gen.seq + 1
  BY <1>1, SeqAssumption
<1>. SUFFICES ASSUME gen'.ms >= peak
               PROVE  (gen'.ms - peak) * k + gen'.seq + 1 <= made + 1
  BY <1>2 DEF NoneSkipped
<1>6. CASE gen.ms < now
  <2>1. gen' = [ms |-> now, seq |-> 0]
    BY <1>1, <1>2, <1>6 DEF Advance, Clamp
  <2>2. gen'.ms - peak = 0 /\ gen'.seq = 0
    BY <1>1, <2>1
  <2>3. QED
    BY <1>1, <2>2
<1>7. CASE gen.ms >= now /\ gen.seq < SeqMax
  <2>1. gen' = [ms |-> gen.ms, seq |-> gen.seq + 1]
    BY <1>1, <1>2, <1>4, <1>7 DEF Advance, Clamp, Overflow
  <2>. DEFINE p == (gen.ms - peak) * k
  <2>2. gen.ms >= peak /\ gen'.seq = gen.seq + 1 /\ (gen'.ms - peak) * k = p
    BY <2>1
  <2>3. gen.ms - peak \in Nat
    BY <1>1, <2>2
  <2>4. p \in Nat
    BY <1>1, <2>3, WholeMillisecond
  <2>5. p + gen.seq + 1 <= made
    BY <1>3, <2>2
  <2>. HIDE DEF p
  <2>6. QED
    BY <1>1, <2>2, <2>4, <2>5
<1>8. CASE gen.ms >= now /\ gen.seq = SeqMax
  <2>1. gen' = [ms |-> gen.ms + 1, seq |-> 0]
    BY <1>1, <1>2, <1>4, <1>8 DEF Advance, Clamp, Overflow
  <2>2. CASE gen.ms < peak
    <3>1. gen'.ms - peak = 0 /\ gen'.seq = 0
      BY <1>1, <2>1, <2>2
    <3>2. QED
      BY <1>1, <3>1
  <2>3. CASE gen.ms >= peak
    <3>. DEFINE d == gen.ms - peak
    <3>1. d \in Nat /\ gen'.ms - peak = d + 1 /\ gen'.seq = 0
      BY <1>1, <2>1, <2>3
    <3>2. d * k + SeqMax + 1 <= made
      BY <1>3, <1>8, <2>3
    <3>. HIDE DEF d
    <3>3. (d + 1) * k = (d * k) + k /\ d * k \in Nat
      BY <1>1, <3>1, WholeMillisecond
    <3>4. ((d * k) + k) + 0 + 1 <= made + 1
      BY <1>1, <3>2, <3>3
    <3>5. QED
      BY <3>1, <3>3, <3>4
  <2>4. QED
    BY <1>1, <2>2, <2>3
<1>9. QED
  BY <1>1, <1>6, <1>7, <1>8

LEMMA NoneSkippedStep ==
  ASSUME BorrowInv, [Next]_vars PROVE NoneSkipped'
<1>1. ASSUME NEW t \in Threads, GenNext(t) PROVE NoneSkipped'
  BY <1>1, GenNextBorrows
<1>2. CASE Tick
  <2>1. gen' = gen /\ made' = made /\ peak' >= peak /\ peak' \in Nat
    BY <1>2 DEF Tick, BorrowInv, TypeOK, ClocksBehindPeak
  <2>. SUFFICES ASSUME gen.ms >= peak'
                PROVE  (gen.ms - peak') * (SeqMax + 1) + gen.seq + 1 <= made
    BY <2>1 DEF NoneSkipped
  <2>. DEFINE d == gen.ms - peak
              e == gen.ms - peak'
              k == SeqMax + 1
  <2>3. d \in Nat /\ e \in Nat /\ e <= d /\ k \in Nat /\ gen.seq \in Nat /\ made \in Nat
    BY <2>1, SeqAssumption DEF BorrowInv, TypeOK, Stamp
  <2>4. d * k + gen.seq + 1 <= made
    BY <2>1, <2>3 DEF BorrowInv, NoneSkipped, TypeOK, Stamp
  <2>. HIDE DEF d, e, k
  <2>5. e * k <= d * k /\ e * k \in Nat /\ d * k \in Nat
    BY <2>3, WholeMillisecond
  <2>6. e * k + gen.seq + 1 <= made
    BY <2>3, <2>4, <2>5
  <2>7. QED
    BY <2>6 DEF e, k
<1>3. CASE Restart
  <2>1. gen'.ms = 0 /\ peak' = peak /\ peak >= 1 /\ peak \in Nat
    BY <1>3 DEF Restart, ZeroStamp, BorrowInv, ClocksBehindPeak, TypeOK
  <2>2. QED
    BY <2>1 DEF NoneSkipped
<1>4. CASE UNCHANGED <<gen, peak, made>>
  BY <1>4 DEF BorrowInv, NoneSkipped
<1>5. ASSUME NEW t \in Threads, Call(t) \/ Lock(t) \/ ReadClock(t) \/ Unlock(t)
      PROVE  NoneSkipped'
  BY <1>4, <1>5 DEF Call, Lock, ReadClock, Unlock, history
<1>6. CASE SetBack \/ UNCHANGED vars
  BY <1>4, <1>6 DEF SetBack, vars, history
<1>7. QED
  BY <1>1, <1>2, <1>3, <1>5, <1>6 DEF Next, Thread

\* BorrowInv holds in every reachable state of every instance.
LEMMA BorrowInvariant == Spec => []BorrowInv
<1>1. Init => BorrowInv
  <2>. SUFFICES ASSUME Init PROVE BorrowInv
    OBVIOUS
  <2>2. TypeOK
    BY InitIInv DEF IInv
  <2>3. QED
    BY <2>2 DEF Init, BorrowInv, ClocksBehindPeak, NoneSkipped, NoClock, ZeroStamp
<1>2. BorrowInv /\ [Next]_vars => BorrowInv'
  BY TypeStep, ClocksStep, NoneSkippedStep DEF BorrowInv
<1>3. QED
  BY <1>1, <1>2, PTL DEF Spec

\* However fast ids are asked for and however the clock is set, last_ms is ahead
\* of the clock by no more milliseconds than were used up id by id.
THEOREM BorrowsOnlyWhenExhaustedHolds == Spec => []BorrowsOnlyWhenExhausted
<1>1. BorrowInv => BorrowsOnlyWhenExhausted
  <2>. SUFFICES ASSUME BorrowInv, gen.ms > peak
                 PROVE  (gen.ms - peak) * (SeqMax + 1) <= made
    BY DEF BorrowsOnlyWhenExhausted
  <2>. DEFINE d == gen.ms - peak
              k == SeqMax + 1
  <2>2. /\ d \in Nat /\ k \in Nat /\ gen.seq \in Nat /\ made \in Nat
        /\ d * k + gen.seq + 1 <= made
    BY SeqAssumption DEF BorrowInv, NoneSkipped, TypeOK, Stamp
  <2>. HIDE DEF d, k
  <2>3. d * k \in Nat
    BY <2>2, WholeMillisecond
  <2>4. d * k <= made
    BY <2>2, <2>3
  <2>5. QED
    BY <2>4 DEF d, k
<1>2. QED
  BY <1>1, BorrowInvariant, PTL

-----------------------------------------------------------------------------
(* The lock-free generator                                                 *)

\* Its stamps are the same.
LEMMA SameStamps ==
  /\ A!Stamp = Stamp /\ A!ZeroStamp = ZeroStamp
  /\ \A a, b : A!Before(a, b) <=> Before(a, b)
  /\ \A a, b : A!Advance(a, b) = Advance(a, b)
BY DEF A!Stamp, Stamp, A!ZeroStamp, ZeroStamp, A!Before, Before, A!Advance, Advance,
       A!Clamp, Clamp, A!Overflow, Overflow

\* What is said above of stamps, as it is named here.
LEMMA AtomicOrder ==
  ASSUME NEW a \in A!Stamp, NEW b \in A!Stamp, NEW c \in A!Stamp
  PROVE  /\ ~A!Before(a, a)
         /\ A!Before(a, b) /\ A!Before(b, c) => A!Before(a, c)
         /\ A!Before(a, b) => ~A!Before(b, a)
         /\ ~A!Before(a, b) /\ ~A!Before(b, a) => a = b
         /\ ~A!Before(a, b) /\ A!Before(a, c) => A!Before(b, c)
         /\ A!Before(a, b) /\ ~A!Before(c, b) => A!Before(a, c)
BY BeforeOrder, SameStamps

LEMMA AtomicAdvances ==
  ASSUME NEW last \in A!Stamp, NEW now \in Nat
  PROVE  /\ A!Advance(last, now) \in A!Stamp
         /\ A!Before(last, A!Advance(last, now))
BY AdvanceMovesForward, SameStamps

LEMMA AtomicInit ==
  ASSUME A!Init PROVE A!IInv
<1>1. A!ZeroStamp \in A!Stamp /\ ~A!Before(A!ZeroStamp, A!ZeroStamp)
  BY SeqAssumption DEF A!ZeroStamp, A!Stamp, A!Before
<1>2. A!TypeOK
  BY <1>1 DEF A!Init, A!TypeOK
<1>3. A!AttemptsMoveForward
  BY <1>1 DEF A!Init, A!AttemptsMoveForward
<1>4. A!IdsBehindWord /\ A!Unique
  BY DEF A!Init, A!IdsBehindWord, A!Unique, A!Source!Unique
<1>5. QED
  BY <1>2, <1>3, <1>4 DEF A!IInv

\* What a thread computes from the word it reads lies after that word.
LEMMA LoadStamp ==
  ASSUME A!TypeOK, NEW t \in AtomicThreads
  PROVE  /\ A!Advance(packed, atomicNow[t]) \in A!Stamp
         /\ A!Before(packed, A!Advance(packed, atomicNow[t]))
<1>1. packed \in A!Stamp /\ atomicNow[t] \in Nat
  BY DEF A!TypeOK
<1>2. QED
  BY <1>1, AtomicAdvances

LEMMA AtomicTypeStep ==
  ASSUME A!TypeOK, [A!Next]_(A!vars) PROVE A!TypeOK'
<1>. USE DEF A!TypeOK
<1>1. ASSUME NEW t \in AtomicThreads, NEW ms \in 0 .. MaxNow, A!Call(t, ms) PROVE A!TypeOK'
  <2>1. ms \in Nat
    OBVIOUS
  <2>2. QED
    BY <1>1, <2>1 DEF A!Call
<1>2. ASSUME NEW t \in AtomicThreads, A!Load(t) PROVE A!TypeOK'
  <2>1. neu'[t] = A!Advance(packed, atomicNow[t]) /\ A!Advance(packed, atomicNow[t]) \in A!Stamp
    BY <1>2, LoadStamp DEF A!Load
  <2>2. neu'[t].ms \in Nat
    BY <2>1 DEF A!Stamp
  <2>3. QED
    BY <1>2, <2>1, <2>2 DEF A!Load
<1>3. ASSUME NEW t \in AtomicThreads, A!CasSucceeds(t) PROVE A!TypeOK'
  <2>1. ids' \in [AtomicThreads -> Seq(A!Stamp)]
    BY <1>3 DEF A!CasSucceeds
  <2>2. QED
    BY <1>3, <2>1 DEF A!CasSucceeds
<1>4. ASSUME NEW t \in AtomicThreads, A!CasFails(t) PROVE A!TypeOK'
  BY <1>4 DEF A!CasFails
<1>5. CASE UNCHANGED A!vars
  BY <1>5 DEF A!vars
<1>6. QED
  BY <1>1, <1>2, <1>3, <1>4, <1>5 DEF A!Next, A!Step, A!Done

\* A successful compare-and-swap takes the word from the value its thread read
\* to the later one its thread computed.
LEMMA CasMovesWord ==
  ASSUME A!TypeOK, A!AttemptsMoveForward, NEW t \in AtomicThreads, A!CasSucceeds(t)
  PROVE  packed' = neu[t] /\ neu[t] \in A!Stamp /\ A!Before(packed, neu[t])
BY DEF A!TypeOK, A!AttemptsMoveForward, A!CasSucceeds, A!CasMatches

LEMMA AttemptsStep ==
  ASSUME A!TypeOK, A!AttemptsMoveForward, [A!Next]_(A!vars) PROVE A!AttemptsMoveForward'
<1>1. ASSUME NEW t \in AtomicThreads, NEW ms \in 0 .. MaxNow, A!Call(t, ms)
      PROVE  A!AttemptsMoveForward'
  BY <1>1 DEF A!Call, A!TypeOK, A!AttemptsMoveForward
<1>2. ASSUME NEW t \in AtomicThreads, A!Load(t) PROVE A!AttemptsMoveForward'
  <2>1. /\ A!Before(packed, A!Advance(packed, atomicNow[t]))
        /\ ~A!Before(packed, packed)
    BY LoadStamp, AtomicOrder DEF A!TypeOK
  <2>2. /\ old'[t] = packed /\ neu'[t] = A!Advance(packed, atomicNow[t])
        /\ atomicNow'[t] = neu'[t].ms /\ packed' = packed
    BY <1>2 DEF A!Load, A!TypeOK
  <2>3. \A u \in AtomicThreads \ {t} : /\ old'[u] = old[u] /\ neu'[u] = neu[u]
                                 /\ atomicNow'[u] = atomicNow[u] /\ atomicPc'[u] = atomicPc[u]
    BY <1>2 DEF A!Load, A!TypeOK
  <2>4. QED
    BY <2>1, <2>2, <2>3 DEF A!AttemptsMoveForward
<1>3. ASSUME NEW t \in AtomicThreads, A!CasSucceeds(t) PROVE A!AttemptsMoveForward'
  <2>1. packed' = neu[t] /\ neu[t] \in A!Stamp /\ A!Before(packed, neu[t])
    BY <1>3, CasMovesWord
  <2>2. \A u \in AtomicThreads : ~A!Before(packed', old[u])
    BY <2>1, AtomicOrder DEF A!TypeOK, A!AttemptsMoveForward
  <2>3. \A u \in AtomicThreads : atomicPc'[u] = "cas" => atomicPc[u] = "cas"
    BY <1>3 DEF A!CasSucceeds, A!TypeOK
  <2>4. QED
    BY <1>3, <2>2, <2>3 DEF A!CasSucceeds, A!AttemptsMoveForward
<1>4. ASSUME NEW t \in AtomicThreads, A!CasFails(t) PROVE A!AttemptsMoveForward'
  BY <1>4 DEF A!CasFails, A!TypeOK, A!AttemptsMoveForward
<1>5. CASE UNCHANGED A!vars
  BY <1>5 DEF A!vars, A!AttemptsMoveForward
<1>6. QED
  BY <1>1, <1>2, <1>3, <1>4, <1>5 DEF A!Next, A!Step, A!Done

\* Installing a stamp after the word keeps every returned id behind the word
\* and makes the new id different from all of them.
LEMMA UniqueStep ==
  ASSUME A!IInv, [A!Next]_(A!vars) PROVE A!IdsBehindWord' /\ A!Unique'
<1>. USE DEF A!Unique, A!Source!Unique
<1>1. ASSUME NEW t \in AtomicThreads, A!CasSucceeds(t) PROVE A!IdsBehindWord' /\ A!Unique'
  <2>1. packed' = neu[t] /\ neu[t] \in A!Stamp /\ A!Before(packed, neu[t])
    BY <1>1, CasMovesWord DEF A!IInv
  <2>2. \A u \in AtomicThreads \ {t} : ids'[u] = ids[u]
    BY <1>1 DEF A!CasSucceeds, A!IInv, A!TypeOK
  <2>3. /\ ids[t] \in Seq(A!Stamp) /\ ids'[t] = Append(ids[t], neu[t])
        /\ DOMAIN ids[t] = 1 .. Len(ids[t])
        /\ DOMAIN ids'[t] = 1 .. Len(ids[t]) + 1
        /\ \A i \in DOMAIN ids[t] : ids'[t][i] = ids[t][i]
        /\ ids'[t][Len(ids[t]) + 1] = neu[t]
    BY <1>1, <2>1 DEF A!CasSucceeds, A!IInv, A!TypeOK
  <2>4. \A u \in AtomicThreads : \A i \in DOMAIN ids[u] : ids[u][i] \in A!Stamp
    BY DEF A!IInv, A!TypeOK
  <2>5. \A u \in AtomicThreads : \A i \in DOMAIN ids[u] : A!Before(ids[u][i], neu[t])
    BY <2>1, <2>4, AtomicOrder DEF A!IInv, A!TypeOK, A!IdsBehindWord
  <2>6. \A u \in AtomicThreads : \A i \in DOMAIN ids'[u] :
          \/ i \in DOMAIN ids[u] /\ ids'[u][i] = ids[u][i]
          \/ u = t /\ i = Len(ids[t]) + 1 /\ ids'[u][i] = neu[t]
    BY <2>2, <2>3
  <2>7. A!IdsBehindWord'
    BY <2>1, <2>4, <2>5, <2>6, AtomicOrder DEF A!IdsBehindWord
  <2>8. \A u \in AtomicThreads : \A i \in DOMAIN ids[u] : ids[u][i] # neu[t]
    BY <2>1, <2>4, <2>5, AtomicOrder
  <2>9. A!Unique'
    BY <2>6, <2>8 DEF A!IInv
  <2>10. QED
    BY <2>7, <2>9
<1>2. CASE ids' = ids /\ packed' = packed
  BY <1>2 DEF A!IInv, A!IdsBehindWord
<1>3. QED
  BY <1>1, <1>2 DEF A!Next, A!Step, A!Done, A!Call, A!Load, A!CasFails, A!vars

\* The shared word only moves forward, past every id in a caller's hands: the
\* inductive invariant holds in every reachable state of every instance.
THEOREM AtomicInvariant == A!Spec => []IdsStayUnique
<1>1. A!IInv /\ [A!Next]_(A!vars) => A!IInv'
  BY AtomicTypeStep, AttemptsStep, UniqueStep DEF A!IInv
<1>2. A!Spec => []A!IInv
  BY <1>1, AtomicInit, PTL DEF A!Spec
<1>3. A!IInv => IdsStayUnique
  BY DEF IdsStayUnique
<1>4. QED
  BY <1>2, <1>3, PTL

\* A thread only ever tries to move the word forward.
THEOREM ForwardOnly == A!Spec => []A!AttemptsMoveForward
<1>1. IdsStayUnique => A!AttemptsMoveForward
  BY DEF A!IInv, IdsStayUnique
<1>2. QED
  BY <1>1, AtomicInvariant, PTL

\* However the threads interleave and whatever their clocks show, no id is
\* returned twice.
THEOREM UniqueIds == A!Spec => []A!Unique
<1>1. IdsStayUnique => A!Unique
  BY DEF A!IInv, IdsStayUnique
<1>2. QED
  BY <1>1, AtomicInvariant, PTL

\* The generator implements a source of strictly increasing stamps.
THEOREM AtomicRefinement == A!Spec => ImplementsIdSource
<1>1. A!Init => A!Source!Init
  BY DEF A!Init, A!Source!Init, A!ZeroStamp, A!Source!ZeroStamp
<1>2. A!IInv /\ [A!Next]_(A!vars) => [A!Source!Next]_(A!Source!vars)
  <2>. SUFFICES ASSUME A!IInv, [A!Next]_(A!vars) PROVE [A!Source!Next]_(A!Source!vars)
    OBVIOUS
  <2>1. ASSUME NEW t \in AtomicThreads, A!CasSucceeds(t) PROVE A!Source!Next
    <3>1. packed' = neu[t] /\ neu[t] \in A!Stamp /\ A!Before(packed, neu[t])
      BY <2>1, CasMovesWord DEF A!IInv
    <3>2. A!Source!Give(t)
      BY <2>1, <3>1 DEF A!CasSucceeds, A!Source!Give, A!Before, A!Source!Before, A!Stamp,
                       A!Source!Stamp
    <3>3. QED
      BY <3>2 DEF A!Source!Next
  <2>2. CASE ids' = ids /\ packed' = packed
    BY <2>2 DEF A!Source!vars
  <2>3. QED
    BY <2>1, <2>2 DEF A!Next, A!Step, A!Done, A!Call, A!Load, A!CasFails, A!vars
<1>3. IdsStayUnique => A!IInv
  BY DEF IdsStayUnique
<1>4. QED
  BY <1>1, <1>2, <1>3, AtomicInvariant, PTL
     DEF A!Spec, ImplementsIdSource, A!ImplementsIdSource, A!Source!Spec
=============================================================================
