---------------------------- MODULE KafkaProofs ----------------------------
(***************************************************************************)
(* Proofs about Kafka, for any messages, sizes, limits and errors, and any *)
(* number of calls.                                                        *)
(***************************************************************************)
EXTENDS Kafka, SequencesExt, FiniteSets, TLAPS

-----------------------------------------------------------------------------
(* Sequences                                                               *)

LEMMA Appended ==
  ASSUME NEW S, NEW s \in Seq(S), NEW x \in S
  PROVE  /\ Append(s, x) \in Seq(S) /\ Len(Append(s, x)) = Len(s) + 1
         /\ \A y : y \in ToSet(Append(s, x)) <=> y \in ToSet(s) \/ y = x
<1>1. Append(s, x) \in Seq(S) /\ Len(Append(s, x)) = Len(s) + 1 /\ Len(s) \in Nat
  OBVIOUS
<1>2. /\ \A i \in 1 .. Len(s) : Append(s, x)[i] = s[i]
      /\ Append(s, x)[Len(s) + 1] = x
  OBVIOUS
<1>3. DOMAIN Append(s, x) = 1 .. Len(s) + 1 /\ DOMAIN s = 1 .. Len(s)
  OBVIOUS
<1>4. ASSUME NEW y, y \in ToSet(Append(s, x)) PROVE y \in ToSet(s) \/ y = x
  BY <1>1, <1>2, <1>3, <1>4 DEF ToSet
<1>5. ASSUME NEW y, y \in ToSet(s) \/ y = x PROVE y \in ToSet(Append(s, x))
  BY <1>1, <1>2, <1>3, <1>5 DEF ToSet
<1>6. QED
  BY <1>1, <1>4, <1>5

LEMMA Dropped ==
  ASSUME NEW S, NEW s \in Seq(S), s # <<>>
  PROVE  /\ Tail(s) \in Seq(S) /\ Head(s) \in S /\ Len(Tail(s)) = Len(s) - 1
         /\ \A y : y \in ToSet(s) <=> y \in ToSet(Tail(s)) \/ y = Head(s)
<1>1. Tail(s) \in Seq(S) /\ Head(s) \in S /\ Len(Tail(s)) = Len(s) - 1 /\ Len(s) \in Nat \ {0}
  OBVIOUS
<1>2. /\ \A i \in 1 .. Len(s) - 1 : Tail(s)[i] = s[i + 1]
      /\ Head(s) = s[1]
  OBVIOUS
<1>3. DOMAIN Tail(s) = 1 .. Len(s) - 1 /\ DOMAIN s = 1 .. Len(s)
  BY <1>1
<1>4. ASSUME NEW y, y \in ToSet(s) PROVE y \in ToSet(Tail(s)) \/ y = Head(s)
  <2>1. PICK i \in 1 .. Len(s) : y = s[i]
    BY <1>3, <1>4 DEF ToSet
  <2>2. CASE i = 1
    BY <1>2, <2>1, <2>2
  <2>3. CASE i # 1
    <3>1. i - 1 \in DOMAIN Tail(s) /\ Tail(s)[i - 1] = y
      BY <1>1, <1>2, <1>3, <2>1, <2>3
    <3>2. QED
      BY <3>1 DEF ToSet
  <2>4. QED
    BY <2>2, <2>3
<1>5. ASSUME NEW y, y \in ToSet(Tail(s)) \/ y = Head(s) PROVE y \in ToSet(s)
  <2>1. CASE y = Head(s)
    BY <1>1, <1>2, <1>3, <2>1 DEF ToSet
  <2>2. CASE y \in ToSet(Tail(s))
    <3>1. PICK i \in 1 .. Len(s) - 1 : y = Tail(s)[i]
      BY <1>3, <2>2 DEF ToSet
    <3>2. i + 1 \in DOMAIN s /\ s[i + 1] = y
      BY <1>1, <1>2, <1>3, <3>1
    <3>3. QED
      BY <3>2 DEF ToSet
  <2>3. QED
    BY <1>5, <2>1, <2>2
<1>6. QED
  BY <1>1, <1>4, <1>5

LEMMA Short ==
  ASSUME NEW S, NEW s \in Seq(S), Len(s) <= 2
  PROVE  /\ Len(s) \in {0, 1, 2}
         /\ Len(s) = 0 <=> s = <<>>
<1>1. \A n \in Nat : n <= 2 => n \in {0, 1, 2}
  OBVIOUS
<1>2. Len(s) \in Nat
  OBVIOUS
<1>3. Len(s) \in {0, 1, 2}
  BY <1>1, <1>2
<1>4. Len(s) = 0 => s = <<>>
  OBVIOUS
<1>5. s = <<>> => Len(s) = 0
  OBVIOUS
<1>6. QED
  BY <1>3, <1>4, <1>5, Zenon

\* Tick, Aborted, Stop and the messages are all different.
LEMMA HandlersDiffer ==
  /\ P!Tick # P!Aborted /\ P!Tick # P!Stop /\ P!Aborted # P!Stop
  /\ C!Tick = P!Tick /\ C!Aborted = P!Aborted /\ C!Stop = P!Stop
  /\ \A t : P!Message(t) \notin {P!Tick, P!Aborted, P!Stop}
  /\ \A t, u : P!Message(t) = P!Message(u) => t = u
<1>1. /\ P!Tick[1] = "tick" /\ P!Aborted[1] = "aborted" /\ P!Stop[1] = "stop"
      /\ \A t : P!Message(t)[1] = "send" /\ P!Message(t)[2] = t
  BY DEF P!Tick, P!Aborted, P!Stop, P!Message
<1>2. C!Tick = P!Tick /\ C!Aborted = P!Aborted /\ C!Stop = P!Stop
  BY DEF P!Tick, P!Aborted, P!Stop, C!Tick, C!Aborted, C!Stop
<1>3. QED
  BY <1>1, <1>2

-----------------------------------------------------------------------------
(* The queue of the producer's strand                                      *)

Plain == {P!Tick, P!Aborted, P!Stop}

LEMMA Kept ==
  /\ \A s : P!ToSet(s) = ToSet(s) /\ C!ToSet(s) = ToSet(s)
  /\ \A h : P!Queued(h) <=> h \in ToSet(queue)
  /\ \A h : C!Queued(h) <=> h \in ToSet(queue)
BY DEF P!ToSet, C!ToSet, ToSet, P!Queued, C!Queued

LEMMA KeptNext ==
  /\ \A h : P!Queued(h)' <=> h \in ToSet(queue')
  /\ \A h : C!Queued(h)' <=> h \in ToSet(queue')
BY DEF P!ToSet, C!ToSet, ToSet, P!Queued, C!Queued

\* Another handler than a message at the end changes nothing about the messages.
LEMMA PlainAppended ==
  ASSUME NEW q \in Seq(P!Handlers), P!MessagesInTurn(q), NEW h \in Plain
  PROVE  /\ Append(q, h) \in Seq(P!Handlers) /\ P!MessagesInTurn(Append(q, h))
         /\ h \in ToSet(Append(q, h))
         /\ \A x : x # h => (x \in ToSet(Append(q, h)) <=> x \in ToSet(q))
         /\ \A t : P!Message(t) \in ToSet(Append(q, h)) <=> P!Message(t) \in ToSet(q)
<1>1. h \in P!Handlers
  BY DEF Plain, P!Handlers
<1>2. \A t : P!Message(t) # h
  BY HandlersDiffer DEF Plain
<1>3. P!MessagesInTurn(Append(q, h))
  <2>1. \A i \in DOMAIN Append(q, h) :
          (i \in DOMAIN q /\ Append(q, h)[i] = q[i]) \/ Append(q, h)[i] = h
    BY <1>1
  <2>2. QED
    BY <1>2, <2>1 DEF P!MessagesInTurn
<1>4. QED
  BY <1>1, <1>2, <1>3, Appended

\* A message that was sent after all that wait comes last.
LEMMA MessageAppended ==
  ASSUME NEW q \in Seq(P!Handlers), P!MessagesInTurn(q), NEW n \in P!Tokens,
         \A t \in P!Tokens : P!Message(t) \in ToSet(q) => t < n
  PROVE  /\ Append(q, P!Message(n)) \in Seq(P!Handlers) /\ P!MessagesInTurn(Append(q, P!Message(n)))
         /\ \A x : x \in ToSet(Append(q, P!Message(n))) <=> x \in ToSet(q) \/ x = P!Message(n)
<1>. DEFINE h == P!Message(n)
<1>1. h \in P!Handlers
  BY DEF P!Handlers
<1>2. \A t : P!Message(t) = h => t = n
  BY HandlersDiffer
<1>3. P!MessagesInTurn(Append(q, h))
  <2>. HIDE DEF h
  <2>1. SUFFICES ASSUME NEW t \in P!Tokens, NEW u \in P!Tokens, NEW i \in DOMAIN Append(q, h),
                        NEW j \in DOMAIN Append(q, h), i < j,
                        Append(q, h)[i] = P!Message(t), Append(q, h)[j] = P!Message(u)
                 PROVE  t < u
    BY DEF P!MessagesInTurn
  <2>2. i \in DOMAIN q /\ Append(q, h)[i] = q[i]
    BY <1>1, <2>1
  <2>3. CASE j \in DOMAIN q
    <3>1. q[j] = P!Message(u)
      BY <2>1, <2>3
    <3>2. QED
      BY <2>1, <2>2, <2>3, <3>1 DEF P!MessagesInTurn
  <2>4. CASE j \notin DOMAIN q
    <3>1. Append(q, h)[j] = h
      BY <1>1, <2>1, <2>4
    <3>2. u = n
      BY <1>2, <2>1, <3>1
    <3>3. P!Message(t) \in ToSet(q)
      BY <2>1, <2>2 DEF ToSet
    <3>4. QED
      BY <3>2, <3>3
  <2>5. QED
    BY <2>3, <2>4
<1>4. QED
  BY <1>1, <1>3, Appended

\* Those that are left keep their turn, and a message that is taken out was sent
\* before any that is left.
LEMMA TailInTurn ==
  ASSUME NEW q \in Seq(P!Handlers), P!MessagesInTurn(q), q # <<>>
  PROVE  /\ Tail(q) \in Seq(P!Handlers) /\ P!MessagesInTurn(Tail(q))
         /\ \A x : x # Head(q) => (x \in ToSet(Tail(q)) <=> x \in ToSet(q))
         /\ Head(q) \in ToSet(q)
         /\ \A t, u \in P!Tokens : Head(q) = P!Message(t) /\ P!Message(u) \in ToSet(Tail(q)) => t < u
<1>1. Tail(q) \in Seq(P!Handlers) /\ Len(Tail(q)) = Len(q) - 1 /\ Len(q) \in Nat \ {0}
  OBVIOUS
<1>2. \A i \in DOMAIN Tail(q) : i + 1 \in DOMAIN q /\ Tail(q)[i] = q[i + 1] /\ i \in Nat /\ i > 0
  BY <1>1
<1>3. P!MessagesInTurn(Tail(q))
  <2>1. SUFFICES ASSUME NEW t \in P!Tokens, NEW u \in P!Tokens, NEW i \in DOMAIN Tail(q),
                        NEW j \in DOMAIN Tail(q), i < j, Tail(q)[i] = P!Message(t), Tail(q)[j] = P!Message(u)
                 PROVE  t < u
    BY DEF P!MessagesInTurn
  <2>2. i + 1 \in DOMAIN q /\ j + 1 \in DOMAIN q /\ i + 1 < j + 1 /\ q[i + 1] = P!Message(t) /\ q[j + 1] = P!Message(u)
    BY <1>2, <2>1
  <2>3. QED
    BY <2>2 DEF P!MessagesInTurn
<1>4. ASSUME NEW t \in P!Tokens, NEW u \in P!Tokens, Head(q) = P!Message(t), P!Message(u) \in ToSet(Tail(q))
      PROVE t < u
  <2>1. PICK j \in DOMAIN Tail(q) : Tail(q)[j] = P!Message(u)
    BY <1>4 DEF ToSet
  <2>2. 1 \in DOMAIN q /\ j + 1 \in DOMAIN q /\ 1 < j + 1 /\ q[1] = P!Message(t) /\ q[j + 1] = P!Message(u)
    BY <1>1, <1>2, <1>4, <2>1
  <2>3. QED
    BY <2>2 DEF P!MessagesInTurn
<1>5. QED
  BY <1>1, <1>3, <1>4, Dropped

-----------------------------------------------------------------------------
(* The producer: types                                                     *)

LEMMA ProducerConstants ==
  /\ Sends \in Nat /\ Size \in [P!Tokens -> Nat] /\ MaxPendingMsgs \in Nat /\ MaxPendingBytes \in Nat
  /\ Burst \in Nat \ {0} /\ MaxStarts \in Nat /\ MaxStops \in Nat
BY KafkaAssumption DEF P!KafkaProducerAssumption

LEMMA ProducerQueueTypes ==
  ASSUME P!TypeOK, P!Next
  PROVE  queue' \in Seq(P!Handlers)
<1>1. queue \in Seq(P!Handlers) /\ Plain \subseteq P!Handlers
  BY DEF P!TypeOK, Plain, P!Handlers
<1>2. \A q \in Seq(P!Handlers) : \A h \in P!Handlers : Append(q, h) \in Seq(P!Handlers)
  OBVIOUS
<1>3. queue # <<>> => Tail(queue) \in Seq(P!Handlers)
  BY <1>1
<1>4. CASE P!Send
  <2>1. sent + 1 \in P!Tokens
    BY <1>4, ProducerConstants DEF P!Send, P!TypeOK, P!Tokens
  <2>2. P!Message(sent + 1) \in P!Handlers
    BY <2>1 DEF P!Handlers
  <2>3. QED
    BY <1>1, <1>2, <1>4, <2>2 DEF P!Send, P!Post
<1>5. ASSUME NEW q \in Seq(P!Handlers) PROVE P!AbortWait(q) \in Seq(P!Handlers)
  BY <1>1, <1>2, <1>5 DEF P!AbortWait, Plain
<1>6. CASE P!CallStop \/ P!TimeUp
  BY <1>1, <1>2, <1>6 DEF P!CallStop, P!TimeUp, P!Post, P!Expire, Plain
<1>7. CASE P!StartSchedule \/ P!TickEnd
  BY <1>1, <1>5, <1>7 DEF P!StartSchedule, P!TickEnd, P!RearmWith
<1>8. CASE P!DoStop
  BY <1>3, <1>5, <1>8 DEF P!DoStop, P!CancelWith, P!Runs
<1>9. CASE P!DropHandler \/ P!TickStale \/ P!TickBegin \/ P!SkipAborted
  BY <1>3, <1>9 DEF P!DropHandler, P!TickStale, P!TickBegin, P!SkipAborted, P!RunAborted, P!Runs
<1>10. ASSUME NEW t \in P!Tokens, P!SendRefused(t) \/ P!SendTaken(t) \/ P!SendQueued(t)
       PROVE queue' \in Seq(P!Handlers)
  BY <1>3, <1>10 DEF P!SendRefused, P!SendTaken, P!SendQueued, P!Runs
<1>11. ASSUME \/ P!StartFails \/ P!StartInit \/ P!Release \/ P!StartRun \/ P!TickDrain
              \/ \E t \in P!Tokens : P!Settle(t)
       PROVE queue' \in Seq(P!Handlers)
  BY <1>1, <1>11 DEF P!StartFails, P!StartInit, P!Release, P!StartRun, P!TickDrain, P!Settle
<1>12. QED
  BY <1>4, <1>6, <1>7, <1>8, <1>9, <1>10, <1>11 DEF P!Next, P!StartGoesOn, P!StrandRuns, P!SomeSettles

LEMMA ProducerFlags ==
  ASSUME P!TypeOK, P!Next
  PROVE  /\ armed' \in BOOLEAN /\ running' \in BOOLEAN /\ rk' \in BOOLEAN
         /\ owned' \in BOOLEAN /\ quiet' \in BOOLEAN
<1>. armed \in BOOLEAN /\ running \in BOOLEAN /\ rk \in BOOLEAN /\ owned \in BOOLEAN /\ quiet \in BOOLEAN
  BY DEF P!TypeOK
<1>1. armed' \in BOOLEAN
  BY Zenon DEF P!Next, P!StartGoesOn, P!StrandRuns, P!SomeSettles, P!Post, P!CancelWith, P!RearmWith, P!Expire, P!RunAborted, P!libVars, P!callVars, P!Send, P!CallStop, P!StartFails, P!StartInit, P!Release, P!StartRun, P!StartSchedule, P!DropHandler, P!DoStop,
     P!TickStale, P!TickBegin, P!TickDrain, P!TickEnd, P!SkipAborted, P!SendRefused, P!SendTaken, P!SendQueued,
     P!TimeUp, P!Settle
<1>2. running' \in BOOLEAN
  BY Zenon DEF P!Next, P!StartGoesOn, P!StrandRuns, P!SomeSettles, P!libVars, P!callVars, P!Send, P!CallStop, P!StartFails, P!StartInit, P!Release, P!StartRun, P!StartSchedule, P!DropHandler, P!DoStop,
     P!TickStale, P!TickBegin, P!TickDrain, P!TickEnd, P!SkipAborted, P!SendRefused, P!SendTaken, P!SendQueued,
     P!TimeUp, P!Settle
<1>3. rk' \in BOOLEAN
  BY Zenon DEF P!Next, P!StartGoesOn, P!StrandRuns, P!SomeSettles, P!libVars, P!callVars, P!Send, P!CallStop, P!StartFails, P!StartInit, P!Release, P!StartRun, P!StartSchedule, P!DropHandler, P!DoStop,
     P!TickStale, P!TickBegin, P!TickDrain, P!TickEnd, P!SkipAborted, P!SendRefused, P!SendTaken, P!SendQueued,
     P!TimeUp, P!Settle
<1>4. owned' \in BOOLEAN
  BY Zenon DEF P!Next, P!StartGoesOn, P!StrandRuns, P!SomeSettles, P!libVars, P!callVars, P!Send, P!CallStop, P!StartFails, P!StartInit, P!Release, P!StartRun, P!StartSchedule, P!DropHandler, P!DoStop,
     P!TickStale, P!TickBegin, P!TickDrain, P!TickEnd, P!SkipAborted, P!SendRefused, P!SendTaken, P!SendQueued,
     P!TimeUp, P!Settle
<1>5. quiet' \in BOOLEAN
  BY Zenon DEF P!Next, P!StartGoesOn, P!StrandRuns, P!SomeSettles, P!libVars, P!callVars, P!Send, P!CallStop, P!StartFails, P!StartInit, P!Release, P!StartRun, P!StartSchedule, P!DropHandler, P!DoStop,
     P!TickStale, P!TickBegin, P!TickDrain, P!TickEnd, P!SkipAborted, P!SendRefused, P!SendTaken, P!SendQueued,
     P!TimeUp, P!Settle
<1>6. QED
  BY <1>1, <1>2, <1>3, <1>4, <1>5

\* The running totals of a list when a payload is added or the first is taken.
LEMMA NoBytes == P!HasBytes(<<>>, 0)
<1>1. Len(<<>>) = 0 /\ 0 .. 0 = {0} /\ 1 .. 0 = {}
  OBVIOUS
<1>2. PICK none \in [0 .. 0 -> 0 .. 0] : none[0] = 0
  <2>1. [i \in 0 .. 0 |-> 0] \in [0 .. 0 -> 0 .. 0] /\ [i \in 0 .. 0 |-> 0][0] = 0
    OBVIOUS
  <2>2. QED
    BY <2>1
<1>3. \A i, j \in 0 .. 0 : i <= j => none[i] <= none[j]
  BY <1>2
<1>4. QED
  BY <1>1, <1>2, <1>3 DEF P!HasBytes

LEMMA BytesAppended ==
  ASSUME NEW s \in Seq(P!Tokens), NEW n \in Nat, P!HasBytes(s, n), NEW t \in P!Tokens
  PROVE  P!HasBytes(Append(s, t), n + Size[t])
<1>. DEFINE a == Append(s, t)
            m == n + Size[t]
<1>1. Size[t] \in Nat /\ m \in Nat /\ m >= n
  BY ProducerConstants
<1>2. PICK total \in [0 .. Len(s) -> 0 .. n] :
        /\ total[0] = 0 /\ total[Len(s)] = n
        /\ \A i \in 1 .. Len(s) : total[i] = total[i - 1] + Size[s[i]]
        /\ \A i, j \in 0 .. Len(s) : i <= j => total[i] <= total[j]
  BY DEF P!HasBytes
<1>3. /\ Len(s) \in Nat /\ Len(a) = Len(s) + 1 /\ a[Len(s) + 1] = t
      /\ \A i \in 1 .. Len(s) : a[i] = s[i]
  OBVIOUS
<1>4. PICK more : more = [i \in 0 .. Len(s) + 1 |-> IF i <= Len(s) THEN total[i] ELSE m]
  OBVIOUS
<1>. HIDE DEF a, m
<1>5. /\ more \in [0 .. Len(s) + 1 -> 0 .. m]
      /\ more[Len(s) + 1] = m /\ \A i \in 0 .. Len(s) : more[i] = total[i]
  BY <1>1, <1>2, <1>3, <1>4
<1>6. \A i \in 1 .. Len(s) + 1 : more[i] = more[i - 1] + Size[a[i]]
  <2>1. more[Len(s) + 1] = more[Len(s)] + Size[a[Len(s) + 1]]
    BY <1>2, <1>3, <1>5 DEF m
  <2>2. ASSUME NEW i \in 1 .. Len(s) PROVE more[i] = more[i - 1] + Size[a[i]]
    BY <1>2, <1>3, <1>5, <2>2
  <2>3. QED
    BY <1>3, <2>1, <2>2, SMTT(30)
<1>7. \A i, j \in 0 .. Len(s) + 1 : i <= j => more[i] <= more[j]
  <2>1. ASSUME NEW i \in 0 .. Len(s) + 1, NEW j \in 0 .. Len(s) + 1, i <= j PROVE more[i] <= more[j]
    <3>1. CASE j <= Len(s)
      BY <1>2, <1>3, <1>5, <2>1, <3>1
    <3>2. CASE j = Len(s) + 1
      BY <1>1, <1>3, <1>5, <2>1, <3>2
    <3>3. QED
      BY <1>3, <2>1, <3>1, <3>2
  <2>2. QED
    BY <2>1
<1>8. P!HasBytes(a, m)
  BY <1>2, <1>3, <1>5, <1>6, <1>7 DEF P!HasBytes
<1>9. QED
  BY <1>8 DEF a, m

LEMMA BytesDropped ==
  ASSUME NEW s \in Seq(P!Tokens), NEW n \in Nat, P!HasBytes(s, n), s # <<>>
  PROVE  n - Size[Head(s)] \in Nat /\ P!HasBytes(Tail(s), n - Size[Head(s)])
<1>. DEFINE b == Tail(s)
            m == n - Size[Head(s)]
<1>1. /\ Len(s) \in Nat \ {0} /\ Len(b) = Len(s) - 1 /\ Head(s) = s[1] /\ s[1] \in P!Tokens
      /\ \A i \in 1 .. Len(s) - 1 : b[i] = s[i + 1]
  OBVIOUS
<1>2. PICK total \in [0 .. Len(s) -> 0 .. n] :
        /\ total[0] = 0 /\ total[Len(s)] = n
        /\ \A i \in 1 .. Len(s) : total[i] = total[i - 1] + Size[s[i]]
        /\ \A i, j \in 0 .. Len(s) : i <= j => total[i] <= total[j]
  BY DEF P!HasBytes
<1>3. Size[s[1]] \in Nat /\ total[1] = Size[s[1]] /\ total[1] <= n
  BY <1>1, <1>2, ProducerConstants
<1>0. \A i \in 0 .. Len(s) : total[i] \in Int
  BY <1>1, <1>2
<1>4. PICK less : less = [i \in 0 .. Len(s) - 1 |-> total[i + 1] - total[1]]
  OBVIOUS
<1>5. m = n - total[1] /\ m \in Nat
  BY <1>1, <1>3
<1>. HIDE DEF b, m
<1>6. \A i \in 0 .. Len(s) - 1 : total[i + 1] \in total[1] .. n /\ less[i] = total[i + 1] - total[1]
  BY <1>1, <1>2, <1>4
<1>7. less \in [0 .. Len(s) - 1 -> 0 .. m] /\ less[0] = 0 /\ less[Len(s) - 1] = m
  BY <1>1, <1>2, <1>3, <1>4, <1>5, <1>6, SMTT(30)
<1>8. \A i \in 1 .. Len(s) - 1 : less[i] = less[i - 1] + Size[b[i]]
  <2>1. ASSUME NEW i \in 1 .. Len(s) - 1 PROVE less[i] = less[i - 1] + Size[b[i]]
    <3>1. i + 1 \in 1 .. Len(s) /\ i \in 0 .. Len(s) - 1 /\ i - 1 \in 0 .. Len(s) - 1
      BY <1>1, <2>1
    <3>2. total[i + 1] = total[i] + Size[s[i + 1]] /\ b[i] = s[i + 1] /\ Size[s[i + 1]] \in Nat
      BY <1>1, <1>2, <2>1, <3>1, ProducerConstants
    <3>3. less[i] = total[i + 1] - total[1] /\ less[i - 1] = total[i] - total[1]
      BY <1>6, <3>1
    <3>4. total[i] \in Int /\ total[1] \in Int
      BY <1>0, <1>1, <3>1
    <3>5. QED
      BY <3>2, <3>3, <3>4
  <2>2. QED
    BY <2>1
<1>9. \A i, j \in 0 .. Len(s) - 1 : i <= j => less[i] <= less[j]
  <2>1. ASSUME NEW i \in 0 .. Len(s) - 1, NEW j \in 0 .. Len(s) - 1, i <= j PROVE less[i] <= less[j]
    <3>1. total[i + 1] <= total[j + 1]
      BY <1>1, <1>2, <2>1
    <3>2. total[i + 1] \in Int /\ total[j + 1] \in Int /\ total[1] \in Int
      BY <1>0, <1>1, <2>1
    <3>3. QED
      BY <1>6, <2>1, <3>1, <3>2
  <2>2. QED
    BY <2>1
<1>10. P!HasBytes(b, m)
  BY <1>1, <1>7, <1>8, <1>9 DEF P!HasBytes
<1>11. QED
  BY <1>5, <1>10 DEF b, m

LEMMA ProducerInit == P!Init => P!IInv
<1>. SUFFICES ASSUME P!Init PROVE P!IInv
  OBVIOUS
<1>1. queue = <<>> /\ armed = FALSE
  BY DEF P!Init, P!StrandInit
<1>2. armed \in BOOLEAN /\ running \in BOOLEAN /\ rk \in BOOLEAN /\ owned \in BOOLEAN /\ quiet \in BOOLEAN
  BY <1>1 DEF P!Init
<1>3. P!TypeOK
  BY <1>1, <1>2, ProducerConstants DEF P!Init, P!TypeOK
<1>4. \A x : x \notin ToSet(<<>>)
  BY DEF ToSet
<1>5. P!EachTokenInOnePlace
  <2>1. \A t \in P!Tokens : P!InOnePlace(t)
    BY <1>1, <1>4, Kept DEF P!Init, P!InOnePlace, P!Tokens
  <2>2. P!MessagesInTurn(queue) /\ P!InTurn(pending) /\ Len(pending) <= MaxPendingMsgs /\ pendingBytes <= MaxPendingBytes
    BY <1>1, ProducerConstants DEF P!Init, P!MessagesInTurn, P!InTurn
  <2>3. QED
    BY <2>1, <2>2, NoBytes DEF P!Init, P!EachTokenInOnePlace
<1>6. P!OvertakesOnlyWaiting /\ P!Started
  BY DEF P!Init, P!OvertakesOnlyWaiting, P!Started
<1>7. P!LeavesInTurn
  BY <1>4, Kept DEF P!Init, P!LeavesInTurn
<1>8. QED
  BY <1>3, <1>5, <1>6, <1>7 DEF P!IInv

\* What a report to the sink adds.
LEMMA Reported ==
  ASSUME P!TypeOK, NEW S
  PROVE  /\ P!Report(S) \in [P!Tokens -> Nat]
         /\ \A t \in P!Tokens : P!Report(S)[t] = IF t \in S THEN reports[t] + 1 ELSE reports[t]
BY DEF P!TypeOK, P!Report

\* The local queue: adding a message that there is room for, taking the first.
LEMMA LocalQueue ==
  ASSUME P!IInv
  PROVE  /\ \A t \in P!Tokens : ~P!NoRoom(t) =>
               /\ Append(pending, t) \in Seq(P!Tokens) /\ Len(Append(pending, t)) <= MaxPendingMsgs
               /\ pendingBytes + Size[t] \in 0 .. MaxPendingBytes
               /\ P!HasBytes(Append(pending, t), pendingBytes + Size[t])
               /\ \A u : u \in ToSet(Append(pending, t)) <=> u \in ToSet(pending) \/ u = t
         /\ pending # <<>> =>
               /\ Tail(pending) \in Seq(P!Tokens) /\ Len(Tail(pending)) <= MaxPendingMsgs
               /\ pendingBytes - Size[Head(pending)] \in 0 .. MaxPendingBytes
               /\ P!HasBytes(Tail(pending), pendingBytes - Size[Head(pending)])
               /\ Head(pending) \in P!Tokens /\ Head(pending) \in ToSet(pending)
               /\ \A u : u \in ToSet(Tail(pending)) <=> u \in ToSet(pending) /\ u # Head(pending)
               /\ P!InTurn(Tail(pending))
               /\ \A u \in ToSet(Tail(pending)) : Head(pending) < u
<1>1. /\ pending \in Seq(P!Tokens) /\ pendingBytes \in 0 .. MaxPendingBytes /\ P!HasBytes(pending, pendingBytes)
      /\ P!InTurn(pending) /\ Len(pending) <= MaxPendingMsgs /\ pendingBytes \in Nat
  BY ProducerConstants DEF P!IInv, P!TypeOK, P!EachTokenInOnePlace
<1>2. ASSUME NEW t \in P!Tokens, ~P!NoRoom(t)
      PROVE /\ Append(pending, t) \in Seq(P!Tokens) /\ Len(Append(pending, t)) <= MaxPendingMsgs
            /\ pendingBytes + Size[t] \in 0 .. MaxPendingBytes
            /\ P!HasBytes(Append(pending, t), pendingBytes + Size[t])
            /\ \A u : u \in ToSet(Append(pending, t)) <=> u \in ToSet(pending) \/ u = t
  <2>1. Size[t] \in Nat /\ Len(pending) \in Nat /\ Len(pending) < MaxPendingMsgs
        /\ pendingBytes + Size[t] <= MaxPendingBytes
    BY <1>1, <1>2, ProducerConstants DEF P!NoRoom
  <2>2. pendingBytes + Size[t] \in 0 .. MaxPendingBytes
    BY <1>1, <2>1, ProducerConstants
  <2>3. P!HasBytes(Append(pending, t), pendingBytes + Size[t])
    BY <1>1, <1>2, BytesAppended
  <2>4. QED
    BY <1>1, <1>2, <2>1, <2>2, <2>3, Appended, ProducerConstants
<1>3. ASSUME pending # <<>>
      PROVE /\ Tail(pending) \in Seq(P!Tokens) /\ Len(Tail(pending)) <= MaxPendingMsgs
            /\ pendingBytes - Size[Head(pending)] \in 0 .. MaxPendingBytes
            /\ P!HasBytes(Tail(pending), pendingBytes - Size[Head(pending)])
            /\ Head(pending) \in P!Tokens /\ Head(pending) \in ToSet(pending)
            /\ \A u : u \in ToSet(Tail(pending)) <=> u \in ToSet(pending) /\ u # Head(pending)
            /\ P!InTurn(Tail(pending))
            /\ \A u \in ToSet(Tail(pending)) : Head(pending) < u
  <2>1. /\ Tail(pending) \in Seq(P!Tokens) /\ Len(Tail(pending)) = Len(pending) - 1 /\ Len(pending) \in Nat \ {0}
        /\ Head(pending) \in P!Tokens /\ Head(pending) = pending[1]
        /\ \A i \in DOMAIN Tail(pending) : i \in Nat \ {0} /\ i + 1 \in DOMAIN pending /\ Tail(pending)[i] = pending[i + 1]
    BY <1>1, <1>3
  <2>2. Size[Head(pending)] \in Nat
    BY <2>1, ProducerConstants
  <2>3. pendingBytes - Size[Head(pending)] \in Nat /\ P!HasBytes(Tail(pending), pendingBytes - Size[Head(pending)])
    BY <1>1, <1>3, BytesDropped
  <2>4. pendingBytes - Size[Head(pending)] \in 0 .. MaxPendingBytes
    BY <1>1, <2>2, <2>3, ProducerConstants
  <2>5. P!InTurn(Tail(pending))
    BY <1>1, <2>1 DEF P!InTurn
  <2>6. ASSUME NEW u \in ToSet(Tail(pending)) PROVE Head(pending) < u
    <3>1. PICK i \in DOMAIN Tail(pending) : u = Tail(pending)[i]
      BY <2>6 DEF ToSet
    <3>2. 1 \in DOMAIN pending /\ i + 1 \in DOMAIN pending /\ 1 < i + 1 /\ u = pending[i + 1]
      BY <1>1, <2>1, <3>1
    <3>3. QED
      BY <1>1, <2>1, <3>2 DEF P!InTurn
  <2>7. Head(pending) \notin ToSet(Tail(pending))
    BY <2>1, <2>6 DEF P!Tokens
  <2>8. QED
    BY <1>1, <1>3, <2>1, <2>3, <2>4, <2>5, <2>6, <2>7, Dropped, ProducerConstants
<1>4. QED
  BY <1>2, <1>3

LEMMA ProducerTypeStep ==
  ASSUME P!IInv, P!Next
  PROVE  P!TypeOK'
<1>. DEFINE Rest ==
       /\ pending \in Seq(P!Tokens) /\ pendingBytes \in 0 .. MaxPendingBytes
       /\ handler \in {"idle", "draining"} /\ drained \in 0 .. Burst
       /\ starter \in {"idle", "inited", "scheduling"}
       /\ inLib \subseteq P!Tokens /\ done \subseteq inLib /\ produced \in Seq(P!Tokens)
       /\ sent \in 0 .. Sends /\ starts \in 0 .. MaxStarts /\ stops \in 0 .. MaxStops
       /\ reports \in [P!Tokens -> Nat] /\ lost \subseteq P!Tokens /\ waited \subseteq P!Tokens
<1>1. P!TypeOK /\ Rest
  BY DEF P!IInv, P!TypeOK
<1>2. \A S : P!Report(S) \in [P!Tokens -> Nat]
  BY <1>1, Reported
<1>3. ASSUME P!Send \/ P!CallStop \/ P!StartFails \/ P!StartInit \/ P!Release \/ P!StartRun \/ P!StartSchedule PROVE Rest'
  BY <1>1, <1>3, ProducerConstants DEF P!Send, P!CallStop, P!StartFails, P!StartInit, P!Release, P!StartRun,
     P!StartSchedule, P!libVars
<1>4. ASSUME P!DropHandler PROVE Rest'
  BY <1>1, <1>4 DEF P!DropHandler, P!libVars, P!callVars
<1>5. ASSUME P!DoStop PROVE Rest'
  <2>1. <<>> \in Seq(P!Tokens) /\ 0 \in 0 .. MaxPendingBytes
    BY ProducerConstants
  <2>2. QED
    BY <1>1, <1>2, <1>5, <2>1 DEF P!DoStop, P!callVars
<1>6. ASSUME P!TickStale \/ P!SkipAborted \/ P!TimeUp \/ \E t \in P!Tokens : P!Settle(t) PROVE Rest'
  BY <1>1, <1>6 DEF P!TickStale, P!SkipAborted, P!TimeUp, P!Settle, P!libVars, P!callVars
<1>7. ASSUME P!TickBegin \/ P!TickEnd PROVE Rest'
  <2>1. reports' \in [P!Tokens -> Nat] /\ inLib' \subseteq P!Tokens /\ done' \subseteq inLib'
    BY <1>1, <1>2, <1>7 DEF P!TickBegin, P!TickEnd, P!Poll
  <2>2. drained' \in 0 .. Burst
    BY <1>1, <1>7, ProducerConstants DEF P!TickBegin, P!TickEnd
  <2>3. QED
    BY <1>1, <1>7, <2>1, <2>2 DEF P!TickBegin, P!TickEnd, P!callVars
<1>8. ASSUME P!TickDrain PROVE Rest'
  <2>1. pending # <<>> /\ pending' = Tail(pending) /\ pendingBytes' = pendingBytes - Size[Head(pending)]
    BY <1>8 DEF P!TickDrain, P!PopFront
  <2>2. /\ pending' \in Seq(P!Tokens) /\ pendingBytes' \in 0 .. MaxPendingBytes /\ Head(pending) \in P!Tokens
    BY <2>1, LocalQueue
  <2>3. drained' \in 0 .. Burst
    BY <1>1, <1>8, ProducerConstants DEF P!TickDrain
  <2>4. /\ inLib' \subseteq P!Tokens /\ done' \subseteq inLib' /\ produced' \in Seq(P!Tokens)
        /\ reports' \in [P!Tokens -> Nat]
    <3>1. Append(produced, Head(pending)) \in Seq(P!Tokens)
      BY <1>1, <2>2
    <3>2. QED
      BY <1>1, <1>2, <1>8, <2>2, <3>1 DEF P!TickDrain, P!Takes
  <2>5. QED
    BY <1>1, <1>8, <2>2, <2>3, <2>4 DEF P!TickDrain, P!callVars
<1>9. ASSUME NEW t \in P!Tokens, P!SendRefused(t) \/ P!SendTaken(t) \/ P!SendQueued(t) PROVE Rest'
  <2>1. CASE P!SendRefused(t)
    BY <1>1, <1>2, <2>1 DEF P!SendRefused, P!libVars, P!callVars
  <2>2. CASE P!SendTaken(t)
    <3>1. Append(produced, t) \in Seq(P!Tokens)
      BY <1>1
    <3>2. QED
      BY <1>1, <2>2, <3>1 DEF P!SendTaken, P!Takes, P!callVars
  <2>3. CASE P!SendQueued(t)
    BY <1>1, <2>3, LocalQueue DEF P!SendQueued, P!libVars, P!callVars
  <2>4. QED
    BY <1>9, <2>1, <2>2, <2>3
<1>10. Rest'
  BY <1>3, <1>4, <1>5, <1>6, <1>7, <1>8, <1>9 DEF P!Next, P!StartGoesOn, P!StrandRuns, P!SomeSettles
<1>11. QED
  BY <1>1, <1>10, ProducerQueueTypes, ProducerFlags DEF P!TypeOK

-----------------------------------------------------------------------------
(* The producer: where the messages are                                    *)

\* What waits for the strand, when the step neither sends nor takes a message.
LEMMA PlainStep ==
  ASSUME P!IInv,
         \/ P!CallStop \/ P!StartFails \/ P!StartInit \/ P!Release \/ P!StartRun \/ P!StartSchedule
         \/ P!DoStop \/ P!TickStale \/ P!TickBegin \/ P!TickDrain \/ P!TickEnd \/ P!SkipAborted \/ P!TimeUp
         \/ \E t \in P!Tokens : P!Settle(t)
  PROVE  P!MessagesInTurn(queue') /\ \A t : P!Queued(P!Message(t))' <=> P!Queued(P!Message(t))
<1>. DEFINE Same == P!MessagesInTurn(queue') /\ \A t : P!Queued(P!Message(t))' <=> P!Queued(P!Message(t))
<1>1. queue \in Seq(P!Handlers) /\ P!MessagesInTurn(queue)
  BY DEF P!IInv, P!TypeOK, P!EachTokenInOnePlace
<1>2. CASE queue' = queue
  BY <1>1, <1>2, Kept, KeptNext
<1>3. ASSUME NEW h \in Plain, queue' = Append(queue, h) PROVE Same
  BY <1>1, <1>3, Kept, KeptNext, PlainAppended
<1>4. ASSUME queue # <<>>, Head(queue) \in Plain PROVE
        /\ Tail(queue) \in Seq(P!Handlers) /\ P!MessagesInTurn(Tail(queue))
        /\ \A t : P!Message(t) \in ToSet(Tail(queue)) <=> P!Message(t) \in ToSet(queue)
  BY <1>1, <1>4, TailInTurn, HandlersDiffer DEF Plain
<1>5. ASSUME queue # <<>>, Head(queue) \in Plain, queue' = Tail(queue) PROVE Same
  BY <1>4, <1>5, Kept, KeptNext
<1>6. ASSUME queue # <<>>, Head(queue) \in Plain, NEW h \in Plain, queue' = Append(Tail(queue), h) PROVE Same
  BY <1>4, <1>6, Kept, KeptNext, PlainAppended
<1>7. CASE P!CallStop \/ P!TimeUp
  BY <1>3, <1>7 DEF P!CallStop, P!TimeUp, P!Post, P!Expire, Plain
<1>8. CASE P!StartSchedule \/ P!TickEnd
  BY <1>2, <1>3, <1>8 DEF P!StartSchedule, P!TickEnd, P!RearmWith, P!AbortWait, Plain
<1>9. CASE P!DoStop
  BY <1>5, <1>6, <1>9 DEF P!DoStop, P!CancelWith, P!AbortWait, P!Runs, Plain
<1>10. CASE P!TickStale \/ P!TickBegin \/ P!SkipAborted
  BY <1>5, <1>10 DEF P!TickStale, P!TickBegin, P!SkipAborted, P!RunAborted, P!Runs, Plain
<1>11. CASE P!StartFails \/ P!StartInit \/ P!Release \/ P!StartRun \/ P!TickDrain \/ \E t \in P!Tokens : P!Settle(t)
  BY <1>2, <1>11 DEF P!StartFails, P!StartInit, P!Release, P!StartRun, P!TickDrain, P!Settle
<1>12. QED
  BY <1>7, <1>8, <1>9, <1>10, <1>11

\* What waits for the strand, when the strand takes a message.
LEMMA TakenStep ==
  ASSUME P!IInv, NEW t0 \in P!Tokens, queue # <<>>, Head(queue) = P!Message(t0), queue' = Tail(queue)
  PROVE  /\ P!MessagesInTurn(queue')
         /\ P!Queued(P!Message(t0))
         /\ \A t : P!Queued(P!Message(t))' <=> P!Queued(P!Message(t)) /\ t # t0
         /\ \A t \in P!Tokens : P!Queued(P!Message(t))' => t0 < t
<1>1. queue \in Seq(P!Handlers) /\ P!MessagesInTurn(queue)
  BY DEF P!IInv, P!TypeOK, P!EachTokenInOnePlace
<1>2. /\ P!MessagesInTurn(Tail(queue)) /\ Head(queue) \in ToSet(queue)
      /\ \A x : x # Head(queue) => (x \in ToSet(Tail(queue)) <=> x \in ToSet(queue))
      /\ \A t, u \in P!Tokens : Head(queue) = P!Message(t) /\ P!Message(u) \in ToSet(Tail(queue)) => t < u
  BY <1>1, TailInTurn
<1>3. P!Message(t0) \notin ToSet(Tail(queue))
  BY <1>2 DEF P!Tokens
<1>4. \A t : P!Message(t) \in ToSet(Tail(queue)) <=> P!Message(t) \in ToSet(queue) /\ t # t0
  BY <1>2, <1>3, HandlersDiffer
<1>5. QED
  BY <1>2, <1>4, Kept, KeptNext

\* What waits for the strand, when send() posts.
LEMMA SentStep ==
  ASSUME P!IInv, P!Send
  PROVE  /\ sent + 1 \in P!Tokens /\ P!MessagesInTurn(queue')
         /\ \A t : P!Queued(P!Message(t))' <=> P!Queued(P!Message(t)) \/ t = sent + 1
<1>1. /\ queue \in Seq(P!Handlers) /\ P!MessagesInTurn(queue) /\ sent \in 0 .. Sends
      /\ \A t \in P!Tokens : P!InOnePlace(t)
  BY DEF P!IInv, P!TypeOK, P!EachTokenInOnePlace
<1>2. sent + 1 \in P!Tokens /\ queue' = Append(queue, P!Message(sent + 1))
  BY <1>1, ProducerConstants DEF P!Send, P!Post, P!Tokens
<1>3. \A t \in P!Tokens : P!Message(t) \in ToSet(queue) => t < sent + 1
  BY <1>1, Kept DEF P!InOnePlace, P!Tokens
<1>4. /\ P!MessagesInTurn(Append(queue, P!Message(sent + 1)))
      /\ \A x : x \in ToSet(Append(queue, P!Message(sent + 1))) <=> x \in ToSet(queue) \/ x = P!Message(sent + 1)
  BY <1>1, <1>2, <1>3, MessageAppended
<1>5. \A t : P!Message(t) \in ToSet(queue') <=> P!Message(t) \in ToSet(queue) \/ t = sent + 1
  BY <1>2, <1>4, HandlersDiffer
<1>6. QED
  BY <1>2, <1>4, <1>5, Kept, KeptNext

\* The handler of a message, when the object is gone, has a message or another
\* handler at the head.
LEMMA DroppedStep ==
  ASSUME P!IInv, P!DropHandler
  PROVE  \/ /\ lost' = lost /\ P!MessagesInTurn(queue')
            /\ \A t : P!Queued(P!Message(t))' <=> P!Queued(P!Message(t))
         \/ \E t0 \in P!Tokens :
               queue # <<>> /\ Head(queue) = P!Message(t0) /\ queue' = Tail(queue) /\ lost' = lost \cup {t0}
<1>1. /\ queue \in Seq(P!Handlers) /\ P!MessagesInTurn(queue) /\ queue # <<>> /\ queue' = Tail(queue)
      /\ lost' = lost \cup {t \in P!Tokens : Head(queue) = P!Message(t)}
  BY DEF P!IInv, P!TypeOK, P!EachTokenInOnePlace, P!DropHandler
<1>2. CASE Head(queue) \in Plain
  <2>1. \A t : P!Message(t) # Head(queue)
    BY <1>2, HandlersDiffer DEF Plain
  <2>2. lost' = lost
    BY <1>1, <2>1
  <2>3. /\ P!MessagesInTurn(Tail(queue))
        /\ \A t : P!Message(t) \in ToSet(Tail(queue)) <=> P!Message(t) \in ToSet(queue)
    BY <1>1, <2>1, TailInTurn
  <2>4. QED
    BY <1>1, <2>2, <2>3, Kept, KeptNext
<1>3. CASE Head(queue) \notin Plain
  <2>1. Head(queue) \in P!Handlers
    BY <1>1
  <2>2. PICK t0 \in P!Tokens : Head(queue) = P!Message(t0)
    BY <1>3, <2>1 DEF P!Handlers, Plain
  <2>3. {t \in P!Tokens : Head(queue) = P!Message(t)} = {t0}
    BY <2>2, HandlersDiffer
  <2>4. QED
    BY <1>1, <2>2, <2>3
<1>4. QED
  BY <1>2, <1>3

\* No step moves a message but to the next place.
LEMMA OnePlaceStep ==
  ASSUME P!IInv, P!Next, NEW t \in P!Tokens
  PROVE  P!InOnePlace(t)'
<1>. DEFINE Waits == P!Queued(P!Message(t))
<1>1. P!TypeOK /\ P!InOnePlace(t) /\ done \subseteq inLib /\ (pending # <<>> \/ inLib # {} => rk) /\ t \in Int
  BY ProducerConstants, SMTT(30) DEF P!IInv, P!TypeOK, P!EachTokenInOnePlace, P!Started, P!Tokens
<1>2. \A S : P!Report(S)[t] = IF t \in S THEN reports[t] + 1 ELSE reports[t]
  BY <1>1, Reported
<1>3. P!InOnePlace(t)' <=>
        /\ t <= sent' <=> Waits' \/ t \in ToSet(pending') \/ t \in inLib' \/ reports'[t] = 1 \/ t \in lost'
        /\ Waits' => t \notin ToSet(pending') \cup inLib' \cup lost' /\ reports'[t] = 0
        /\ t \in ToSet(pending') => t \notin inLib' \cup lost' /\ reports'[t] = 0
        /\ t \in inLib' => t \notin lost' /\ reports'[t] = 0
        /\ reports'[t] \in {0, 1} /\ (reports'[t] = 1 => t \notin lost')
  BY Kept DEF P!InOnePlace
<1>4. P!InOnePlace(t) <=>
        /\ t <= sent <=> Waits \/ t \in ToSet(pending) \/ t \in inLib \/ reports[t] = 1 \/ t \in lost
        /\ Waits => t \notin ToSet(pending) \cup inLib \cup lost /\ reports[t] = 0
        /\ t \in ToSet(pending) => t \notin inLib \cup lost /\ reports[t] = 0
        /\ t \in inLib => t \notin lost /\ reports[t] = 0
        /\ reports[t] \in {0, 1} /\ (reports[t] = 1 => t \notin lost)
  BY Kept DEF P!InOnePlace
<1>5. CASE P!Send
  <2>1. Waits' <=> Waits \/ t = sent + 1
    BY <1>5, SentStep
  <2>2. sent \in Int
    BY <1>1, ProducerConstants DEF P!TypeOK
  <2>3. QED
    BY <1>1, <1>3, <1>4, <1>5, <2>1, <2>2 DEF P!Send, P!libVars
<1>6. CASE \/ P!CallStop \/ P!StartFails \/ P!StartInit \/ P!Release \/ P!StartRun \/ P!StartSchedule
           \/ P!TickStale \/ P!SkipAborted \/ P!TimeUp \/ \E u \in P!Tokens : P!Settle(u)
  <2>1. Waits' <=> Waits
    BY <1>6, PlainStep
  <2>2. UNCHANGED <<sent, pending, inLib, reports, lost>>
    BY <1>6 DEF P!CallStop, P!StartFails, P!StartInit, P!Release, P!StartRun, P!StartSchedule, P!TickStale,
       P!SkipAborted, P!TimeUp, P!Settle, P!libVars, P!callVars
  <2>3. QED
    BY <1>1, <1>3, <1>4, <2>1, <2>2
<1>7. CASE P!DoStop
  <2>1. Waits' <=> Waits
    BY <1>7, PlainStep
  <2>2. CASE ~(running \/ rk)
    BY <1>1, <1>3, <1>4, <1>7, <2>1, <2>2 DEF P!DoStop, P!callVars
  <2>3. CASE running \/ rk
    <3>1. /\ sent' = sent /\ pending' = <<>> /\ inLib' = {} /\ lost' = lost \cup inLib
          /\ reports'[t] = IF t \in ToSet(pending) THEN reports[t] + 1 ELSE reports[t]
      BY <1>1, <1>2, <1>7, <2>3, Kept DEF P!DoStop, P!callVars
    <3>2. t \notin ToSet(pending')
      BY <3>1 DEF ToSet
    <3>3. QED
      BY <1>1, <1>3, <1>4, <2>1, <3>1, <3>2
  <2>4. QED
    BY <2>2, <2>3
<1>8. CASE P!TickBegin \/ P!TickEnd
  <2>1. Waits' <=> Waits
    BY <1>8, PlainStep
  <2>2. sent' = sent /\ pending' = pending /\ lost' = lost
    BY <1>8 DEF P!TickBegin, P!TickEnd, P!callVars
  <2>3. CASE UNCHANGED <<inLib, reports>>
    BY <1>1, <1>3, <1>4, <2>1, <2>2, <2>3
  <2>4. CASE P!Poll
    BY <1>1, <1>2, <1>3, <1>4, <2>1, <2>2, <2>4 DEF P!Poll
  <2>5. QED
    BY <1>8, <2>3, <2>4 DEF P!TickBegin, P!TickEnd
<1>9. CASE P!TickDrain
  <2>1. Waits' <=> Waits
    BY <1>9, PlainStep
  <2>2. /\ sent' = sent /\ lost' = lost /\ pending # <<>> /\ pending' = Tail(pending)
        /\ \/ inLib' = inLib \cup {Head(pending)} /\ reports' = reports
           \/ inLib' = inLib /\ reports' = P!Report({Head(pending)})
    BY <1>9 DEF P!TickDrain, P!PopFront, P!Takes, P!callVars
  <2>3. /\ Head(pending) \in ToSet(pending)
        /\ t \in ToSet(pending') <=> t \in ToSet(pending) /\ t # Head(pending)
    BY <2>2, LocalQueue
  <2>4. QED
    BY <1>1, <1>2, <1>3, <1>4, <2>1, <2>2, <2>3
<1>10. CASE P!DropHandler
  <2>1. UNCHANGED <<sent, pending, inLib, reports>>
    BY <1>10 DEF P!DropHandler, P!libVars, P!callVars
  <2>2. CASE lost' = lost /\ (Waits' <=> Waits)
    BY <1>1, <1>3, <1>4, <2>1, <2>2
  <2>3. ASSUME NEW t0 \in P!Tokens, queue # <<>>, Head(queue) = P!Message(t0), queue' = Tail(queue), lost' = lost \cup {t0}
        PROVE P!InOnePlace(t)'
    <3>1. P!Queued(P!Message(t0)) /\ (Waits' <=> Waits /\ t # t0)
      BY <2>3, TakenStep
    <3>2. QED
      BY <1>1, <1>3, <1>4, <2>1, <2>3, <3>1
  <2>4. QED
    BY <1>10, <2>2, <2>3, DroppedStep
<1>11. ASSUME NEW t0 \in P!Tokens, P!SendRefused(t0) \/ P!SendTaken(t0) \/ P!SendQueued(t0) PROVE P!InOnePlace(t)'
  <2>1. P!Queued(P!Message(t0)) /\ (Waits' <=> Waits /\ t # t0)
    BY <1>11, TakenStep DEF P!SendRefused, P!SendTaken, P!SendQueued, P!Runs
  <2>2. CASE P!SendRefused(t0)
    BY <1>1, <1>2, <1>3, <1>4, <2>1, <2>2 DEF P!SendRefused, P!libVars, P!callVars
  <2>3. CASE P!SendTaken(t0)
    BY <1>1, <1>3, <1>4, <2>1, <2>3 DEF P!SendTaken, P!Takes, P!callVars
  <2>4. CASE P!SendQueued(t0)
    <3>1. t \in ToSet(pending') <=> t \in ToSet(pending) \/ t = t0
      BY <2>4, LocalQueue DEF P!SendQueued
    <3>2. QED
      BY <1>1, <1>3, <1>4, <2>1, <2>4, <3>1 DEF P!SendQueued, P!libVars, P!callVars
  <2>5. QED
    BY <1>11, <2>2, <2>3, <2>4
<1>12. QED
  BY <1>5, <1>6, <1>7, <1>8, <1>9, <1>10, <1>11 DEF P!Next, P!StartGoesOn, P!StrandRuns, P!SomeSettles

\* All messages that wait, wait in the order of sending.
LEMMA InTurnStep ==
  ASSUME P!IInv, P!Next
  PROVE  P!MessagesInTurn(queue')
<1>1. CASE P!Send
  BY <1>1, SentStep
<1>2. CASE P!DropHandler
  BY <1>2, DroppedStep, TakenStep
<1>3. ASSUME NEW t \in P!Tokens, P!SendRefused(t) \/ P!SendTaken(t) \/ P!SendQueued(t) PROVE P!MessagesInTurn(queue')
  BY <1>3, TakenStep DEF P!SendRefused, P!SendTaken, P!SendQueued, P!Runs
<1>4. QED
  BY <1>1, <1>2, <1>3, PlainStep DEF P!Next, P!StartGoesOn, P!StrandRuns, P!SomeSettles

\* A message that the strand takes was sent after all that has left the strand.
LEMMA AfterTheOthers ==
  ASSUME P!IInv, NEW t \in P!Tokens, P!Queued(P!Message(t))
  PROVE  /\ t <= sent /\ t \in Int
         /\ \A u \in ToSet(produced) \cup waited \cup ToSet(pending) : u < t /\ u # t /\ u \in Int
<1>1. \A u \in ToSet(produced) \cup waited \cup ToSet(pending) : u < t
  BY Kept DEF P!IInv, P!LeavesInTurn
<1>2. ToSet(produced) \subseteq P!Tokens
  <2>1. produced \in Seq(P!Tokens)
    BY DEF P!IInv, P!TypeOK
  <2>2. \A i \in DOMAIN produced : produced[i] \in P!Tokens
    BY <2>1
  <2>3. QED
    BY <2>2 DEF ToSet
<1>3. ToSet(pending) \subseteq P!Tokens /\ waited \subseteq P!Tokens
  BY Kept DEF P!IInv, P!TypeOK, P!LeavesInTurn
<1>4. t <= sent
  BY DEF P!IInv, P!EachTokenInOnePlace, P!InOnePlace
<1>5. P!Tokens \subseteq Int
  BY ProducerConstants DEF P!Tokens
<1>6. ASSUME NEW u \in ToSet(produced) \cup waited \cup ToSet(pending)
      PROVE u < t /\ u # t /\ u \in Int
  <2>1. u \in Int /\ t \in Int /\ u < t
    BY <1>1, <1>2, <1>3, <1>5
  <2>2. QED
    BY <2>1
<1>7. t \in Int
  BY <1>5
<1>8. QED
  BY <1>4, <1>6, <1>7

LEMMA EachTokenStep ==
  ASSUME P!IInv, P!Next
  PROVE  P!EachTokenInOnePlace'
<1>. DEFINE Local ==
       /\ P!InTurn(pending) /\ P!HasBytes(pending, pendingBytes)
       /\ Len(pending) <= MaxPendingMsgs /\ pendingBytes <= MaxPendingBytes
       /\ pending # <<>> => rk
<1>1. Local /\ pending \in Seq(P!Tokens)
  BY DEF P!IInv, P!TypeOK, P!EachTokenInOnePlace
<1>2. CASE P!DoStop
  <2>1. CASE running \/ rk
    BY <1>2, <2>1, NoBytes, ProducerConstants, OnePlaceStep, InTurnStep
    DEF P!DoStop, P!EachTokenInOnePlace, P!InTurn
  <2>2. CASE ~(running \/ rk)
    <3>1. Local'
      BY <1>1, <1>2, <2>2 DEF P!DoStop
    <3>2. QED
      BY <3>1, OnePlaceStep, InTurnStep DEF P!EachTokenInOnePlace
  <2>3. QED
    BY <2>1, <2>2
<1>3. ASSUME P!TickDrain PROVE Local'
  <2>1. pending # <<>> /\ pending' = Tail(pending) /\ pendingBytes' = pendingBytes - Size[Head(pending)] /\ rk' = rk
    BY <1>3 DEF P!TickDrain, P!PopFront
  <2>2. pendingBytes - Size[Head(pending)] <= MaxPendingBytes
    BY <2>1, LocalQueue, ProducerConstants
  <2>3. QED
    BY <1>1, <2>1, <2>2, LocalQueue
<1>4. ASSUME NEW t \in P!Tokens, P!SendQueued(t) PROVE Local'
  <2>1. pending' = Append(pending, t) /\ pendingBytes' = pendingBytes + Size[t] /\ rk' = rk /\ rk /\ ~P!NoRoom(t)
    BY <1>4 DEF P!SendQueued, P!Usable
  <2>2. \A u \in ToSet(pending) : u < t
    BY <1>4, TakenStep, AfterTheOthers DEF P!SendQueued, P!Runs
  <2>3. \A i \in DOMAIN pending : pending[i] < t
    BY <2>2 DEF ToSet
  <2>4. P!InTurn(Append(pending, t))
    BY <1>1, <2>3 DEF P!InTurn
  <2>5. pendingBytes + Size[t] <= MaxPendingBytes
    BY <1>4, <2>1, LocalQueue, ProducerConstants
  <2>6. QED
    BY <1>4, <2>1, <2>4, <2>5, LocalQueue
<1>5. ASSUME \/ P!Send \/ P!CallStop \/ P!StartFails \/ P!StartInit \/ P!Release \/ P!StartRun \/ P!StartSchedule
             \/ P!DropHandler \/ P!TickStale \/ P!TickBegin \/ P!TickEnd \/ P!SkipAborted \/ P!TimeUp
             \/ \E t \in P!Tokens : P!Settle(t) \/ P!SendRefused(t) \/ P!SendTaken(t)
      PROVE Local'
  <2>1. UNCHANGED <<pending, pendingBytes>>
    BY <1>5 DEF P!Send, P!CallStop, P!StartFails, P!StartInit, P!Release, P!StartRun, P!StartSchedule, P!DropHandler,
       P!TickStale, P!TickBegin, P!TickEnd, P!SkipAborted, P!TimeUp, P!Settle, P!SendRefused, P!SendTaken
  <2>2. rk' = rk \/ rk' = TRUE
    BY <1>5, Zenon DEF P!Send, P!CallStop, P!StartFails, P!StartInit, P!Release, P!StartRun, P!StartSchedule, P!DropHandler,
       P!TickStale, P!TickBegin, P!TickEnd, P!SkipAborted, P!TimeUp, P!Settle, P!SendRefused, P!SendTaken
  <2>3. QED
    BY <1>1, <2>1, <2>2
<1>6. CASE Local'
  BY <1>6, OnePlaceStep, InTurnStep DEF P!EachTokenInOnePlace
<1>7. QED
  BY <1>2, <1>3, <1>4, <1>5, <1>6 DEF P!Next, P!StartGoesOn, P!StrandRuns, P!SomeSettles

-----------------------------------------------------------------------------
(* The producer: the order in which the library takes the messages         *)

\* One more message for the library: those it took before are in order with it.
LEMMA TakesNext ==
  ASSUME P!IInv, NEW t \in P!Tokens, produced' = Append(produced, t), waited' = waited,
         \A u \in ToSet(produced) : u > t => t \in waited /\ u \notin waited
  PROVE  P!OvertakesOnlyWaiting'
<1>1. produced \in Seq(P!Tokens) /\ P!OvertakesOnlyWaiting
  BY DEF P!IInv, P!TypeOK
<1>2. SUFFICES ASSUME NEW i \in DOMAIN produced', NEW j \in DOMAIN produced', i < j, produced'[i] > produced'[j]
               PROVE  produced'[j] \in waited /\ produced'[i] \notin waited
  BY DEF P!OvertakesOnlyWaiting
<1>3. i \in DOMAIN produced /\ produced'[i] = produced[i]
  BY <1>1, <1>2
<1>4. CASE j \in DOMAIN produced
  <2>1. produced'[j] = produced[j]
    BY <1>1, <1>4
  <2>2. QED
    BY <1>1, <1>2, <1>3, <1>4, <2>1 DEF P!OvertakesOnlyWaiting
<1>5. CASE j \notin DOMAIN produced
  <2>1. produced'[j] = t
    BY <1>1, <1>2, <1>5
  <2>2. produced[i] \in ToSet(produced)
    BY <1>3 DEF ToSet
  <2>3. QED
    BY <1>2, <1>3, <2>1, <2>2
<1>6. QED
  BY <1>4, <1>5

LEMMA OvertakesStep ==
  ASSUME P!IInv, P!Next
  PROVE  P!OvertakesOnlyWaiting'
<1>1. P!OvertakesOnlyWaiting /\ produced \in Seq(P!Tokens) /\ P!LeavesInTurn
  BY DEF P!IInv, P!TypeOK
<1>2. CASE UNCHANGED <<produced, waited>>
  BY <1>1, <1>2 DEF P!OvertakesOnlyWaiting
<1>3. CASE P!TickDrain
  <2>1. CASE produced' = produced
    BY <1>2, <1>3, <2>1 DEF P!TickDrain
  <2>2. CASE produced' # produced
    <3>1. produced' = Append(produced, Head(pending)) /\ waited' = waited /\ pending # <<>>
      BY <1>3, <2>2 DEF P!TickDrain, P!Takes
    <3>2. Head(pending) \in P!Tokens /\ Head(pending) \in ToSet(pending)
      BY <3>1, LocalQueue
    <3>3. Head(pending) \in waited /\ \A u \in ToSet(produced) \cap waited : u < Head(pending)
      BY <1>1, <3>2, Kept DEF P!LeavesInTurn
    <3>4. \A u \in ToSet(produced) : u \in Int
      BY <1>1, ProducerConstants DEF ToSet, P!Tokens
    <3>5. Head(pending) \in Int
      BY <3>2, ProducerConstants DEF P!Tokens
    <3>6. \A u \in ToSet(produced) : u > Head(pending) => Head(pending) \in waited /\ u \notin waited
      BY <3>3, <3>4, <3>5
    <3>7. QED
      BY <3>1, <3>2, <3>6, TakesNext
  <2>3. QED
    BY <2>1, <2>2
<1>4. ASSUME NEW t \in P!Tokens, P!SendTaken(t) PROVE P!OvertakesOnlyWaiting'
  <2>1. produced' = Append(produced, t) /\ waited' = waited
    BY <1>4 DEF P!SendTaken, P!Takes
  <2>2. \A u \in ToSet(produced) : u < t /\ u \in Int /\ t \in Int
    BY <1>4, TakenStep, AfterTheOthers DEF P!SendTaken, P!Runs
  <2>3. QED
    BY <2>1, <2>2, TakesNext
<1>5. ASSUME NEW t \in P!Tokens, P!SendQueued(t) PROVE P!OvertakesOnlyWaiting'
  <2>1. produced' = produced /\ waited' = waited \cup {t}
    BY <1>5 DEF P!SendQueued, P!libVars
  <2>2. \A u \in ToSet(produced) : u # t
    BY <1>5, TakenStep, AfterTheOthers DEF P!SendQueued, P!Runs
  <2>3. \A i \in DOMAIN produced : produced[i] # t
    BY <2>2 DEF ToSet
  <2>4. QED
    BY <1>1, <2>1, <2>3 DEF P!OvertakesOnlyWaiting
<1>6. ASSUME \/ P!Send \/ P!CallStop \/ P!StartFails \/ P!StartInit \/ P!Release \/ P!StartRun \/ P!StartSchedule
             \/ P!DropHandler \/ P!DoStop \/ P!TickStale \/ P!TickBegin \/ P!TickEnd \/ P!SkipAborted \/ P!TimeUp
             \/ \E t \in P!Tokens : P!Settle(t) \/ P!SendRefused(t)
      PROVE UNCHANGED <<produced, waited>>
  BY <1>6 DEF P!Send, P!CallStop, P!StartFails, P!StartInit, P!Release, P!StartRun, P!StartSchedule, P!DropHandler,
     P!DoStop, P!TickStale, P!TickBegin, P!TickEnd, P!SkipAborted, P!TimeUp, P!Settle, P!SendRefused, P!libVars
<1>7. QED
  BY <1>2, <1>3, <1>4, <1>5, <1>6 DEF P!Next, P!StartGoesOn, P!StrandRuns, P!SomeSettles

\* What waits was sent after all that has left.
LEMMA LeavesInTurnStep ==
  ASSUME P!IInv, P!Next
  PROVE  P!LeavesInTurn'
<1>1. /\ produced \in Seq(P!Tokens) /\ sent \in Int /\ waited \subseteq P!Tokens /\ P!Tokens \subseteq Int
      /\ P!InTurn(pending) /\ P!TypeOK
  BY ProducerConstants, SMTT(30) DEF P!IInv, P!TypeOK, P!EachTokenInOnePlace, P!Tokens
<1>2. ToSet(produced) \subseteq P!Tokens
  <2>1. \A i \in DOMAIN produced : produced[i] \in P!Tokens
    BY <1>1
  <2>2. QED
    BY <2>1 DEF ToSet
<1>3. /\ \A u \in ToSet(produced) \cup waited :
           u <= sent /\ \A t \in P!Tokens : P!Queued(P!Message(t)) => u < t
      /\ ToSet(pending) \subseteq waited
      /\ \A u \in ToSet(produced) \cap waited : \A t \in ToSet(pending) : u < t
  BY Kept DEF P!IInv, P!LeavesInTurn
<1>4. (/\ \A u \in ToSet(produced') \cup waited' :
            u <= sent' /\ \A t \in P!Tokens : P!Queued(P!Message(t))' => u < t
       /\ ToSet(pending') \subseteq waited'
       /\ \A u \in ToSet(produced') \cap waited' : \A t \in ToSet(pending') : u < t)
      => P!LeavesInTurn'
  BY Kept DEF P!LeavesInTurn
<1>5. CASE P!Send
  <2>1. \A t : P!Queued(P!Message(t))' <=> P!Queued(P!Message(t)) \/ t = sent + 1
    BY <1>5, SentStep
  <2>2. sent' = sent + 1 /\ UNCHANGED <<produced, waited, pending>>
    BY <1>5 DEF P!Send, P!libVars
  <2>3. ASSUME NEW u \in ToSet(produced) \cup waited PROVE u <= sent + 1 /\ u < sent + 1
    <3>1. u \in Int /\ u <= sent
      BY <1>1, <1>2, <1>3
    <3>2. QED
      BY <1>1, <3>1
  <2>4. QED
    BY <1>3, <1>4, <2>1, <2>2, <2>3
<1>6. ASSUME UNCHANGED <<sent, produced, waited>>, pending' = pending \/ pending' = <<>>,
             \A t \in P!Tokens : P!Queued(P!Message(t))' => P!Queued(P!Message(t))
      PROVE  P!LeavesInTurn'
  <2>1. ToSet(<<>>) = {}
    BY DEF ToSet
  <2>2. ToSet(pending') \subseteq ToSet(pending)
    BY <1>6, <2>1
  <2>3. QED
    BY <1>3, <1>4, <1>6, <2>2
<1>7. CASE \/ P!CallStop \/ P!StartFails \/ P!StartInit \/ P!Release \/ P!StartRun \/ P!StartSchedule
           \/ P!TickStale \/ P!TickBegin \/ P!TickEnd \/ P!SkipAborted \/ P!TimeUp \/ P!DoStop
           \/ \E u \in P!Tokens : P!Settle(u)
  <2>1. UNCHANGED <<sent, produced, waited>> /\ (pending' = pending \/ pending' = <<>>)
    BY <1>7 DEF P!CallStop, P!StartFails, P!StartInit, P!Release, P!StartRun, P!StartSchedule, P!TickStale,
       P!TickBegin, P!TickEnd, P!SkipAborted, P!TimeUp, P!DoStop, P!Settle, P!libVars, P!callVars
  <2>2. QED
    BY <1>6, <1>7, <2>1, PlainStep
<1>8. CASE P!DropHandler
  <2>1. UNCHANGED <<sent, produced, waited, pending>>
    BY <1>8 DEF P!DropHandler, P!libVars, P!callVars
  <2>2. \A t \in P!Tokens : P!Queued(P!Message(t))' => P!Queued(P!Message(t))
    BY <1>8, DroppedStep, TakenStep
  <2>3. QED
    BY <1>6, <2>1, <2>2
<1>9. CASE P!TickDrain
  <2>1. /\ UNCHANGED <<sent, waited>> /\ pending # <<>> /\ pending' = Tail(pending)
        /\ produced' = produced \/ produced' = Append(produced, Head(pending))
    BY <1>9 DEF P!TickDrain, P!Takes, P!PopFront, P!callVars
  <2>2. /\ Head(pending) \in P!Tokens /\ Head(pending) \in ToSet(pending)
        /\ ToSet(pending') \subseteq ToSet(pending)
        /\ \A u \in ToSet(pending') : Head(pending) < u
    BY <2>1, LocalQueue
  <2>3. \A u \in ToSet(produced') : u \in ToSet(produced) \/ u = Head(pending)
    BY <1>1, <2>1, <2>2, Appended
  <2>4. \A t : P!Queued(P!Message(t))' <=> P!Queued(P!Message(t))
    BY <1>9, PlainStep
  <2>5. QED
    BY <1>3, <1>4, <2>1, <2>2, <2>3, <2>4
<1>10. ASSUME NEW t0 \in P!Tokens, P!SendRefused(t0) \/ P!SendTaken(t0) \/ P!SendQueued(t0) PROVE P!LeavesInTurn'
  <2>1. /\ P!Queued(P!Message(t0))
        /\ \A t \in P!Tokens : P!Queued(P!Message(t))' => P!Queued(P!Message(t)) /\ t0 < t
    BY <1>10, TakenStep DEF P!SendRefused, P!SendTaken, P!SendQueued, P!Runs
  <2>2. t0 <= sent /\ \A u \in ToSet(produced) \cup waited : u < t0 /\ u # t0
    BY <2>1, AfterTheOthers
  <2>3. sent' = sent
    BY <1>10 DEF P!SendRefused, P!SendTaken, P!SendQueued, P!callVars
  <2>4. CASE P!SendRefused(t0)
    BY <1>6, <2>1, <2>3, <2>4 DEF P!SendRefused, P!libVars
  <2>5. CASE P!SendTaken(t0)
    <3>1. UNCHANGED <<pending, waited>> /\ \A u \in ToSet(produced') : u \in ToSet(produced) \/ u = t0
      BY <1>1, <2>5, Appended DEF P!SendTaken, P!Takes
    <3>2. QED
      BY <1>3, <1>4, <2>1, <2>2, <2>3, <3>1
  <2>6. CASE P!SendQueued(t0)
    <3>1. /\ produced' = produced /\ waited' = waited \cup {t0}
          /\ \A u \in ToSet(pending') : u \in ToSet(pending) \/ u = t0
      BY <2>6, LocalQueue DEF P!SendQueued, P!libVars
    <3>2. QED
      BY <1>3, <1>4, <2>1, <2>2, <2>3, <3>1
  <2>7. QED
    BY <1>10, <2>4, <2>5, <2>6
<1>11. QED
  BY <1>5, <1>7, <1>8, <1>9, <1>10 DEF P!Next, P!StartGoesOn, P!StrandRuns, P!SomeSettles

-----------------------------------------------------------------------------
(* The producer: a tick is on its way                                      *)

\* A handler that is queued at the end; one that is taken.
LEMMA QueuedAppended ==
  ASSUME NEW q \in Seq(P!Handlers), NEW h \in P!Handlers, queue' = Append(q, h)
  PROVE  \A x : P!Queued(x)' <=> x \in ToSet(q) \/ x = h
BY Appended, Kept, KeptNext

LEMMA QueuedTaken ==
  ASSUME P!TypeOK, queue # <<>>
  PROVE  /\ Tail(queue) \in Seq(P!Handlers)
         /\ \A x : P!Queued(x) <=> x \in ToSet(Tail(queue)) \/ x = Head(queue)
BY Dropped, Kept DEF P!TypeOK

\* A stop is queued by nothing but stop(); a tick is taken by nothing but the
\* timer's handler.
LEMMA TicksAndStops ==
  ASSUME P!IInv, P!Next
  PROVE  /\ P!Queued(P!Stop)' => P!Queued(P!Stop) \/ P!CallStop
         /\ P!Queued(P!Tick) => P!Queued(P!Tick)' \/ P!TickStale \/ P!TickBegin
<1>. DEFINE Goal == /\ P!Queued(P!Stop)' => P!Queued(P!Stop)
                    /\ P!Queued(P!Tick) => P!Queued(P!Tick)'
<1>1. P!TypeOK /\ queue \in Seq(P!Handlers) /\ P!Tick \in P!Handlers /\ P!Aborted \in P!Handlers /\ P!Stop \in P!Handlers
  BY DEF P!IInv, P!TypeOK, P!Handlers
<1>2. ASSUME queue' = queue PROVE Goal
  BY <1>2, Kept, KeptNext
<1>3. ASSUME queue' = P!AbortWait(queue) PROVE Goal
  <2>1. CASE queue' = queue
    BY <1>2, <2>1
  <2>2. CASE queue' = Append(queue, P!Aborted)
    BY <1>1, <2>2, QueuedAppended, HandlersDiffer, Kept
  <2>3. QED
    BY <1>3, <2>1, <2>2 DEF P!AbortWait
<1>4. ASSUME queue # <<>>, queue' = Tail(queue)
      PROVE /\ \A x : P!Queued(x)' => P!Queued(x)
            /\ \A x : P!Queued(x) /\ x # Head(queue) => P!Queued(x)'
  BY <1>1, <1>4, QueuedTaken, KeptNext
<1>5. CASE P!Send
  <2>1. P!Message(sent + 1) \in P!Handlers /\ queue' = Append(queue, P!Message(sent + 1))
    BY <1>5, SentStep DEF P!Handlers, P!Send, P!Post
  <2>2. QED
    BY <1>1, <2>1, QueuedAppended, HandlersDiffer, Kept
<1>6. CASE P!CallStop
  BY <1>1, <1>6, QueuedAppended, HandlersDiffer, Kept DEF P!CallStop, P!Post
<1>7. CASE P!TimeUp
  BY <1>1, <1>7, QueuedAppended, HandlersDiffer, Kept DEF P!TimeUp, P!Expire
<1>8. CASE P!StartSchedule \/ P!TickEnd
  BY <1>2, <1>3, <1>8 DEF P!StartSchedule, P!TickEnd, P!RearmWith
<1>9. CASE P!DoStop
  <2>1. /\ queue # <<>> /\ Head(queue) = P!Stop
        /\ queue' = Tail(queue) \/ queue' = Append(Tail(queue), P!Aborted)
    BY <1>9 DEF P!DoStop, P!CancelWith, P!AbortWait, P!Runs
  <2>2. CASE queue' = Tail(queue)
    BY <1>4, <2>1, <2>2, HandlersDiffer
  <2>3. CASE queue' = Append(Tail(queue), P!Aborted)
    BY <1>1, <2>1, <2>3, QueuedTaken, QueuedAppended, HandlersDiffer
  <2>4. QED
    BY <2>1, <2>2, <2>3
<1>10. CASE P!DropHandler
  <2>1. ~P!Queued(P!Tick) /\ queue # <<>> /\ queue' = Tail(queue)
    BY <1>10 DEF P!DropHandler, P!Alive
  <2>2. QED
    BY <1>4, <2>1
<1>11. CASE P!TickStale \/ P!TickBegin
  <2>1. queue # <<>> /\ queue' = Tail(queue)
    BY <1>11 DEF P!TickStale, P!TickBegin, P!Runs
  <2>2. QED
    BY <1>4, <1>11, <2>1
<1>12. CASE P!SkipAborted
  BY <1>4, <1>12, HandlersDiffer DEF P!SkipAborted, P!RunAborted
<1>13. ASSUME NEW t \in P!Tokens, P!SendRefused(t) \/ P!SendTaken(t) \/ P!SendQueued(t) PROVE Goal
  <2>1. queue # <<>> /\ Head(queue) = P!Message(t) /\ queue' = Tail(queue)
    BY <1>13 DEF P!SendRefused, P!SendTaken, P!SendQueued, P!Runs
  <2>2. QED
    BY <1>4, <2>1, HandlersDiffer
<1>14. ASSUME P!StartFails \/ P!StartInit \/ P!Release \/ P!StartRun \/ P!TickDrain \/ \E t \in P!Tokens : P!Settle(t)
       PROVE Goal
  BY <1>2, <1>14 DEF P!StartFails, P!StartInit, P!Release, P!StartRun, P!TickDrain, P!Settle
<1>15. QED
  BY <1>5, <1>6, <1>7, <1>8, <1>9, <1>10, <1>11, <1>12, <1>13, <1>14
  DEF P!Next, P!StartGoesOn, P!StrandRuns, P!SomeSettles

\* What a producer that nobody holds is no more.
LEMMA Unheld ==
  ASSUME P!TypeOK, P!Started, ~P!Alive
  PROVE  ~running /\ ~rk /\ ~quiet /\ starter = "idle" /\ ~armed /\ handler = "idle" /\ ~P!Queued(P!Tick)
BY Zenon DEF P!Started, P!Alive

\* A producer that runs keeps a tick coming, and one that is only begun runs
\* in the end: no stop is in between.
LEMMA StartedStep ==
  ASSUME P!IInv, P!Next
  PROVE  P!Started'
<1>. DEFINE Chain ==
       /\ starter # "idle" => owned
       /\ rk /\ starter # "inited" => running
       /\ quiet => rk /\ (starter # "inited" => running)
            Coming == running /\ starter = "idle" => armed \/ P!Queued(P!Tick) \/ handler = "draining"
            Undisturbed == quiet => ~P!Queued(P!Stop)
            Held == inLib # {} => rk
<1>1. Chain /\ Coming /\ Undisturbed /\ Held /\ P!TypeOK /\ P!Started /\ (pending # <<>> => rk)
  BY DEF P!IInv, P!Started, P!EachTokenInOnePlace
<1>2. Chain'
  <2>1. CASE P!DoStop
    <3>1. ~quiet
      BY <1>1, <2>1, HandlersDiffer, Dropped, Kept DEF P!DoStop, P!Runs, P!TypeOK
    <3>2. QED
      BY <1>1, <2>1, <3>1, Zenon DEF P!DoStop, P!callVars
  <2>2. CASE P!StartSchedule
    BY <1>1, <2>2 DEF P!StartSchedule
  <2>3. CASE P!StartRun
    BY <1>1, <2>3 DEF P!StartRun
  <2>4. CASE P!StartInit
    BY <1>1, <2>4 DEF P!StartInit
  <2>5. CASE P!StartFails \/ P!Release
    BY <1>1, <2>5 DEF P!StartFails, P!Release
  <2>6. CASE P!CallStop
    BY <1>1, <2>6 DEF P!CallStop
  <2>7. ASSUME \/ P!Send \/ P!DropHandler \/ P!TickStale \/ P!TickBegin \/ P!TickDrain \/ P!TickEnd \/ P!SkipAborted
               \/ P!TimeUp \/ \E t \in P!Tokens : P!Settle(t) \/ P!SendRefused(t) \/ P!SendTaken(t) \/ P!SendQueued(t)
        PROVE  Chain'
    <3>1. UNCHANGED <<starter, owned, rk, running, quiet>>
      BY <2>7 DEF P!Send, P!DropHandler, P!TickStale, P!TickBegin, P!TickDrain, P!TickEnd, P!SkipAborted, P!TimeUp,
         P!Settle, P!SendRefused, P!SendTaken, P!SendQueued, P!callVars
    <3>2. QED
      BY <1>1, <3>1
  <2>8. QED
    BY <2>1, <2>2, <2>3, <2>4, <2>5, <2>6, <2>7 DEF P!Next, P!StartGoesOn, P!StrandRuns, P!SomeSettles
<1>3. Undisturbed'
  <2>1. CASE P!CallStop
    BY <2>1 DEF P!CallStop
  <2>2. CASE P!StartInit
    BY <2>2, Kept, KeptNext DEF P!StartInit
  <2>3. CASE ~P!CallStop /\ ~P!StartInit
    <3>1. quiet' => quiet
      BY <2>3, Zenon DEF P!Next, P!StartGoesOn, P!StrandRuns, P!SomeSettles, P!libVars, P!callVars, P!Send,
         P!StartFails, P!Release, P!StartRun, P!StartSchedule, P!DropHandler, P!DoStop, P!TickStale, P!TickBegin,
         P!TickDrain, P!TickEnd, P!SkipAborted, P!SendRefused, P!SendTaken, P!SendQueued, P!TimeUp, P!Settle
    <3>2. QED
      BY <1>1, <2>3, <3>1, TicksAndStops
  <2>4. QED
    BY <2>1, <2>2, <2>3
<1>4. Held'
  <2>1. CASE P!DoStop
    BY <1>1, <2>1 DEF P!DoStop
  <2>2. CASE P!StartInit
    BY <1>1, <2>2 DEF P!StartInit
  <2>3. CASE P!TickBegin \/ P!TickEnd
    BY <1>1, <2>3 DEF P!TickBegin, P!TickEnd, P!Poll
  <2>4. CASE P!TickDrain
    BY <1>1, <2>4 DEF P!TickDrain, P!Takes
  <2>5. ASSUME NEW t \in P!Tokens, P!SendTaken(t) PROVE Held'
    BY <1>1, <2>5 DEF P!SendTaken, P!Usable
  <2>6. ASSUME \/ P!Send \/ P!CallStop \/ P!StartFails \/ P!Release \/ P!StartRun \/ P!StartSchedule \/ P!DropHandler
               \/ P!TickStale \/ P!SkipAborted \/ P!TimeUp
               \/ \E t \in P!Tokens : P!Settle(t) \/ P!SendRefused(t) \/ P!SendQueued(t)
        PROVE  Held'
    <3>1. UNCHANGED <<inLib, rk>>
      BY <2>6 DEF P!Send, P!CallStop, P!StartFails, P!Release, P!StartRun, P!StartSchedule, P!DropHandler,
         P!TickStale, P!SkipAborted, P!TimeUp, P!Settle, P!SendRefused, P!SendQueued, P!libVars
    <3>2. QED
      BY <1>1, <3>1
  <2>7. QED
    BY <2>1, <2>2, <2>3, <2>4, <2>5, <2>6 DEF P!Next, P!StartGoesOn, P!StrandRuns, P!SomeSettles
<1>5. Coming'
  <2>1. CASE P!StartSchedule
    BY <1>1, <2>1 DEF P!StartSchedule, P!RearmWith
  <2>2. CASE P!TickEnd
    BY <2>2 DEF P!TickEnd, P!RearmWith
  <2>3. CASE P!TickBegin
    BY <2>3 DEF P!TickBegin
  <2>4. CASE P!TickStale
    BY <2>4 DEF P!TickStale
  <2>5. CASE P!TimeUp
    <3>1. P!Queued(P!Tick)'
      BY <1>1, <2>5, QueuedAppended DEF P!TimeUp, P!Expire, P!TypeOK, P!Handlers
    <3>2. QED
      BY <3>1
  <2>6. CASE P!DoStop
    <3>1. ~running'
      BY <2>6 DEF P!DoStop
    <3>2. QED
      BY <3>1
  <2>7. CASE P!StartInit \/ P!StartRun
    <3>1. starter' # "idle"
      BY <2>7 DEF P!StartInit, P!StartRun
    <3>2. QED
      BY <3>1
  <2>8. ASSUME \/ P!Send \/ P!CallStop \/ P!StartFails \/ P!Release \/ P!DropHandler \/ P!TickDrain \/ P!SkipAborted
               \/ \E t \in P!Tokens : P!Settle(t) \/ P!SendRefused(t) \/ P!SendTaken(t) \/ P!SendQueued(t)
        PROVE  Coming'
    <3>1. UNCHANGED <<running, starter, armed, handler>>
      BY <2>8 DEF P!Send, P!CallStop, P!StartFails, P!Release, P!DropHandler, P!TickDrain, P!SkipAborted, P!Settle,
         P!SendRefused, P!SendTaken, P!SendQueued, P!callVars, P!Post, P!RunAborted
    <3>2. CASE P!TickBegin
      BY <3>1, <3>2 DEF P!TickBegin, P!Runs
    <3>3. CASE P!TickStale
      BY <3>1, <3>3 DEF P!TickStale
    <3>4. QED
      BY <1>1, <3>1, <3>2, <3>3, TicksAndStops
  <2>9. QED
    BY <2>1, <2>2, <2>3, <2>4, <2>5, <2>6, <2>7, <2>8 DEF P!Next, P!StartGoesOn, P!StrandRuns, P!SomeSettles
<1>6. QED
  BY <1>2, <1>3, <1>4, <1>5 DEF P!Started

LEMMA ProducerStep ==
  ASSUME P!IInv, P!Next
  PROVE  P!IInv'
BY ProducerTypeStep, EachTokenStep, OvertakesStep, StartedStep, LeavesInTurnStep DEF P!IInv

LEMMA ProducerStarted ==
  ASSUME P!TypeOK, P!Started
  PROVE  P!StartedUnlessStopped /\ P!NothingLeaked
<1>1. P!NothingLeaked
  BY Unheld DEF P!NothingLeaked
<1>2. P!StartedUnlessStopped
  BY DEF P!Started, P!StartedUnlessStopped, P!Usable
<1>3. QED
  BY <1>1, <1>2

-----------------------------------------------------------------------------
(* The consumer                                                            *)

LEMMA ConsumerConstants ==
  NotInitialised \notin Errors /\ MaxPerPoll \in Nat /\ MinInterval \in Nat /\ MaxStarts \in Nat /\ MaxStops \in Nat
BY KafkaAssumption DEF C!KafkaConsumerAssumption

LEMMA ConsumerInit == C!Init => C!IInv
<1>. SUFFICES ASSUME C!Init PROVE C!IInv
  OBVIOUS
<1>1. queue = <<>> /\ armed = FALSE
  BY DEF C!Init, C!StrandInit
<1>2. armed \in BOOLEAN /\ running \in BOOLEAN /\ consumer \in BOOLEAN
  BY <1>1 DEF C!Init
<1>3. C!TypeOK
  <2>1. <<>> \in Seq(C!Shown) /\ Len(<<>>) = 0 /\ <<>> \in Seq({C!Tick, C!Aborted, C!Stop})
    OBVIOUS
  <2>2. QED
    BY <1>1, <1>2, <2>1, ConsumerConstants DEF C!Init, C!TypeOK
<1>4. C!ErrorsThrottled /\ C!StartedUnlessStopped /\ C!LastShown /\ C!Starting
  BY DEF C!Init, C!ErrorsThrottled, C!StartedUnlessStopped, C!LastShown, C!Starting
<1>5. QED
  BY <1>3, <1>4 DEF C!IInv

\* The error that is told, or held back, is about the last one told.
LEMMA EmitStep ==
  ASSUME C!IInv, NEW m \in C!Texts, C!Emit(m)
  PROVE  /\ lastMsg' \in C!Texts \cup {C!NoText} /\ lastEmit' \in 0 .. now
         /\ shown' \in Seq(C!Shown) /\ Len(shown') <= 2
         /\ hushed' \in Seq(C!Shown) /\ Len(hushed') \in {0, 2}
         /\ C!ErrorsThrottled' /\ C!LastShown'
<1>. DEFINE it == [msg |-> m, at |-> now]
            kept == IF Len(shown) = 2 THEN Tail(shown) ELSE shown
<1>1. /\ lastMsg \in C!Texts \cup {C!NoText} /\ lastEmit \in 0 .. now /\ now \in Nat \ {0}
      /\ shown \in Seq(C!Shown) /\ Len(shown) <= 2
      /\ hushed \in Seq(C!Shown) /\ Len(hushed) \in {0, 2}
      /\ C!ErrorsThrottled /\ C!LastShown
  BY DEF C!IInv, C!TypeOK
<1>2. it \in C!Shown /\ it.msg = m /\ it.at = now
  BY <1>1 DEF C!Shown
<1>. HIDE DEF it
<1>3. \A s : C!Last(s) = s[Len(s)]
  BY DEF C!Last
<1>4. CASE C!ShouldEmit(m)
  <2>1. lastMsg' = m /\ lastEmit' = now /\ shown' = Append(kept, it) /\ hushed' = hushed
    BY <1>4 DEF C!Emit, it
  <2>2. /\ kept \in Seq(C!Shown) /\ Len(kept) \in {0, 1}
        /\ Len(kept) = 1 => kept[1] = shown[Len(shown)] /\ shown # <<>>
    <3>0. shown \in Seq(C!Shown) /\ Len(shown) <= 2
      BY <1>1
    <3>1. CASE Len(shown) = 2
      <4>1. Tail(shown) \in Seq(C!Shown) /\ Len(Tail(shown)) = 1 /\ Tail(shown)[1] = shown[2] /\ shown # <<>>
        BY <3>0, <3>1
      <4>2. QED
        BY <3>1, <4>1
    <3>2. CASE Len(shown) # 2
      <4>1. Len(shown) \in {0, 1} /\ (Len(shown) = 0 <=> shown = <<>>)
        BY <3>0, <3>2, Short, Zenon
      <4>2. kept = shown
        BY <3>2
      <4>3. QED
        BY <3>0, <4>1, <4>2, SMTT(30)
    <3>3. QED
      BY <3>1, <3>2
  <2>. HIDE DEF kept
  <2>3. /\ shown' \in Seq(C!Shown) /\ Len(shown') = Len(kept) + 1 /\ shown'[Len(kept) + 1] = it
        /\ Len(kept) = 1 => shown'[1] = kept[1]
    BY <1>2, <2>1, <2>2
  <2>4. C!LastShown'
    <3>1. shown' # <<>> /\ shown'[Len(shown')] = it
      BY <2>2, <2>3
    <3>2. C!Last(shown)' = it
      BY <3>1 DEF C!Last
    <3>3. QED
      BY <1>2, <2>1, <3>1, <3>2 DEF C!LastShown
  <2>5. ASSUME Len(shown') = 2, shown'[1].msg = shown'[2].msg PROVE shown'[2].at - shown'[1].at >= MinInterval
    <3>1. Len(kept) = 1 /\ shown'[2] = it /\ shown'[1] = shown[Len(shown)] /\ shown # <<>>
      BY <2>2, <2>3, <2>5
    <3>2. lastMsg = m /\ lastEmit = shown'[1].at
      BY <1>1, <1>2, <1>3, <2>5, <3>1 DEF C!LastShown
    <3>3. shown[Len(shown)] \in C!Shown
      BY <1>1, <3>1
    <3>4. lastEmit # 0
      BY <3>1, <3>2, <3>3 DEF C!Shown
    <3>5. QED
      BY <1>2, <1>4, <3>1, <3>2, <3>4 DEF C!ShouldEmit
  <2>6. C!ErrorsThrottled'
    BY <1>1, <2>1, <2>5 DEF C!ErrorsThrottled
  <2>7. QED
    BY <1>1, <2>1, <2>2, <2>3, <2>4, <2>6
<1>5. CASE ~C!ShouldEmit(m)
  <2>1. lastMsg' = m /\ lastEmit' = lastEmit /\ shown' = shown /\ hushed' = <<it, shown[Len(shown)]>>
    BY <1>3, <1>5 DEF C!Emit, it
  <2>2. m = lastMsg /\ lastEmit # 0 /\ now - lastEmit < MinInterval
    BY <1>1, <1>5, ConsumerConstants DEF C!ShouldEmit
  <2>3. shown # <<>> /\ lastMsg = shown[Len(shown)].msg /\ lastEmit = shown[Len(shown)].at
    BY <1>1, <1>3, <2>2 DEF C!LastShown
  <2>4. shown[Len(shown)] \in C!Shown
    BY <1>1, <2>3
  <2>5. hushed' \in Seq(C!Shown) /\ Len(hushed') = 2 /\ hushed'[1] = it /\ hushed'[2] = shown[Len(shown)]
    BY <1>2, <2>1, <2>4
  <2>6. C!LastShown'
    BY <1>3, <2>1, <2>2, <2>3 DEF C!LastShown
  <2>7. C!ErrorsThrottled'
    BY <1>1, <1>2, <2>1, <2>2, <2>3, <2>5 DEF C!ErrorsThrottled
  <2>8. QED
    BY <1>1, <2>1, <2>5, <2>6, <2>7
<1>6. QED
  BY <1>4, <1>5

\* No step disturbs what is known of the errors.
LEMMA ErrorsStep ==
  ASSUME C!IInv, C!Next
  PROVE  /\ lastMsg' \in C!Texts \cup {C!NoText} /\ now' \in Nat \ {0} /\ lastEmit' \in 0 .. now'
         /\ shown' \in Seq(C!Shown) /\ Len(shown') <= 2
         /\ hushed' \in Seq(C!Shown) /\ Len(hushed') \in {0, 2}
         /\ C!ErrorsThrottled' /\ C!LastShown'
<1>1. /\ lastMsg \in C!Texts \cup {C!NoText} /\ now \in Nat \ {0} /\ lastEmit \in 0 .. now
      /\ shown \in Seq(C!Shown) /\ Len(shown) <= 2
      /\ hushed \in Seq(C!Shown) /\ Len(hushed) \in {0, 2}
      /\ C!ErrorsThrottled /\ C!LastShown
  BY DEF C!IInv, C!TypeOK
<1>2. Errors \subseteq C!Texts /\ NotInitialised \in C!Texts
  BY DEF C!Texts
<1>3. CASE UNCHANGED C!errVars /\ now' \in {now, now + 1}
  <2>1. UNCHANGED <<lastMsg, lastEmit, shown, hushed>> /\ now' \in Nat \ {0} /\ lastEmit' \in 0 .. now'
    BY <1>1, <1>3 DEF C!errVars
  <2>2. C!ErrorsThrottled' /\ C!LastShown'
    BY <1>1, <2>1 DEF C!ErrorsThrottled, C!LastShown
  <2>3. QED
    BY <1>1, <2>1, <2>2
<1>4. ASSUME NEW m \in C!Texts, C!Emit(m), now' = now PROVE
         /\ lastMsg' \in C!Texts \cup {C!NoText} /\ now' \in Nat \ {0} /\ lastEmit' \in 0 .. now'
         /\ shown' \in Seq(C!Shown) /\ Len(shown') <= 2
         /\ hushed' \in Seq(C!Shown) /\ Len(hushed') \in {0, 2}
         /\ C!ErrorsThrottled' /\ C!LastShown'
  BY <1>1, <1>4, EmitStep
<1>5. CASE C!MayReport /\ now' = now
  BY <1>2, <1>3, <1>4, <1>5 DEF C!MayReport
<1>6. CASE C!StopClose \/ C!Consume \/ C!PollEnd
  BY <1>3, <1>5, <1>6 DEF C!StopClose, C!Consume, C!PollEnd
<1>7. CASE C!TickDeaf
  BY <1>2, <1>4, <1>7 DEF C!TickDeaf
<1>8. CASE C!StartInit
  <2>1. lastMsg' = C!NoText /\ lastEmit' = 0 /\ shown' = <<>> /\ hushed' = <<>> /\ now' = now
    BY <1>8 DEF C!StartInit
  <2>2. C!ErrorsThrottled' /\ C!LastShown'
    BY <2>1 DEF C!ErrorsThrottled, C!LastShown
  <2>3. QED
    BY <1>1, <2>1, <2>2
<1>9. CASE \/ C!CallStop \/ C!StartCheck \/ C!StartFails \/ C!StartRun \/ C!StartSchedule \/ C!StopNothing
           \/ C!StopBegin \/ C!TickStale \/ C!TickBegin \/ C!SkipAborted \/ C!TimeUp \/ C!Clock
  BY <1>3, <1>9 DEF C!CallStop, C!StartCheck, C!StartFails, C!StartRun, C!StartSchedule, C!StopNothing,
     C!StopBegin, C!TickStale, C!TickBegin, C!SkipAborted, C!TimeUp, C!Clock
<1>10. QED
  BY <1>6, <1>7, <1>8, <1>9 DEF C!Next, C!StartGoesOn, C!StrandRuns

\* What the strand's queue holds after a step; a stop is queued by nothing but
\* stop(), a tick is taken by nothing but the timer's handler.
LEMMA ConsumerQueueStep ==
  ASSUME C!TypeOK, C!Next
  PROVE  /\ queue' \in Seq(Plain)
         /\ C!Queued(C!Stop)' => C!Queued(C!Stop) \/ C!CallStop
         /\ C!Queued(C!Tick) => C!Queued(C!Tick)' \/ C!TickStale \/ C!TickBegin \/ C!TickDeaf
         /\ C!TimeUp => C!Queued(C!Tick)'
<1>. DEFINE Same == /\ queue' \in Seq(Plain)
                    /\ C!Queued(C!Stop)' => C!Queued(C!Stop)
                    /\ C!Queued(C!Tick) => C!Queued(C!Tick)'
<1>1. /\ queue \in Seq(Plain) /\ C!Tick \in Plain /\ C!Aborted \in Plain /\ C!Stop \in Plain
      /\ C!Tick # C!Aborted /\ C!Tick # C!Stop /\ C!Aborted # C!Stop
  BY HandlersDiffer DEF C!TypeOK, Plain
<1>2. ASSUME queue' = queue PROVE Same
  BY <1>1, <1>2, Kept, KeptNext
<1>3. ASSUME NEW q \in Seq(Plain), NEW h \in Plain, queue' = Append(q, h)
      PROVE queue' \in Seq(Plain) /\ \A x : C!Queued(x)' <=> x \in ToSet(q) \/ x = h
  BY <1>3, Appended, KeptNext
<1>4. ASSUME queue # <<>>
      PROVE Tail(queue) \in Seq(Plain) /\ \A x : C!Queued(x) <=> x \in ToSet(Tail(queue)) \/ x = Head(queue)
  BY <1>1, <1>4, Dropped, Kept
<1>5. ASSUME queue' = C!AbortWait(queue) PROVE Same
  <2>1. CASE queue' = queue
    BY <1>2, <2>1
  <2>2. CASE queue' = Append(queue, C!Aborted)
    BY <1>1, <1>3, <2>2, Kept
  <2>3. QED
    BY <1>5, <2>1, <2>2 DEF C!AbortWait
<1>6. ASSUME queue # <<>>, Head(queue) # C!Tick, queue' = C!AbortWait(Tail(queue)) PROVE Same
  <2>1. CASE queue' = Tail(queue)
    BY <1>4, <1>6, <2>1, KeptNext
  <2>2. CASE queue' = Append(Tail(queue), C!Aborted)
    BY <1>1, <1>3, <1>4, <1>6, <2>2
  <2>3. QED
    BY <1>6, <2>1, <2>2 DEF C!AbortWait
<1>7. ASSUME queue # <<>>, queue' = Tail(queue)
      PROVE /\ queue' \in Seq(Plain)
            /\ C!Queued(C!Stop)' => C!Queued(C!Stop)
            /\ Head(queue) # C!Tick => Same
  BY <1>4, <1>7, KeptNext
<1>8. CASE C!CallStop
  BY <1>1, <1>3, <1>8, Kept DEF C!CallStop, C!Post, C!TimeUp, C!Expire
<1>9. CASE C!TimeUp
  BY <1>1, <1>3, <1>9, Kept DEF C!TimeUp, C!Expire
<1>10. CASE ~C!TimeUp
  <2>1. CASE C!StartSchedule \/ C!PollEnd
    BY <1>2, <1>5, <1>10, <2>1 DEF C!StartSchedule, C!PollEnd, C!RearmWith
  <2>2. CASE C!StopBegin
    BY <1>1, <1>6, <1>10, <2>2 DEF C!StopBegin, C!Runs, C!CancelWith
  <2>3. CASE C!StopNothing \/ C!SkipAborted
    BY <1>1, <1>7, <1>10, <2>3 DEF C!StopNothing, C!Runs, C!SkipAborted, C!RunAborted
  <2>4. CASE C!TickStale \/ C!TickBegin
    <3>1. queue # <<>> /\ queue' = Tail(queue)
      BY <2>4 DEF C!TickStale, C!TickBegin, C!Runs
    <3>2. queue' \in Seq(Plain) /\ (C!Queued(C!Stop)' => C!Queued(C!Stop))
      BY <1>7, <3>1
    <3>3. QED
      BY <1>10, <2>4, <3>2, Zenon
  <2>5. CASE C!TickDeaf
    <3>1. queue # <<>> /\ queue' = C!AbortWait(Tail(queue))
      BY <2>5 DEF C!TickDeaf, C!Runs, C!RearmWith
    <3>2. CASE queue' = Tail(queue)
      <4>1. queue' \in Seq(Plain) /\ (C!Queued(C!Stop)' => C!Queued(C!Stop))
        BY <1>7, <3>1, <3>2
      <4>2. QED
        BY <1>10, <2>5, <4>1, Zenon
    <3>3. CASE queue' = Append(Tail(queue), C!Aborted)
      BY <1>1, <1>3, <1>4, <1>10, <2>5, <3>1, <3>3
    <3>4. QED
      BY <3>1, <3>2, <3>3 DEF C!AbortWait
  <2>6. CASE \/ C!StartCheck \/ C!StartInit \/ C!StartFails \/ C!StartRun \/ C!StopClose \/ C!Consume \/ C!Clock
    BY <1>2, <1>10, <2>6 DEF C!StartCheck, C!StartInit, C!StartFails, C!StartRun, C!StopClose, C!Consume, C!Clock
  <2>7. QED
    BY <1>8, <1>10, <2>1, <2>2, <2>3, <2>4, <2>5, <2>6 DEF C!Next, C!StartGoesOn, C!StrandRuns
<1>11. QED
  BY <1>9, <1>10

LEMMA ConsumerTypeStep ==
  ASSUME C!IInv, C!Next
  PROVE  C!TypeOK'
<1>. DEFINE Rest ==
       /\ handler \in {"idle", "closing", "polling"} /\ polled \in 0 .. MaxPerPoll
       /\ starter \in {"idle", "init", "inited", "scheduling"}
       /\ starts \in 0 .. MaxStarts /\ stops \in 0 .. MaxStops
       /\ wish \in {"run", "stop", "none"}
<1>1. Rest /\ armed \in BOOLEAN /\ running \in BOOLEAN /\ consumer \in BOOLEAN /\ C!TypeOK
  BY DEF C!IInv, C!TypeOK
<1>2. Rest'
  <2>1. ASSUME C!CallStop \/ C!StartCheck PROVE Rest'
    BY <1>1, <2>1, ConsumerConstants DEF C!CallStop, C!StartCheck
  <2>2. ASSUME C!StartInit \/ C!StartFails \/ C!StartRun \/ C!StartSchedule PROVE Rest'
    BY <1>1, <2>2, ConsumerConstants DEF C!StartInit, C!StartFails, C!StartRun, C!StartSchedule
  <2>3. ASSUME C!StopNothing \/ C!StopBegin \/ C!StopClose \/ C!TickStale \/ C!SkipAborted \/ C!TimeUp \/ C!Clock PROVE Rest'
    BY <1>1, <2>3, ConsumerConstants DEF C!StopNothing, C!StopBegin, C!StopClose, C!TickStale, C!SkipAborted, C!TimeUp, C!Clock
  <2>4. ASSUME C!TickBegin \/ C!TickDeaf \/ C!Consume \/ C!PollEnd PROVE Rest'
    BY <1>1, <2>4, ConsumerConstants DEF C!TickBegin, C!TickDeaf, C!Consume, C!PollEnd
  <2>5. QED
    BY <2>1, <2>2, <2>3, <2>4 DEF C!Next, C!StartGoesOn, C!StrandRuns
<1>3. armed' \in BOOLEAN
  BY <1>1, Zenon DEF C!Next, C!StartGoesOn, C!StrandRuns, C!Post, C!CancelWith, C!RearmWith, C!Expire, C!RunAborted, C!CallStop, C!StartCheck, C!StartInit, C!StartFails, C!StartRun, C!StartSchedule, C!StopNothing, C!StopBegin, C!StopClose,
     C!TickStale, C!TickBegin, C!TickDeaf, C!Consume, C!PollEnd, C!SkipAborted, C!TimeUp, C!Clock
<1>4. running' \in BOOLEAN
  BY <1>1, Zenon DEF C!Next, C!StartGoesOn, C!StrandRuns, C!CallStop, C!StartCheck, C!StartInit, C!StartFails, C!StartRun, C!StartSchedule, C!StopNothing, C!StopBegin, C!StopClose,
     C!TickStale, C!TickBegin, C!TickDeaf, C!Consume, C!PollEnd, C!SkipAborted, C!TimeUp, C!Clock
<1>5. consumer' \in BOOLEAN
  BY <1>1, Zenon DEF C!Next, C!StartGoesOn, C!StrandRuns, C!CallStop, C!StartCheck, C!StartInit, C!StartFails, C!StartRun, C!StartSchedule, C!StopNothing, C!StopBegin, C!StopClose,
     C!TickStale, C!TickBegin, C!TickDeaf, C!Consume, C!PollEnd, C!SkipAborted, C!TimeUp, C!Clock
<1>6. queue' \in Seq({C!Tick, C!Aborted, C!Stop})
  BY <1>1, ConsumerQueueStep, HandlersDiffer DEF Plain
<1>7. QED
  BY <1>2, <1>3, <1>4, <1>5, <1>6, ErrorsStep DEF C!TypeOK

\* start() gets what it needs, and a poll stays on its way.
LEMMA ConsumerStartedStep ==
  ASSUME C!IInv, C!Next
  PROVE  C!Starting' /\ C!StartedUnlessStopped'
<1>. DEFINE Got == wish = "run" =>
                     /\ handler # "closing"
                     /\ starter # "init" => consumer
                     /\ starter \in {"scheduling", "idle"} => running
            Undisturbed == wish = "run" => ~C!Queued(C!Stop)
            Coming == wish = "run" /\ starter = "idle" => armed \/ C!Queued(C!Tick) \/ handler = "polling"
<1>1. Got /\ Undisturbed /\ Coming /\ C!TypeOK
  BY DEF C!IInv, C!Starting, C!StartedUnlessStopped
<1>2. ASSUME C!Runs(C!Stop) PROVE wish # "run"
  BY <1>1, <1>2, Dropped, Kept DEF C!Runs, C!TypeOK
<1>3. Got'
  <2>1. ASSUME C!CallStop \/ C!StartFails PROVE Got'
    BY <2>1 DEF C!CallStop, C!StartFails
  <2>2. ASSUME C!StartCheck PROVE Got'
    BY <1>1, <2>2 DEF C!StartCheck
  <2>3. ASSUME C!StartInit PROVE Got'
    BY <1>1, <2>3 DEF C!StartInit
  <2>4. ASSUME C!StartRun PROVE Got'
    BY <1>1, <2>4 DEF C!StartRun
  <2>5. ASSUME C!StartSchedule PROVE Got'
    BY <1>1, <2>5 DEF C!StartSchedule
  <2>6. ASSUME C!StopNothing \/ C!StopBegin \/ C!StopClose PROVE Got'
    BY <1>1, <1>2, <2>6 DEF C!StopNothing, C!StopBegin, C!StopClose
  <2>7. ASSUME \/ C!TickStale \/ C!TickBegin \/ C!TickDeaf \/ C!Consume \/ C!PollEnd \/ C!SkipAborted \/ C!TimeUp
               \/ C!Clock
        PROVE  Got'
    <3>1. UNCHANGED <<wish, starter, consumer, running>> /\ (handler' = "closing" => handler = "closing")
      BY <2>7 DEF C!TickStale, C!TickBegin, C!TickDeaf, C!Consume, C!PollEnd, C!SkipAborted, C!TimeUp, C!Clock
    <3>2. QED
      BY <1>1, <3>1
  <2>8. QED
    BY <2>1, <2>2, <2>3, <2>4, <2>5, <2>6, <2>7 DEF C!Next, C!StartGoesOn, C!StrandRuns
<1>4. Undisturbed'
  <2>1. ASSUME C!CallStop \/ C!StartFails PROVE Undisturbed'
    BY <2>1 DEF C!CallStop, C!StartFails
  <2>2. ASSUME C!StartCheck PROVE Undisturbed'
    BY <1>1, <2>2, Kept, KeptNext DEF C!StartCheck
  <2>3. ASSUME ~C!CallStop, ~C!StartFails, ~C!StartCheck PROVE Undisturbed'
    <3>1. wish' = wish
      BY <2>3 DEF C!Next, C!StartGoesOn, C!StrandRuns, C!StartInit, C!StartRun, C!StartSchedule, C!StopNothing, C!StopBegin, C!StopClose,
         C!TickStale, C!TickBegin, C!TickDeaf, C!Consume, C!PollEnd, C!SkipAborted, C!TimeUp, C!Clock
    <3>2. QED
      BY <1>1, <2>3, <3>1, ConsumerQueueStep
  <2>4. QED
    BY <2>1, <2>2, <2>3
<1>5. Coming'
  <2>1. ASSUME C!CallStop \/ C!StartFails PROVE Coming'
    BY <2>1 DEF C!CallStop, C!StartFails
  <2>2. ASSUME C!StartCheck PROVE Coming'
    BY <1>1, <2>2, Kept, KeptNext DEF C!StartCheck
  <2>3. ASSUME C!StartInit \/ C!StartRun PROVE Coming'
    BY <2>3 DEF C!StartInit, C!StartRun
  <2>4. ASSUME C!StartSchedule \/ C!PollEnd \/ C!TickDeaf PROVE Coming'
    BY <1>1, <2>4 DEF C!StartSchedule, C!PollEnd, C!TickDeaf, C!RearmWith
  <2>5. ASSUME C!StopNothing \/ C!StopBegin PROVE Coming'
    BY <1>2, <2>5 DEF C!StopNothing, C!StopBegin
  <2>6. ASSUME C!StopClose PROVE Coming'
    BY <1>1, <2>6 DEF C!StopClose
  <2>7. ASSUME C!TickStale PROVE Coming'
    BY <1>1, <2>7 DEF C!TickStale
  <2>8. ASSUME C!TickBegin PROVE Coming'
    BY <2>8 DEF C!TickBegin
  <2>9. ASSUME C!TimeUp PROVE Coming'
    BY <2>9, ConsumerQueueStep, <1>1
  <2>10. ASSUME C!Consume \/ C!Clock \/ C!SkipAborted PROVE Coming'
    <3>1. UNCHANGED <<wish, starter, armed, handler>> /\ ~C!TickBegin
      BY <2>10, HandlersDiffer DEF C!Consume, C!Clock, C!SkipAborted, C!RunAborted, C!TickBegin, C!Runs
    <3>2. C!Queued(C!Tick) => C!Queued(C!Tick)'
      <4>1. CASE C!Consume \/ C!Clock
        BY <4>1, Kept, KeptNext DEF C!Consume, C!Clock
      <4>2. CASE C!SkipAborted
        BY <1>1, <4>2, ConsumerQueueStep, HandlersDiffer
        DEF C!SkipAborted, C!RunAborted, C!TickStale, C!TickBegin, C!TickDeaf, C!Runs
      <4>3. QED
        BY <2>10, <4>1, <4>2
    <3>3. QED
      BY <1>1, <3>1, <3>2
  <2>11. QED
    BY <2>1, <2>2, <2>3, <2>4, <2>5, <2>6, <2>7, <2>8, <2>9, <2>10 DEF C!Next, C!StartGoesOn, C!StrandRuns
<1>6. QED
  BY <1>3, <1>4, <1>5 DEF C!Starting, C!StartedUnlessStopped

LEMMA ConsumerStep ==
  ASSUME C!IInv, C!Next
  PROVE  C!IInv'
BY ConsumerTypeStep, ErrorsStep, ConsumerStartedStep DEF C!IInv

-----------------------------------------------------------------------------
(* Both                                                                    *)

\* A step in which nothing moves.
LEMMA Idle ==
  ASSUME UNCHANGED vars
  PROVE  (P!IInv => P!IInv') /\ (C!IInv => C!IInv')
<1>1. /\ UNCHANGED <<queue, armed, running, handler, starter, starts, stops, rk, pending, pendingBytes, drained,
                     owned, inLib, done, sent, reports, lost, produced, waited, quiet>>
      /\ UNCHANGED <<consumer, lastMsg, lastEmit, polled, now, shown, hushed, wish>>
  BY DEF vars, producerVars, consumerVars
<1>2. ASSUME P!IInv PROVE P!IInv'
  <2>1. P!TypeOK'
    BY <1>1, <1>2 DEF P!IInv, P!TypeOK
  <2>2. P!EachTokenInOnePlace'
    BY <1>1, <1>2, Kept, KeptNext DEF P!IInv, P!EachTokenInOnePlace, P!InOnePlace
  <2>3. P!OvertakesOnlyWaiting'
    BY <1>1, <1>2 DEF P!IInv, P!OvertakesOnlyWaiting
  <2>4. P!Started'
    BY <1>1, <1>2, Kept, KeptNext DEF P!IInv, P!Started
  <2>5. P!LeavesInTurn'
    BY <1>1, <1>2, Kept, KeptNext DEF P!IInv, P!LeavesInTurn
  <2>6. QED
    BY <2>1, <2>2, <2>3, <2>4, <2>5 DEF P!IInv
<1>3. ASSUME C!IInv PROVE C!IInv'
  <2>1. C!TypeOK'
    BY <1>1, <1>3 DEF C!IInv, C!TypeOK
  <2>2. C!ErrorsThrottled' /\ C!LastShown'
    BY <1>1, <1>3 DEF C!IInv, C!ErrorsThrottled, C!LastShown
  <2>3. C!StartedUnlessStopped' /\ C!Starting'
    BY <1>1, <1>3, Kept, KeptNext DEF C!IInv, C!StartedUnlessStopped, C!Starting
  <2>4. QED
    BY <2>1, <2>2, <2>3 DEF C!IInv
<1>4. QED
  BY <1>2, <1>3

\* IInv holds in every state, whichever class a process has: every message is in
\* one place and in turn, ticks are on their way, and errors are throttled.
THEOREM InductiveInvariant == Spec => []IInv
<1>1. Init => IInv
  BY ProducerInit, ConsumerInit DEF Init, IInv
<1>2. IInv /\ [Next]_vars => IInv'
  <2>. SUFFICES ASSUME IInv, [Next]_vars PROVE IInv'
    OBVIOUS
  <2>1. CASE UNCHANGED vars
    <3>1. class' = class
      BY <2>1 DEF vars
    <3>2. QED
      BY <2>1, <3>1, Idle DEF IInv
  <2>2. CASE class = "producer" /\ P!Next /\ UNCHANGED <<class, consumerVars>>
    <3>1. P!IInv'
      BY <2>2, ProducerStep DEF IInv
    <3>2. QED
      BY <2>2, <3>1 DEF IInv
  <2>3. CASE class = "consumer" /\ C!Next /\ UNCHANGED <<class, producerVars>>
    <3>1. C!IInv'
      BY <2>3, ConsumerStep DEF IInv
    <3>2. QED
      BY <2>3, <3>1 DEF IInv
  <2>4. QED
    BY <2>1, <2>2, <2>3 DEF Next, Either
<1>3. QED
  BY <1>1, <1>2, PTL DEF Spec

\* No message given to send() is forgotten, kept twice or reported twice, and
\* the local queue stays within its limits, its size exact.
THEOREM EachTokenInOnePlaceHolds == Spec => []EachTokenInOnePlace
<1>1. IInv => EachTokenInOnePlace
  BY DEF IInv, EachTokenInOnePlace, P!IInv, C!IInv
<1>2. QED
  BY <1>1, InductiveInvariant, PTL

\* The library takes the messages in the order of sending, but that one may
\* overtake those that wait in the local queue.
THEOREM OvertakesOnlyWaitingHolds == Spec => []OvertakesOnlyWaiting
<1>1. IInv => OvertakesOnlyWaiting
  BY DEF IInv, OvertakesOnlyWaiting, P!IInv
<1>2. QED
  BY <1>1, InductiveInvariant, PTL

\* A start() that no stop() disturbs leaves a class that works, with a tick on
\* its way; and a producer that is destroyed has given back the library's.
THEOREM StartedUnlessStoppedHolds == Spec => []StartedUnlessStopped
<1>1. IInv => StartedUnlessStopped
  BY ProducerStarted DEF IInv, StartedUnlessStopped, P!IInv, C!IInv
<1>2. QED
  BY <1>1, InductiveInvariant, PTL

\* The sink is not told the same error twice in a row within the interval, and one
\* that is held back is the one it was told last.
THEOREM ErrorsThrottledHolds == Spec => []ErrorsThrottled
<1>1. IInv => ErrorsThrottled
  BY DEF IInv, ErrorsThrottled, C!IInv
<1>2. QED
  BY <1>1, InductiveInvariant, PTL
=============================================================================
