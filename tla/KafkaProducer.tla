--------------------------- MODULE KafkaProducer ---------------------------
(***************************************************************************)
(* KafkaProducer (dot_examples/c/cpp/kkacons/example.cpp): send() and      *)
(* stop() post to a strand, start() does its work on the caller's thread,  *)
(* beside whatever the strand is doing; a timer drives on_tick, which      *)
(* empties the local queue into librdkafka and serves its reports.         *)
(*                                                                         *)
(* A message is its token, numbered in the order of sending, with a size.  *)
(* The object lives while its owner, the timer's wait or a handler of the  *)
(* timer holds it; send and stop handlers hold it weakly.  librdkafka is   *)
(* external: it takes a message, refuses it with an error, or is full.     *)
(***************************************************************************)
EXTENDS Integers, FiniteSets, Strand

CONSTANTS
  Sends,            \* bound: the tokens are 1 .. Sends
  Size,             \* the payload's size, by token
  MaxPendingMsgs, MaxPendingBytes,   \* Config
  Burst,            \* what a tick takes from the local queue at most (1024)
  LibraryQueue,     \* what librdkafka takes before it is full
  MaxStarts, MaxStops  \* bounds: calls of start() and of stop()

Tokens == 1 .. Sends

KafkaProducerAssumption ==
  /\ Sends \in Nat /\ Size \in [Tokens -> Nat]
  /\ MaxPendingMsgs \in Nat /\ MaxPendingBytes \in Nat
  /\ Burst \in Nat \ {0} /\ LibraryQueue \in Nat \ {0}
  /\ MaxStarts \in Nat /\ MaxStops \in Nat

VARIABLES
  running, rk,            \* running_; rk_ is not null
  pending, pendingBytes,  \* pending_, as tokens; pending_bytes_
  handler, drained,       \* where on_tick is; its local variable
  starter,                \* where the thread in start() is
  owned,                  \* the owner still holds the object
  inLib, done,            \* what librdkafka holds; what of it is to be reported
  sent, starts, stops,    \* how many calls were made
  reports,                \* history: how often the sink was told of a token
  lost,                   \* history: tokens gone without a report
  produced, waited,       \* history: the order librdkafka took them in; who was in pending_
  quiet                   \* history: start() began with no stop pending, and none came since

libVars == <<inLib, done, produced>>
callVars == <<starter, owned, sent, starts, stops, quiet>>
vars == <<queue, armed, running, rk, pending, pendingBytes, handler, drained,
          libVars, callVars, reports, lost, waited>>

\* The handler that send() posts.
Message(t) == <<"send", t>>

Init ==
  /\ StrandInit
  /\ running = FALSE /\ rk = FALSE
  /\ pending = <<>> /\ pendingBytes = 0
  /\ handler = "idle" /\ drained = 0
  /\ starter = "idle" /\ owned = TRUE
  /\ inLib = {} /\ done = {} /\ produced = <<>>
  /\ sent = 0 /\ starts = 0 /\ stops = 0
  /\ reports = [t \in Tokens |-> 0] /\ lost = {} /\ waited = {}
  /\ quiet = FALSE

\* m_sink is told about the tokens of S.
Report(S) == [t \in Tokens |-> IF t \in S THEN reports[t] + 1 ELSE reports[t]]

Alive == owned \/ armed \/ handler # "idle" \/ Queued(Tick) \/ Queued(Aborted)

-----------------------------------------------------------------------------
(* The callers' threads                                                    *)

Send ==
  /\ owned /\ sent < Sends
  /\ sent' = sent + 1
  /\ Post(Message(sent + 1))
  /\ UNCHANGED <<running, rk, pending, pendingBytes, handler, drained, libVars,
                 starter, owned, starts, stops, quiet, reports, lost, waited>>

CallStop ==
  /\ owned /\ stops < MaxStops
  /\ stops' = stops + 1
  /\ Post(Stop)
  /\ quiet' = FALSE
  /\ UNCHANGED <<running, rk, pending, pendingBytes, handler, drained, libVars,
                 starter, owned, sent, starts, reports, lost, waited>>

\* init_producer() fails, on the configuration or in rd_kafka_new.
StartFails ==
  /\ owned /\ starter = "idle" /\ starts < MaxStarts /\ ~rk
  /\ starts' = starts + 1
  /\ quiet' = FALSE
  /\ UNCHANGED <<queue, armed, running, rk, pending, pendingBytes, handler, drained,
                 libVars, starter, owned, sent, stops, reports, lost, waited>>

\* init_producer() makes a producer, or finds one.
StartInit ==
  /\ owned /\ starter = "idle" /\ starts < MaxStarts
  /\ starts' = starts + 1
  /\ rk' = TRUE
  /\ starter' = "inited"
  /\ quiet' = ~Queued(Stop)
  /\ UNCHANGED <<queue, armed, running, pending, pendingBytes, handler, drained,
                 libVars, owned, sent, stops, reports, lost, waited>>

StartRun ==
  /\ starter = "inited"
  /\ running' = TRUE
  /\ starter' = "scheduling"
  /\ UNCHANGED <<queue, armed, rk, pending, pendingBytes, handler, drained,
                 libVars, owned, sent, starts, stops, quiet, reports, lost, waited>>

\* schedule_tick(), called by start().  Its test of running_ races with
\* do_stop(), and right after the assignment the compiler may leave it out.
StartSchedule ==
  /\ starter = "scheduling"
  /\ starter' = "idle"
  /\ \/ RearmWith(queue)
     \/ ~running /\ UNCHANGED <<queue, armed>>
  /\ UNCHANGED <<running, rk, pending, pendingBytes, handler, drained,
                 libVars, owned, sent, starts, stops, quiet, reports, lost, waited>>

\* The owner lets go.  Should that destroy the object, the stop() of the
\* destructor finds that nothing can hold it any more, and does nothing.
Release ==
  /\ owned /\ starter = "idle"
  /\ owned' = FALSE
  /\ UNCHANGED <<queue, armed, running, rk, pending, pendingBytes, handler, drained,
                 libVars, starter, sent, starts, stops, quiet, reports, lost, waited>>

-----------------------------------------------------------------------------
(* librdkafka                                                              *)

\* rd_kafka_producev takes the message.
Takes(t) ==
  /\ Cardinality(inLib) < LibraryQueue
  /\ inLib' = inLib \cup {t}
  /\ produced' = Append(produced, t)

Full == Cardinality(inLib) = LibraryQueue

\* A message is delivered, or given up.
Settle(t) ==
  /\ t \in inLib \ done
  /\ done' = done \cup {t}
  /\ UNCHANGED <<queue, armed, running, rk, pending, pendingBytes, handler, drained,
                 inLib, produced, callVars, reports, lost, waited>>

\* rd_kafka_poll calls dr_msg_cb for what is to be reported.
Poll ==
  /\ reports' = Report(done)
  /\ inLib' = inLib \ done
  /\ done' = {}

-----------------------------------------------------------------------------
(* The strand                                                              *)

Runs(h) == handler = "idle" /\ queue # <<>> /\ Head(queue) = h

\* The object is gone: the handler cannot hold it.
DropHandler ==
  /\ handler = "idle" /\ queue # <<>> /\ ~Alive
  /\ queue' = Tail(queue)
  /\ lost' = lost \cup {t \in Tokens : Head(queue) = Message(t)}
  /\ UNCHANGED <<armed, running, rk, pending, pendingBytes, handler, drained,
                 libVars, callVars, reports, waited>>

\* rd_kafka_destroy() forgets what the library has not reported.
DoStop ==
  /\ Runs(Stop) /\ Alive
  /\ IF running \/ rk
       THEN /\ running' = FALSE
            /\ CancelWith(Tail(queue))
            /\ reports' = Report(ToSet(pending))
            /\ pending' = <<>> /\ pendingBytes' = 0
            /\ rk' = FALSE
            /\ lost' = IF rk THEN lost \cup inLib ELSE lost
            /\ inLib' = {} /\ done' = {}
       ELSE /\ queue' = Tail(queue)
            /\ UNCHANGED <<armed, running, rk, pending, pendingBytes, inLib, done, reports, lost>>
  /\ UNCHANGED <<handler, drained, produced, callVars, waited>>

Usable == running /\ rk

\* send_on_strand() refuses the message: not running, refused by the
\* library, or no room in the local queue.
NoRoom(t) ==
  Len(pending) >= MaxPendingMsgs \/ pendingBytes + Size[t] > MaxPendingBytes

SendRefused(t) ==
  /\ Runs(Message(t)) /\ Alive
  /\ ~Usable \/ ~Full \/ NoRoom(t)
  /\ queue' = Tail(queue)
  /\ reports' = Report({t})
  /\ UNCHANGED <<armed, running, rk, pending, pendingBytes, handler, drained,
                 libVars, callVars, lost, waited>>

SendTaken(t) ==
  /\ Runs(Message(t)) /\ Alive /\ Usable
  /\ Takes(t)
  /\ queue' = Tail(queue)
  /\ UNCHANGED <<armed, running, rk, pending, pendingBytes, handler, drained,
                 done, callVars, reports, lost, waited>>

\* (Mutant of SendQueued: the message goes to the front.)
SendQueued_AtFront(t) ==
  /\ Runs(Message(t)) /\ Alive /\ Usable /\ Full /\ ~NoRoom(t)
  /\ queue' = Tail(queue)
  /\ pending' = <<t>> \o pending
  /\ pendingBytes' = pendingBytes + Size[t]
  /\ waited' = waited \cup {t}
  /\ UNCHANGED <<armed, running, rk, handler, drained, libVars, callVars, reports, lost>>

SendQueued(t) ==
  /\ Runs(Message(t)) /\ Alive /\ Usable /\ Full /\ ~NoRoom(t)
  /\ queue' = Tail(queue)
  /\ pending' = Append(pending, t)
  /\ pendingBytes' = pendingBytes + Size[t]
  /\ waited' = waited \cup {t}
  /\ UNCHANGED <<armed, running, rk, handler, drained, libVars, callVars, reports, lost>>

\* A wait has ended, but the producer was stopped.
TickStale ==
  /\ Runs(Tick) /\ ~running
  /\ queue' = Tail(queue)
  /\ UNCHANGED <<armed, running, rk, pending, pendingBytes, handler, drained,
                 libVars, callVars, reports, lost, waited>>

\* on_tick() begins: it polls first.
TickBegin ==
  /\ Runs(Tick) /\ running
  /\ queue' = Tail(queue)
  /\ handler' = "draining" /\ drained' = 0
  /\ IF rk THEN Poll ELSE UNCHANGED <<inLib, done, reports>>
  /\ UNCHANGED <<armed, running, rk, pending, pendingBytes, produced, callVars, lost, waited>>

\* (Mutant of PopFront: a message that is refused stays in the queue.)
PopFront_UnlessRefused ==
  IF inLib' = inLib THEN UNCHANGED <<pending, pendingBytes>>
  ELSE pendingBytes' = pendingBytes - Size[Head(pending)] /\ pending' = Tail(pending)

PopFront ==
  /\ pendingBytes' = pendingBytes - Size[Head(pending)]
  /\ pending' = Tail(pending)

\* One round of its loop: the library takes the message or refuses it for good.
TickDrain ==
  /\ handler = "draining" /\ pending # <<>> /\ drained < Burst
  /\ \/ Takes(Head(pending)) /\ UNCHANGED reports
     \/ ~Full /\ reports' = Report({Head(pending)}) /\ UNCHANGED <<inLib, produced>>
  /\ PopFront
  /\ drained' = drained + 1
  /\ UNCHANGED <<queue, armed, running, rk, handler, done, callVars, lost, waited>>

\* (Mutant of TickEnd: without a local queue no tick is wanted.)
TickEnd_WhilePending ==
  /\ handler = "draining" /\ (pending = <<>> \/ drained = Burst \/ Full)
  /\ handler' = "idle"
  /\ IF rk THEN Poll ELSE UNCHANGED <<inLib, done, reports>>
  /\ IF running /\ pending # <<>> THEN RearmWith(queue) ELSE UNCHANGED <<queue, armed>>
  /\ UNCHANGED <<running, rk, pending, pendingBytes, drained, produced, callVars, lost, waited>>

\* The loop ends; on_tick() polls again and schedules the next tick.
TickEnd ==
  /\ handler = "draining" /\ (pending = <<>> \/ drained = Burst \/ Full)
  /\ handler' = "idle"
  /\ IF rk THEN Poll ELSE UNCHANGED <<inLib, done, reports>>
  /\ IF running THEN RearmWith(queue) ELSE UNCHANGED <<queue, armed>>
  /\ UNCHANGED <<running, rk, pending, pendingBytes, drained, produced, callVars, lost, waited>>

SkipAborted ==
  /\ handler = "idle" /\ RunAborted
  /\ UNCHANGED <<running, rk, pending, pendingBytes, handler, drained,
                 libVars, callVars, reports, lost, waited>>

TimeUp ==
  /\ Expire
  /\ UNCHANGED <<running, rk, pending, pendingBytes, handler, drained,
                 libVars, callVars, reports, lost, waited>>

StrandRuns ==
  \/ DropHandler \/ DoStop \/ TickStale \/ TickBegin \/ TickDrain \/ TickEnd \/ SkipAborted
  \/ \E t \in Tokens : SendRefused(t) \/ SendTaken(t) \/ SendQueued(t)

SomeSettles == \E t \in Tokens : Settle(t)

StartGoesOn == StartRun \/ StartSchedule

Next ==
  \/ Send \/ CallStop \/ StartFails \/ StartInit \/ Release
  \/ StartGoesOn \/ StrandRuns \/ TimeUp
  \/ SomeSettles

\* A thread runs the io_service and one goes on in start(); time passes; the
\* library settles what it has taken.
Fairness ==
  /\ WF_vars(StrandRuns) /\ WF_vars(StartGoesOn) /\ WF_vars(TimeUp)
  /\ WF_vars(SomeSettles)

Spec == Init /\ [][Next]_vars /\ Fairness

-----------------------------------------------------------------------------
Handlers == {Tick, Aborted, Stop} \cup {Message(t) : t \in Tokens}

\* Type invariant.
TypeOK ==
  /\ queue \in Seq(Handlers) /\ armed \in BOOLEAN
  /\ running \in BOOLEAN /\ rk \in BOOLEAN /\ owned \in BOOLEAN /\ quiet \in BOOLEAN
  /\ pending \in Seq(Tokens) /\ pendingBytes \in 0 .. MaxPendingBytes
  /\ handler \in {"idle", "draining"} /\ drained \in 0 .. Burst
  /\ starter \in {"idle", "inited", "scheduling"}
  /\ inLib \subseteq Tokens /\ done \subseteq inLib /\ produced \in Seq(Tokens)
  /\ sent \in 0 .. Sends /\ starts \in 0 .. MaxStarts /\ stops \in 0 .. MaxStops
  /\ reports \in [Tokens -> Nat] /\ lost \subseteq Tokens /\ waited \subseteq Tokens

\* A message waits for the strand, waits in the local queue, is with the
\* library, has been reported to the sink, once, or is lost.
InOnePlace(t) ==
  /\ t <= sent <=> \/ Queued(Message(t)) \/ t \in ToSet(pending) \/ t \in inLib
                   \/ reports[t] = 1 \/ t \in lost
  /\ Queued(Message(t)) => t \notin ToSet(pending) \cup inLib \cup lost /\ reports[t] = 0
  /\ t \in ToSet(pending) => t \notin inLib \cup lost /\ reports[t] = 0
  /\ t \in inLib => t \notin lost /\ reports[t] = 0
  /\ reports[t] \in {0, 1} /\ (reports[t] = 1 => t \notin lost)

\* The messages in a queue of the strand, or in a list, are in the order of
\* sending, each once.
MessagesInTurn(q) ==
  \A t, u \in Tokens : \A i, j \in DOMAIN q :
    i < j /\ q[i] = Message(t) /\ q[j] = Message(u) => t < u
InTurn(s) == \A i, j \in DOMAIN s : i < j => s[i] < s[j]

\* The payloads of a list have n bytes in all: there are running totals.
HasBytes(s, n) ==
  \E total \in [0 .. Len(s) -> 0 .. n] :
    /\ total[0] = 0 /\ total[Len(s)] = n
    /\ \A i \in 1 .. Len(s) : total[i] = total[i - 1] + Size[s[i]]
    /\ \A i, j \in 0 .. Len(s) : i <= j => total[i] <= total[j]

\* Every message sent is in one place, and the two that keep several keep them
\* in order.  The local queue stays within its limits and its size is exact.
EachTokenInOnePlace ==
  /\ \A t \in Tokens : InOnePlace(t)
  /\ MessagesInTurn(queue) /\ InTurn(pending)
  /\ HasBytes(pending, pendingBytes)
  /\ Len(pending) <= MaxPendingMsgs /\ pendingBytes <= MaxPendingBytes
  /\ pending # <<>> => rk

\* The library takes messages in the order they were sent, but that one may
\* overtake those that wait in the local queue; these keep their order.
OvertakesOnlyWaiting ==
  \A i, j \in DOMAIN produced : i < j /\ produced[i] > produced[j] =>
    produced[j] \in waited /\ produced[i] \notin waited

\* After a start() that began when no stop() was pending, and until the next
\* stop(), the producer takes messages and a tick is on its way.
StartedUnlessStopped ==
  quiet /\ starter = "idle" =>
    Usable /\ (armed \/ Queued(Tick) \/ handler = "draining")

\* A producer that is destroyed has given the library's producer back; the
\* last to let go is never a handler of a producer that still runs.
NothingLeaked == ~Alive => ~rk /\ ~running

\* The inductive invariant behind these.  start() has the owner's thread until
\* it is done; a producer that runs has a tick coming, and one that has a
\* library producer runs, or is about to.
Started ==
  /\ starter # "idle" => owned
  /\ rk /\ starter # "inited" => running
  /\ running /\ starter = "idle" => armed \/ Queued(Tick) \/ handler = "draining"
  /\ quiet => ~Queued(Stop) /\ rk /\ (starter # "inited" => running)
  /\ inLib # {} => rk

\* What waits for the strand was sent after all that has left it, and what waits
\* in the local queue after all that has gone on from there.
LeavesInTurn ==
  /\ \A u \in ToSet(produced) \cup waited :
       u <= sent /\ \A t \in Tokens : Queued(Message(t)) => u < t
  /\ ToSet(pending) \subseteq waited
  /\ \A u \in ToSet(produced) \cap waited : \A t \in ToSet(pending) : u < t

IInv == TypeOK /\ EachTokenInOnePlace /\ OvertakesOnlyWaiting /\ Started /\ LeavesInTurn

\* Every message sent is answered in the end, unless stop() is called or the
\* owner lets go.
EverySendAnswered ==
  \A t \in Tokens : sent >= t ~> (reports[t] > 0 \/ stops > 0 \/ ~owned)
=============================================================================
