------------------------------- MODULE Kafka -------------------------------
(***************************************************************************)
(* The two Kafka classes of dot_examples/c/cpp/kkacons/example.cpp: a      *)
(* process has either the producer or the consumer, with a strand and a    *)
(* timer of its own.                                                       *)
(***************************************************************************)
EXTENDS Integers, Sequences

CONSTANTS
  Sends, Size, MaxPendingMsgs, MaxPendingBytes, Burst, LibraryQueue,  \* of KafkaProducer
  Errors, NotInitialised, MaxPerPoll, MinInterval, MaxTime,           \* of KafkaConsumer
  MaxStarts, MaxStops                                                 \* of either

\* Payloads of one byte, but the last one has two.
LastIsLong == [t \in 1 .. Sends |-> IF t = Sends THEN 2 ELSE 1]

VARIABLES
  class,                                               \* "producer" or "consumer"
  queue, armed, running, handler, starter, starts, stops,   \* of either
  rk, pending, pendingBytes, drained, owned, inLib, done, sent, reports, lost,
  produced, waited, quiet,                             \* of KafkaProducer
  consumer, lastMsg, lastEmit, polled, now, shown, hushed, wish  \* of KafkaConsumer

producerVars == <<rk, pending, pendingBytes, drained, owned, inLib, done, sent, reports,
                  lost, produced, waited, quiet>>
consumerVars == <<consumer, lastMsg, lastEmit, polled, now, shown, hushed, wish>>
vars == <<class, queue, armed, running, handler, starter, starts, stops,
          producerVars, consumerVars>>

P == INSTANCE KafkaProducer
C == INSTANCE KafkaConsumer

ASSUME KafkaAssumption == P!KafkaProducerAssumption /\ C!KafkaConsumerAssumption

Init ==
  \/ /\ class = "producer" /\ P!Init
     /\ consumer = FALSE /\ lastMsg = "" /\ lastEmit = 0 /\ polled = 0 /\ now = 1
     /\ shown = <<>> /\ hushed = <<>> /\ wish = "none"
  \/ /\ class = "consumer" /\ C!Init
     /\ rk = FALSE /\ pending = <<>> /\ pendingBytes = 0 /\ drained = 0 /\ owned = TRUE
     /\ inLib = {} /\ done = {} /\ sent = 0 /\ lost = {} /\ produced = <<>> /\ waited = {}
     /\ reports = [t \in 1 .. Sends |-> 0] /\ quiet = FALSE

Either(producerStep, consumerStep) ==
  \/ class = "producer" /\ producerStep /\ UNCHANGED <<class, consumerVars>>
  \/ class = "consumer" /\ consumerStep /\ UNCHANGED <<class, producerVars>>

Next == Either(P!Next, C!Next)

Fairness ==
  /\ WF_vars(Either(P!StrandRuns, C!StrandRuns))
  /\ WF_vars(Either(P!StartGoesOn, C!StartGoesOn))
  /\ WF_vars(Either(P!TimeUp, C!TimeUp))
  /\ WF_vars(class = "producer" /\ P!SomeSettles /\ UNCHANGED <<class, consumerVars>>)

Spec == Init /\ [][Next]_vars /\ Fairness

\* EachTokenInOnePlace of the producer, and what every variable of the class
\* that there is may hold.
EachTokenInOnePlace ==
  IF class = "producer" THEN P!TypeOK /\ P!EachTokenInOnePlace ELSE C!TypeOK

\* OvertakesOnlyWaiting of the producer: the library takes messages in the
\* order of sending, but that one may overtake those in the local queue.
OvertakesOnlyWaiting == class = "producer" => P!OvertakesOnlyWaiting

\* After a start() that began when no stop() was pending, and until the next
\* stop(), either class does its work and a tick is on its way; and a producer
\* that is destroyed has given back the library's.
StartedUnlessStopped ==
  IF class = "producer" THEN P!StartedUnlessStopped /\ P!NothingLeaked
  ELSE C!StartedUnlessStopped

\* ErrorsThrottled of the consumer: no error is told twice in a row within the
\* interval, and none is held back but the one the sink was told last.  An error
\* told again after another one in between is not held back.
ErrorsThrottled == class = "consumer" => C!ErrorsThrottled

\* The inductive invariant behind these four.
IInv ==
  /\ class \in {"producer", "consumer"}
  /\ class = "producer" => P!IInv
  /\ class = "consumer" => C!IInv

\* Every message sent is answered in the end, unless stop() is called or the
\* owner lets go.  (The consumer sends nothing.)
EverySendAnswered == P!EverySendAnswered

\* A stop() of the consumer that does not come while start() is at work takes
\* effect, unless start() is called again.  (The producer has no wish.)
StopTakesEffect == C!StopTakesEffect
=============================================================================
