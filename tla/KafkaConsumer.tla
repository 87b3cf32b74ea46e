--------------------------- MODULE KafkaConsumer ---------------------------
(***************************************************************************)
(* KafkaConsumer (dot_examples/c/cpp/kkacons/example.cpp): a timer on a    *)
(* strand polls librdkafka and tells the sink about errors, not too often; *)
(* start() does its work on the caller's thread, stop() posts.             *)
(*                                                                         *)
(* parse_actions_append is a stub that accepts every message and adds      *)
(* nothing, so no ActionsEvent is ever emitted and a message only counts.  *)
(* The owner keeps the object; librdkafka is external.  Time is counted in *)
(* steps of the clock that tell whether the interval has passed.           *)
(***************************************************************************)
EXTENDS Integers, Strand

CONSTANTS
  Errors,         \* what librdkafka and its rebalance callback may report
  NotInitialised, \* "consumer not initialised"
  MaxPerPoll,     \* max_messages_per_poll
  MinInterval,    \* error_emit_min_interval
  MaxTime, MaxStarts, MaxStops  \* bounds: the clock, the calls

KafkaConsumerAssumption ==
  /\ NotInitialised \notin Errors
  /\ MaxPerPoll \in Nat /\ MinInterval \in Nat
  /\ MaxTime \in Nat /\ MaxStarts \in Nat /\ MaxStops \in Nat

VARIABLES
  running, consumer,  \* running_; consumer_ is not null
  lastMsg, lastEmit,  \* last_err_msg_; last_err_emit_, 0 at first
  handler, polled,    \* where the strand is; i of do_poll
  starter,            \* where the thread in start() is
  now, starts, stops, \* the clock; how many calls were made
  shown, hushed,      \* history: since init_consumer(), the last two errors emitted and
                      \* the last one held back
  wish                \* history: "run" after a start() that began with no stop pending,
                      \* "stop" after a stop() that came outside start(), "none" otherwise

errVars == <<lastMsg, lastEmit, shown, hushed>>
vars == <<queue, armed, running, consumer, handler, polled, starter, now, starts, stops,
          errVars, wish>>

\* last_err_msg_ before the first error.
NoText == ""

Init ==
  /\ StrandInit
  /\ running = FALSE /\ consumer = FALSE
  /\ lastMsg = NoText /\ lastEmit = 0
  /\ handler = "idle" /\ polled = 0
  /\ starter = "idle"
  /\ now = 1 /\ starts = 0 /\ stops = 0
  /\ shown = <<>> /\ hushed = <<>>
  /\ wish = "none"

-----------------------------------------------------------------------------
(* The callers' threads                                                    *)

CallStop ==
  /\ stops < MaxStops
  /\ stops' = stops + 1
  /\ Post(Stop)
  /\ wish' = IF starter = "idle" THEN "stop" ELSE "none"
  /\ UNCHANGED <<running, consumer, handler, polled, starter, now, starts, errVars>>

\* start() looks at running_ and returns when it is set.
StartCheck ==
  /\ starter = "idle" /\ starts < MaxStarts
  /\ starts' = starts + 1
  /\ IF running
       THEN /\ wish' = IF wish = "stop" THEN "none" ELSE wish
            /\ UNCHANGED starter
       ELSE /\ wish' = IF Queued(Stop) \/ handler = "closing" THEN "none" ELSE "run"
            /\ starter' = "init"
  /\ UNCHANGED <<queue, armed, running, consumer, handler, polled, now, stops, errVars>>

\* init_consumer(): a consumer that subscribes, and the throttle begins anew.
StartInit ==
  /\ starter = "init"
  /\ consumer' = TRUE
  /\ lastMsg' = NoText /\ lastEmit' = 0
  /\ shown' = <<>> /\ hushed' = <<>>
  /\ starter' = "inited"
  /\ UNCHANGED <<queue, armed, running, handler, polled, now, starts, stops, wish>>

\* It fails before it has a consumer, or to subscribe: then that is dropped.
StartFails ==
  /\ starter = "init"
  /\ starter' = "idle"
  /\ consumer' \in {consumer, FALSE}
  /\ wish' = "none"
  /\ UNCHANGED <<queue, armed, running, handler, polled, now, starts, stops, errVars>>

StartRun ==
  /\ starter = "inited"
  /\ running' = TRUE
  /\ starter' = "scheduling"
  /\ UNCHANGED <<queue, armed, consumer, handler, polled, now, starts, stops, errVars, wish>>

\* schedule_poll(), called by start().  Its test of running_ races with
\* stop_on_strand(), and the compiler may leave it out.
StartSchedule ==
  /\ starter = "scheduling"
  /\ starter' = "idle"
  /\ \/ RearmWith(queue)
     \/ ~running /\ UNCHANGED <<queue, armed>>
  /\ UNCHANGED <<running, consumer, handler, polled, now, starts, stops, errVars, wish>>

-----------------------------------------------------------------------------
(* Errors                                                                  *)

\* (Mutant of ShouldEmit: the interval is measured for any error.)
ShouldEmit_AnyError(m) == lastEmit = 0 \/ now - lastEmit >= MinInterval

\* emit_error_throttled()
ShouldEmit(m) == m # lastMsg \/ lastEmit = 0 \/ now - lastEmit >= MinInterval

Emit(m) ==
  /\ lastMsg' = m
  /\ IF ShouldEmit(m)
       THEN /\ lastEmit' = now
            /\ shown' = Append(IF Len(shown) = 2 THEN Tail(shown) ELSE shown,
                               [msg |-> m, at |-> now])
            /\ UNCHANGED hushed
       ELSE /\ hushed' = <<[msg |-> m, at |-> now], Last(shown)>>
            /\ UNCHANGED <<lastEmit, shown>>

\* The rebalance callback, served in consume, poll and close, assigns or
\* unassigns partitions or reports an error.
MayReport == UNCHANGED errVars \/ \E m \in Errors : Emit(m)

-----------------------------------------------------------------------------
(* The strand                                                              *)

Runs(h) == handler = "idle" /\ queue # <<>> /\ Head(queue) = h

\* stop_on_strand(), when there is nothing to stop.
StopNothing ==
  /\ Runs(Stop) /\ ~running
  /\ queue' = Tail(queue)
  /\ UNCHANGED <<armed, running, consumer, handler, polled, starter, now, starts, stops, errVars, wish>>

StopBegin ==
  /\ Runs(Stop) /\ running
  /\ running' = FALSE
  /\ CancelWith(Tail(queue))
  /\ handler' = "closing"
  /\ UNCHANGED <<consumer, polled, starter, now, starts, stops, errVars, wish>>

\* (Mutant of StopClose: the consumer is closed and kept.)
StopClose_Keeps ==
  /\ handler = "closing"
  /\ handler' = "idle"
  /\ IF consumer THEN MayReport ELSE UNCHANGED errVars
  /\ UNCHANGED <<queue, armed, running, consumer, polled, starter, now, starts, stops, wish>>

\* consumer_->close() and consumer_.reset()
StopClose ==
  /\ handler = "closing"
  /\ handler' = "idle"
  /\ IF consumer THEN MayReport ELSE UNCHANGED errVars
  /\ consumer' = FALSE
  /\ UNCHANGED <<queue, armed, running, polled, starter, now, starts, stops, wish>>

TickStale ==
  /\ Runs(Tick) /\ ~running
  /\ queue' = Tail(queue)
  /\ UNCHANGED <<armed, running, consumer, handler, polled, starter, now, starts, stops, errVars, wish>>

\* do_poll() begins.
TickBegin ==
  /\ Runs(Tick) /\ running /\ consumer
  /\ queue' = Tail(queue)
  /\ handler' = "polling" /\ polled' = 0
  /\ UNCHANGED <<armed, running, consumer, starter, now, starts, stops, errVars, wish>>

\* do_poll() without a consumer, which only a start() during a stop() brings about.
TickDeaf ==
  /\ Runs(Tick) /\ running /\ ~consumer
  /\ Emit(NotInitialised)
  /\ RearmWith(Tail(queue))
  /\ UNCHANGED <<running, consumer, handler, polled, starter, now, starts, stops, wish>>

\* consume(0) gives a message, or an error that does not end the loop.
Consume ==
  /\ handler = "polling" /\ polled < MaxPerPoll
  /\ polled' = polled + 1
  /\ MayReport
  /\ UNCHANGED <<queue, armed, running, consumer, handler, starter, now, starts, stops, wish>>

\* (Mutant of PollEnd: after a full batch nobody schedules.)
PollEnd_OnlyWhenEmpty ==
  /\ handler = "polling"
  /\ handler' = "idle"
  /\ MayReport
  /\ IF running /\ polled < MaxPerPoll THEN RearmWith(queue) ELSE UNCHANGED <<queue, armed>>
  /\ UNCHANGED <<running, consumer, polled, starter, now, starts, stops, wish>>

\* There is nothing more, or enough; poll(0), and the next poll is scheduled.
PollEnd ==
  /\ handler = "polling"
  /\ handler' = "idle"
  /\ MayReport
  /\ IF running THEN RearmWith(queue) ELSE UNCHANGED <<queue, armed>>
  /\ UNCHANGED <<running, consumer, polled, starter, now, starts, stops, wish>>

SkipAborted ==
  /\ handler = "idle" /\ RunAborted
  /\ UNCHANGED <<running, consumer, handler, polled, starter, now, starts, stops, errVars, wish>>

TimeUp ==
  /\ Expire
  /\ UNCHANGED <<running, consumer, handler, polled, starter, now, starts, stops, errVars, wish>>

Clock ==
  /\ now < MaxTime /\ now' = now + 1
  /\ UNCHANGED <<queue, armed, running, consumer, handler, polled, starter, starts, stops, errVars, wish>>

StrandRuns ==
  \/ StopNothing \/ StopBegin \/ StopClose \/ TickStale \/ TickBegin \/ TickDeaf
  \/ Consume \/ PollEnd \/ SkipAborted

StartGoesOn == StartInit \/ StartFails \/ StartRun \/ StartSchedule

Next == CallStop \/ StartCheck \/ StartGoesOn \/ StrandRuns \/ TimeUp \/ Clock

\* A thread runs the io_service and one goes on in start(); time passes.
Fairness == WF_vars(StrandRuns) /\ WF_vars(StartGoesOn) /\ WF_vars(TimeUp)

Spec == Init /\ [][Next]_vars /\ Fairness

-----------------------------------------------------------------------------
Texts == Errors \cup {NotInitialised}
Shown == [msg : Texts, at : Nat \ {0}]

\* Type invariant.
TypeOK ==
  /\ queue \in Seq({Tick, Aborted, Stop}) /\ armed \in BOOLEAN
  /\ running \in BOOLEAN /\ consumer \in BOOLEAN
  /\ lastMsg \in Texts \cup {NoText} /\ lastEmit \in 0 .. now
  /\ handler \in {"idle", "closing", "polling"} /\ polled \in 0 .. MaxPerPoll
  /\ starter \in {"idle", "init", "inited", "scheduling"}
  /\ now \in Nat \ {0} /\ starts \in 0 .. MaxStarts /\ stops \in 0 .. MaxStops
  /\ shown \in Seq(Shown) /\ Len(shown) <= 2
  /\ hushed \in Seq(Shown) /\ Len(hushed) \in {0, 2}
  /\ wish \in {"run", "stop", "none"}

\* The sink is not told the same error twice in a row within the interval,
\* unless the consumer was started again between; and an error is held back
\* only while the very same one, told within the interval, is the last it heard.
ErrorsThrottled ==
  /\ (Len(shown) = 2 /\ shown[1].msg = shown[2].msg) =>
       shown[2].at - shown[1].at >= MinInterval
  /\ hushed # <<>> =>
       hushed[1].msg = hushed[2].msg /\ hushed[1].at - hushed[2].at < MinInterval

\* After a start() that began when no stop() was pending, and until the next
\* stop(), the consumer is there and a poll is on its way.
StartedUnlessStopped ==
  wish = "run" /\ starter = "idle" =>
    running /\ consumer /\ (armed \/ Queued(Tick) \/ handler = "polling")

\* The inductive invariant behind these: lastMsg and lastEmit are about the
\* error shown last, also when one has been held back since; and start() gets
\* what it needs, piece by piece, while no stop() is on its way.
LastShown ==
  /\ shown = <<>> => lastEmit = 0
  /\ shown # <<>> => lastMsg = Last(shown).msg /\ lastEmit = Last(shown).at
Starting ==
  wish = "run" =>
    /\ ~Queued(Stop) /\ handler # "closing"
    /\ starter # "init" => consumer
    /\ starter \in {"scheduling", "idle"} => running
IInv == TypeOK /\ ErrorsThrottled /\ StartedUnlessStopped /\ LastShown /\ Starting

\* A stop() that does not come while start() is at work takes effect, unless
\* start() is called again: the consumer is closed and nothing polls.
StopTakesEffect == wish = "stop" ~> ((~running /\ ~consumer) \/ wish # "stop")
=============================================================================
