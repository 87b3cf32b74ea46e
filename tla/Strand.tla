------------------------------- MODULE Strand -------------------------------
(***************************************************************************)
(* A boost::asio strand with one steady timer, as the Kafka classes of     *)
(* dot_examples/c/cpp/kkacons/example.cpp use them (external).  Handlers   *)
(* run one at a time in the order they were queued.  The timer has at most *)
(* one wait: it ends with success when the time is up, and with an error   *)
(* when the timer is cancelled or set again, and then its handler, wrapped *)
(* in the strand, is queued like the others.                               *)
(***************************************************************************)
EXTENDS Sequences, SequencesExt

VARIABLES
  queue,  \* the handlers that wait for the strand
  armed   \* the timer has a wait

Tick == <<"tick">>        \* the wait has ended with success
Aborted == <<"aborted">>  \* the wait has ended with an error
Stop == <<"stop">>

Queued(h) == h \in ToSet(queue)

StrandInit == queue = <<>> /\ armed = FALSE

Post(h) == queue' = Append(queue, h) /\ UNCHANGED armed

\* The wait that is aborted, if there is one, after the handlers q.
AbortWait(q) == IF armed THEN Append(q, Aborted) ELSE q

\* timer.cancel(), with q in the strand.
CancelWith(q) == armed' = FALSE /\ queue' = AbortWait(q)

\* timer.expires_after() and timer.async_wait(), with q in the strand.
RearmWith(q) == armed' = TRUE /\ queue' = AbortWait(q)

\* The time is up.
Expire == armed /\ armed' = FALSE /\ queue' = Append(queue, Tick)

\* An aborted wait is told so: its handler returns at once.
RunAborted ==
  /\ queue # <<>> /\ Head(queue) = Aborted
  /\ queue' = Tail(queue) /\ UNCHANGED armed
=============================================================================
