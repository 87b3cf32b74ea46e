--------------------------- MODULE SnowflakeMutex ---------------------------
(***************************************************************************)
(* The generator of skeletons/snowflake.h (and its twin dot_examples/c/    *)
(* ids/sf.h) behind the mutex of skeletons/snowflake_mtx.h: threads of one *)
(* process take the lock, read the realtime clock, and advance last_ms and *)
(* seq.  The realtime clock may be set back, and the process may die at    *)
(* any point and be started again: nothing it knew survives, the ids its   *)
(* callers were given do.                                                  *)
(***************************************************************************)
EXTENDS Stamps, Sequences

CONSTANTS
  Threads,
  MaxClock,   \* bound: the realtime clock's largest reading
  MaxIds      \* bound: the number of ids handed out altogether

ASSUME BoundAssumption == MaxClock \in Nat \ {0} /\ MaxIds \in Nat

VARIABLES
  clock,   \* CLOCK_REALTIME in milliseconds
  gen,     \* last_ms and seq of snowflake_t
  mtx,     \* the threads holding the mutex: none or one
  pc,      \* "idle", "lock", "read", "advance" or "unlock"
  now_ms,  \* what now_millis returned to each thread
  out,     \* id of each thread, between its computation and the return
  given,   \* history: the stamps of all ids returned to callers, in order
  high,    \* history: the largest last_ms of the earlier processes
  unsafe,  \* history: a process computed an id while neither its clock nor
           \* its own last_ms had passed high
  peak,    \* history: the largest clock reading so far
  made     \* history: the number of ids computed so far

vars == <<clock, gen, mtx, pc, now_ms, out, given, high, unsafe, peak, made>>
history == <<given, high, unsafe, peak, made>>

\* A process that has called snowflake_init and nothing else.
Idle == [t \in Threads |-> "idle"]
NoClock == [t \in Threads |-> 0]
NoStamp == [t \in Threads |-> ZeroStamp]

Init ==
  /\ gen = ZeroStamp /\ mtx = {}
  /\ pc = Idle /\ now_ms = NoClock /\ out = NoStamp
  /\ clock = 1 /\ peak = 1
  /\ given = <<>> /\ high = 0 /\ unsafe = FALSE /\ made = 0

-----------------------------------------------------------------------------
Call(t) ==
  /\ pc[t] = "idle" /\ made < MaxIds
  /\ pc' = [pc EXCEPT ![t] = "lock"]
  /\ UNCHANGED <<clock, gen, mtx, now_ms, out, history>>

\* (Mutant of LockFree: the mutex does not exclude.)
LockFree_Always == TRUE

LockFree == mtx = {}

Lock(t) ==
  /\ pc[t] = "lock" /\ LockFree
  /\ mtx' = mtx \cup {t}
  /\ pc' = [pc EXCEPT ![t] = "read"]
  /\ UNCHANGED <<clock, gen, now_ms, out, history>>

\* now_millis, called with the lock held.
ReadClock(t) ==
  /\ pc[t] = "read"
  /\ now_ms' = [now_ms EXCEPT ![t] = clock]
  /\ pc' = [pc EXCEPT ![t] = "advance"]
  /\ UNCHANGED <<clock, gen, mtx, out, history>>

\* snowflake_gen_next.
GenNext(t) ==
  /\ pc[t] = "advance" /\ made < MaxIds
  /\ gen' = Advance(gen, now_ms[t])
  /\ out' = [out EXCEPT ![t] = gen']
  /\ pc' = [pc EXCEPT ![t] = "unlock"]
  /\ unsafe' = (unsafe \/ (gen.ms <= high /\ now_ms[t] <= high))
  /\ made' = made + 1
  /\ UNCHANGED <<clock, mtx, now_ms, given, high, peak>>

\* The mutex is released and the id returned.
Unlock(t) ==
  /\ pc[t] = "unlock"
  /\ mtx' = mtx \ {t}
  /\ given' = Append(given, out[t])
  /\ pc' = [pc EXCEPT ![t] = "idle"]
  /\ UNCHANGED <<clock, gen, now_ms, out, high, unsafe, peak, made>>

-----------------------------------------------------------------------------
\* The clock runs, or is stepped back by whoever keeps it.
Tick ==
  /\ clock < MaxClock
  /\ clock' = clock + 1
  /\ peak' = IF clock' > peak THEN clock' ELSE peak
  /\ UNCHANGED <<gen, mtx, pc, now_ms, out, given, high, unsafe, made>>

SetBack ==
  /\ clock' \in 1 .. clock - 1
  /\ UNCHANGED <<gen, mtx, pc, now_ms, out, history>>

\* The process dies and another one takes its place.
Restart ==
  /\ gen' = ZeroStamp /\ mtx' = {}
  /\ pc' = Idle /\ now_ms' = NoClock /\ out' = NoStamp
  /\ high' = IF gen.ms > high THEN gen.ms ELSE high
  /\ UNCHANGED <<clock, given, unsafe, peak, made>>

Thread(t) == Call(t) \/ Lock(t) \/ ReadClock(t) \/ GenNext(t) \/ Unlock(t)

Next == (\E t \in Threads : Thread(t)) \/ Tick \/ SetBack \/ Restart

Spec == Init /\ [][Next]_vars

-----------------------------------------------------------------------------
(* Properties                                                              *)

TypeOK ==
  /\ clock \in Nat /\ gen \in Stamp /\ mtx \subseteq Threads
  /\ pc \in [Threads -> {"idle", "lock", "read", "advance", "unlock"}]
  /\ now_ms \in [Threads -> Nat] /\ out \in [Threads -> Stamp]
  /\ given \in Seq(Stamp) /\ high \in Nat /\ unsafe \in BOOLEAN
  /\ peak \in Nat /\ made \in Nat

\* Ids are returned in strictly increasing order, hence never twice, across
\* threads, clock steps and restarts of the process, unless a restarted process
\* computed one before the clock had passed the millisecond its predecessor
\* had reached, which, with borrowed milliseconds, may lie in the future.
IdsIncrease ==
  unsafe \/ \A i, j \in DOMAIN given : i < j => Before(given[i], given[j])

\* The inductive invariant behind IdsIncrease: the threads between lock and
\* unlock are those in mtx, at most one; an id handed out earlier lies in a
\* millisecond of an earlier process or not after gen; and an id on its way to
\* the caller is gen itself, after all of those.
OneInside ==
  /\ \A t \in Threads : t \in mtx <=> pc[t] \in {"read", "advance", "unlock"}
  /\ \A t, u \in mtx : t = u

GivenBehind ==
  \A i \in DOMAIN given : given[i].ms <= high \/ ~Before(gen, given[i])

OutIsNewest ==
  \A t \in Threads : pc[t] = "unlock" =>
    /\ out[t] = gen /\ gen.ms > high
    /\ \A i \in DOMAIN given : Before(given[i], gen)

IInv ==
  /\ TypeOK /\ OneInside /\ IdsIncrease
  /\ unsafe \/ (GivenBehind /\ OutIsNewest)

\* last_ms runs ahead of every clock reading only by as many milliseconds as
\* were used up completely: SeqMax + 1 ids each.
BorrowsOnlyWhenExhausted ==
  gen.ms > peak => (gen.ms - peak) * (SeqMax + 1) <= made

\* The inductive invariant behind it: no clock in use is ahead of peak, and from
\* the millisecond of peak on every id up to gen has been computed.
ClocksBehindPeak ==
  1 <= clock /\ clock <= peak /\ \A t \in Threads : now_ms[t] <= peak

NoneSkipped ==
  gen.ms >= peak => (gen.ms - peak) * (SeqMax + 1) + gen.seq + 1 <= made

BorrowInv == TypeOK /\ ClocksBehindPeak /\ NoneSkipped
=============================================================================
