----------------------------- MODULE Snowflake -----------------------------
(***************************************************************************)
(* The two generators of snowflake ids: the one behind a mutex, which this *)
(* module extends, and the lock-free one (A).  A program uses one of them; *)
(* they share the stamps and nothing else.                                 *)
(***************************************************************************)
EXTENDS SnowflakeMutex

CONSTANTS
  AtomicThreads,     \* the threads that use the lock-free generator
  MaxNow, MaxCalls   \* bounds of SnowflakeAtomic

VARIABLES
  used,                                             \* "mutex" or "atomic"
  packed, atomicNow, old, neu, atomicPc, ids        \* of SnowflakeAtomic

A == INSTANCE SnowflakeAtomic WITH
  Threads <- AtomicThreads, now_ms <- atomicNow, pc <- atomicPc

ASSUME AtomicBounds == A!AtomicAssumption

atomicVars == <<packed, atomicNow, old, neu, atomicPc, ids>>

GeneratorInit == used \in {"mutex", "atomic"} /\ Init /\ A!Init

GeneratorNext ==
  \/ used = "mutex" /\ Next /\ UNCHANGED <<used, atomicVars>>
  \/ used = "atomic" /\ A!Next /\ UNCHANGED <<used, vars>>

\* Nothing is asked of the threads that wait for the mutex, and of those that
\* do not what SnowflakeAtomic says.
GeneratorSpec ==
  GeneratorInit /\ [][GeneratorNext]_<<used, vars, atomicVars>> /\ A!Progress

-----------------------------------------------------------------------------
(* The properties of the lock-free generator, as its module states them.   *)
(* Those of the other are named there: IInv and BorrowsOnlyWhenExhausted.  *)

\* The shared word only moves forward, past every id in a caller's hands, and
\* no two calls are returned the same id.
IdsStayUnique == A!IInv

\* snf_next hands out strictly increasing stamps to whichever thread is next.
ImplementsIdSource == A!ImplementsIdSource

\* Every call of snf_next returns, however the threads collide.
CallsReturn == A!CallsReturn
=============================================================================
