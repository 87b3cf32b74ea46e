--------------------------- MODULE SnowflakeAtomic ---------------------------
(***************************************************************************)
(* The lock-free id generator (skeletons/snowflake_atomic.h): threads      *)
(* share one packed word, read it, compute the next stamp and install it   *)
(* with a weak compare-and-swap, retrying when it fails.                   *)
(*                                                                         *)
(* The word is represented by the stamp it packs (snf__pack keeps seq in   *)
(* bits of its own).  Each thread brings its own clock reading; readings   *)
(* of different calls are not ordered in any way.                          *)
(***************************************************************************)
EXTENDS Stamps, Sequences

CONSTANTS
  Threads,
  MaxNow,     \* bound: the largest clock reading a caller brings
  MaxCalls    \* bound: the number of calls one thread makes

\* What the bounds must satisfy; assumed in Snowflake, where they are given.
AtomicAssumption == MaxNow \in Nat /\ MaxCalls \in Nat

VARIABLES
  packed,   \* st->packed, unpacked
  now_ms,   \* now_ms of each call, as the attempts so far have left it
  old,      \* old of each attempt
  neu,      \* neu of each attempt, unpacked
  pc,       \* where each thread is: "idle", "load" or "cas"
  ids       \* the stamps of the ids each thread was returned

vars == <<packed, now_ms, old, neu, pc, ids>>

Init ==
  /\ packed = ZeroStamp
  /\ now_ms = [t \in Threads |-> 0]
  /\ old = [t \in Threads |-> ZeroStamp]
  /\ neu = [t \in Threads |-> ZeroStamp]
  /\ pc = [t \in Threads |-> "idle"]
  /\ ids = [t \in Threads |-> <<>>]

\* Thread t calls snf_next with a clock reading of ms.
Call(t, ms) ==
  /\ pc[t] = "idle" /\ Len(ids[t]) < MaxCalls
  /\ now_ms' = [now_ms EXCEPT ![t] = ms]
  /\ pc' = [pc EXCEPT ![t] = "load"]
  /\ UNCHANGED <<packed, old, neu, ids>>

\* SNF_LOAD and the computation of the new word from the value read.  now_ms
\* is a parameter of the function: a retry starts from the advanced value.
Load(t) ==
  /\ pc[t] = "load"
  /\ old' = [old EXCEPT ![t] = packed]
  /\ neu' = [neu EXCEPT ![t] = Advance(packed, now_ms[t])]
  /\ now_ms' = [now_ms EXCEPT ![t] = neu'[t].ms]
  /\ pc' = [pc EXCEPT ![t] = "cas"]
  /\ UNCHANGED <<packed, ids>>

\* (Mutants of CasMatches: the word is stored without comparing; the expected
\* and the desired word are swapped.)
CasMatches_Always(t) == TRUE
CasMatches_Swapped(t) == packed = neu[t]

CasMatches(t) == packed = old[t]

\* SNF_CAS installs the new word and snf_next returns its id.
CasSucceeds(t) ==
  /\ pc[t] = "cas" /\ CasMatches(t)
  /\ packed' = neu[t]
  /\ ids' = [ids EXCEPT ![t] = Append(@, neu[t])]
  /\ pc' = [pc EXCEPT ![t] = "idle"]
  /\ UNCHANGED <<now_ms, old, neu>>

\* SNF_CAS fails: another thread was faster, or the weak compare-and-swap
\* failed spuriously.
CasFails(t) ==
  /\ pc[t] = "cas"
  /\ pc' = [pc EXCEPT ![t] = "load"]
  /\ UNCHANGED <<packed, now_ms, old, neu, ids>>

\* All calls are made and answered.
Done ==
  /\ \A t \in Threads : pc[t] = "idle" /\ Len(ids[t]) = MaxCalls
  /\ UNCHANGED vars

Step(t) == Load(t) \/ CasSucceeds(t) \/ CasFails(t)

Next ==
  \/ \E t \in Threads : Step(t) \/ \E ms \in 0 .. MaxNow : Call(t, ms)
  \/ Done

Spec == Init /\ [][Next]_vars

\* Every thread inside snf_next keeps running, and a compare-and-swap that
\* could succeed again and again does not fail spuriously for ever.
Progress == \A t \in Threads : WF_vars(Step(t)) /\ SF_vars(CasSucceeds(t))

-----------------------------------------------------------------------------
(* Properties                                                              *)

TypeOK ==
  /\ packed \in Stamp
  /\ now_ms \in [Threads -> Nat]
  /\ old \in [Threads -> Stamp] /\ neu \in [Threads -> Stamp]
  /\ pc \in [Threads -> {"idle", "load", "cas"}]
  /\ ids \in [Threads -> Seq(Stamp)]

\* The word a thread is about to install lies after the one it read, and no
\* thread's view is ahead of the word itself: whatever the interleaving, the
\* compare-and-swap can only move the word forward.
AttemptsMoveForward ==
  \A t \in Threads :
    /\ ~Before(packed, old[t])
    /\ pc[t] = "cas" => Before(old[t], neu[t]) /\ neu[t].ms = now_ms[t]

\* snf_next hands out strictly increasing stamps to whichever thread is next.
Source == INSTANCE IdSource WITH Clients <- Threads, last <- packed
ImplementsIdSource == Source!Spec

\* No two calls, of one thread or of two, are ever returned the same id.
Unique == Source!Unique

\* The inductive invariant behind Unique: no id in a caller's hands lies after
\* the word, so the next one to be installed, which does, is new.
IdsBehindWord ==
  \A t \in Threads : \A i \in DOMAIN ids[t] : ~Before(packed, ids[t][i])

IInv == TypeOK /\ AttemptsMoveForward /\ IdsBehindWord /\ Unique

\* Every call of snf_next returns, however the threads collide, as long as
\* the others do not make new calls for ever (MaxCalls).
CallsReturn == \A t \in Threads : pc[t] # "idle" ~> pc[t] = "idle"
=============================================================================
