------------------------------- MODULE Stamps -------------------------------
(***************************************************************************)
(* The time stamps that snowflake ids are made of: a millisecond and a     *)
(* sequence number within it, in the order of the ids of one node.  The    *)
(* generators keep the last stamp they handed out and compute the next one *)
(* from it and from the caller's clock.                                    *)
(*                                                                         *)
(* An id is ((ms - epoch) << bits) | node << bits | seq; with one node and *)
(* seq <= SeqMax the fields do not overlap, so two ids are equal, or       *)
(* ordered, exactly when their stamps are.                                 *)
(***************************************************************************)
EXTENDS Integers

CONSTANTS
  SeqMax,   \* SF_SEQ_MAX, SNF_SEQ_MAX
  SeqMod    \* 2^16: seq is a uint16_t, and ++seq wraps around there

\* SNF_SEQ_BITS may be redefined; with 16 of them ++seq wraps before it can
\* exceed SNF_SEQ_MAX, which the headers do not guard against.
ASSUME SeqAssumption ==
  SeqMax \in Nat /\ SeqMod \in Nat \ {0} /\ SeqMax + 1 < SeqMod

Stamp == [ms : Nat, seq : 0 .. SeqMax]
ZeroStamp == [ms |-> 0, seq |-> 0]

Before(a, b) == a.ms < b.ms \/ (a.ms = b.ms /\ a.seq < b.seq)

\* (Mutants of Clamp and Overflow: a clock that went back is believed; the
\* sequence number is let past its field, or is cut off one too early.)
Clamp_Believes(last, now) == now
Overflow_OneEarly(seq) == seq >= SeqMax

\* A clock behind the last stamp is ignored.
Clamp(last, now) == IF now < last.ms THEN last.ms ELSE now

Overflow(seq) == seq > SeqMax

\* The stamp after last for a caller whose clock shows now: the first of its
\* millisecond, or the next of the same, or, when the sequence numbers of that
\* millisecond are used up, the first of a millisecond that has not come yet.
Advance(last, now) ==
  LET m == Clamp(last, now)
      s == (last.seq + 1) % SeqMod
  IN  IF m # last.ms THEN [ms |-> m, seq |-> 0]
      ELSE IF Overflow(s) THEN [ms |-> m + 1, seq |-> 0]
      ELSE [ms |-> m, seq |-> s]

=============================================================================
