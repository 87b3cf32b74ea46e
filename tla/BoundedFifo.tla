---------------------------- MODULE BoundedFifo ----------------------------
(***************************************************************************)
(* What a single-producer single-consumer ring promises: a first-in        *)
(* first-out queue of at most Capacity elements, which keeps the low byte  *)
(* of every value put into it.                                             *)
(***************************************************************************)
EXTENDS Naturals, Sequences

CONSTANTS Capacity, Low(_)

VARIABLES
  queue,   \* what has been put and not yet taken
  put,     \* every value put so far
  got      \* every element taken so far

Init == queue = <<>> /\ put = <<>> /\ got = <<>>

Put ==
  /\ Len(queue) < Capacity
  /\ Len(put') = Len(put) + 1 /\ SubSeq(put', 1, Len(put)) = put
  /\ queue' = Append(queue, Low(put'[Len(put')]))
  /\ UNCHANGED got

Take ==
  /\ queue # <<>>
  /\ got' = Append(got, Head(queue)) /\ queue' = Tail(queue)
  /\ UNCHANGED put

Next == Put \/ Take

vars == <<queue, put, got>>

Spec == Init /\ [][Next]_vars
=============================================================================
