------------------------------ MODULE IdSource ------------------------------
(***************************************************************************)
(* What a generator of unique ids promises its clients: every stamp it     *)
(* hands out lies after every stamp handed out before, to whichever client *)
(* that was.                                                               *)
(***************************************************************************)
EXTENDS Stamps, Sequences

CONSTANT Clients

VARIABLES
  last,   \* the last stamp handed out
  ids     \* the stamps each client was given, in order

vars == <<last, ids>>

Init == last = ZeroStamp /\ ids = [c \in Clients |-> <<>>]

Give(c) ==
  /\ last' \in Stamp /\ Before(last, last')
  /\ ids' = [ids EXCEPT ![c] = Append(@, last')]

Next == \E c \in Clients : Give(c)

Spec == Init /\ [][Next]_vars

-----------------------------------------------------------------------------
\* No stamp is handed out twice, to one client or to two.
Unique ==
  \A c, d \in Clients : \A i \in DOMAIN ids[c], j \in DOMAIN ids[d] :
    ids[c][i] = ids[d][j] => c = d /\ i = j
=============================================================================
