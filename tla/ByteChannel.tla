----------------------------- MODULE ByteChannel -----------------------------
(***************************************************************************)
(* What a pipe viewer promises its two neighbours, whatever it does        *)
(* inside: a bounded, order-preserving channel.  Bytes come out in the     *)
(* order they went in, none is invented, the channel ends successfully     *)
(* only when the sender is gone and everything sent was delivered, and it  *)
(* fails only when the receiver is gone or an end is faulty.               *)
(***************************************************************************)
EXTENDS Integers

CONSTANT Capacity   \* the bytes the channel holds at most

VARIABLES
  sent,          \* number of bytes the sender has put in
  delivered,     \* number of bytes that came out
  senderOpen,    \* the sender may still send
  receiverOpen,  \* the receiver still listens
  faulty,        \* one of the two ends has met an error of its own
  state          \* "running", "done" or "failed"

vars == <<sent, delivered, senderOpen, receiverOpen, faulty, state>>

Init ==
  /\ sent = 0 /\ delivered = 0
  /\ senderOpen = TRUE /\ receiverOpen = TRUE /\ faulty = FALSE
  /\ state = "running"

Send ==
  /\ state = "running" /\ senderOpen
  /\ sent' \in sent + 1 .. delivered + Capacity
  /\ UNCHANGED <<delivered, senderOpen, receiverOpen, faulty, state>>

Deliver ==
  /\ state = "running" /\ receiverOpen
  /\ delivered' \in delivered + 1 .. sent
  /\ UNCHANGED <<sent, senderOpen, receiverOpen, faulty, state>>

SenderCloses ==
  /\ senderOpen /\ senderOpen' = FALSE
  /\ UNCHANGED <<sent, delivered, receiverOpen, faulty, state>>

ReceiverCloses ==
  /\ receiverOpen /\ receiverOpen' = FALSE
  /\ UNCHANGED <<sent, delivered, senderOpen, faulty, state>>

EndFails ==
  /\ ~faulty /\ faulty' = TRUE
  /\ UNCHANGED <<sent, delivered, senderOpen, receiverOpen, state>>

Finish ==
  /\ state = "running" /\ ~senderOpen /\ delivered = sent
  /\ state' = "done"
  /\ UNCHANGED <<sent, delivered, senderOpen, receiverOpen, faulty>>

Fail ==
  /\ state = "running" /\ (~receiverOpen \/ faulty)
  /\ state' = "failed"
  /\ UNCHANGED <<sent, delivered, senderOpen, receiverOpen, faulty>>

Next == Send \/ Deliver \/ SenderCloses \/ ReceiverCloses \/ EndFails \/ Finish \/ Fail

Spec == Init /\ [][Next]_vars
==============================================================================
