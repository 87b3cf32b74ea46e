------------------------------ MODULE SpscRing ------------------------------
(***************************************************************************)
(* The single-producer single-consumer ring (skeletons/spsc.c): push and   *)
(* pop, one step per access to the shared struct.                          *)
(*                                                                         *)
(* head and tail are 32-bit counters that run freely and wrap at W; a slot *)
(* is selected by the bits under the mask.  head is published with release *)
(* and read with acquire, so the slot is written before the consumer sees  *)
(* it.  tail is a plain variable on both sides: nothing orders pop's load  *)
(* of the slot before its store to tail, and with inOrder = FALSE the two  *)
(* take effect in either order.                                            *)
(***************************************************************************)
EXTENDS Integers, Sequences

CONSTANTS
  Cap,        \* mask + 1, the number of slots
  Laps,       \* W = Cap * Laps
  Values,     \* the values pushed, of type uint32_t
  ByteMod,    \* 2^8, the range of a slot
  MaxPushes   \* bound: the values pushed

W == Cap * Laps    \* 2^32, the range of head and tail

ASSUME RingAssumption ==
  /\ Cap \in Nat \ {0}
  /\ Laps \in Nat \ {0, 1}
  /\ Values \subseteq Nat
  /\ ByteMod \in Nat \ {0}
  /\ MaxPushes \in Nat

VARIABLES
  inOrder,           \* the machine: TRUE if loads are not reordered with later
                     \* stores (x86), FALSE if they are
  head, tail, buf,   \* struct ring
  ppc, h, v,         \* push: where it is, its copy of head and its argument
  todo, t, o,        \* pop: the accesses it still has to make, its copy of tail, *o
  busy,              \* pop has been called and has not returned
  given,             \* history: the values pushed
  stores,            \* history: the number of stores to tail
  taken              \* history: the values popped

producer == <<inOrder, ppc, h, v>>
consumer == <<inOrder, todo, t, o, busy>>
vars == <<inOrder, head, tail, buf, ppc, h, v, todo, t, o, busy, given, stores, taken>>

Init ==
  /\ inOrder \in BOOLEAN
  /\ head = 0 /\ tail = 0 /\ buf = [i \in 0 .. Cap - 1 |-> 0]
  /\ ppc = "idle" /\ h = 0 /\ v = 0
  /\ todo = {} /\ t = 0 /\ o = 0 /\ busy = FALSE
  /\ given = <<>> /\ stores = 0 /\ taken = <<>>

Slot(i) == i % Cap       \* i & r->mask
Low(x) == x % ByteMod    \* what a uint8_t keeps of x

-----------------------------------------------------------------------------
(* push                                                                    *)

\* (Mutants of Full: a ring one slot too large; a difference that goes negative
\* instead of wrapping.)
Full_OneLate == (head - tail) % W = Cap + 1
Full_NoWrap == head - tail = Cap

\* The subtraction of two uint32_t wraps.
Full == (head - tail) % W = Cap

\* push reads head and tail and finds room.
PushStart(x) ==
  /\ ppc = "idle" /\ Len(given) < MaxPushes /\ ~Full
  /\ ppc' = "write" /\ h' = head /\ v' = x
  /\ UNCHANGED <<head, tail, buf, consumer, given, stores, taken>>

\* push finds the ring full and returns -1.
PushRefused ==
  /\ ppc = "idle" /\ Full
  /\ UNCHANGED vars

WriteSlot ==
  /\ ppc = "write"
  /\ buf' = [buf EXCEPT ![Slot(h)] = Low(v)]
  /\ ppc' = "publish"
  /\ UNCHANGED <<head, tail, h, v, consumer, given, stores, taken>>

\* The release store of head; push returns 0.
Publish ==
  /\ ppc = "publish"
  /\ head' = (h + 1) % W /\ given' = Append(given, v)
  /\ ppc' = "idle"
  /\ UNCHANGED <<tail, buf, h, v, consumer, stores, taken>>

-----------------------------------------------------------------------------
(* pop                                                                     *)

\* pop reads tail, loads head with acquire, and finds the ring empty.
PopRefused ==
  /\ ~busy /\ tail = head
  /\ UNCHANGED vars

PopStart ==
  /\ ~busy /\ tail # head
  /\ busy' = TRUE /\ t' = tail /\ todo' = {"load", "store"}
  /\ UNCHANGED <<head, tail, buf, producer, o, given, stores, taken>>

LoadSlot ==
  /\ "load" \in todo
  /\ o' = buf[Slot(t)] /\ todo' = todo \ {"load"}
  /\ UNCHANGED <<head, tail, buf, producer, t, busy, given, stores, taken>>

\* (Mutant of MayStore: tail is advanced before the slot is read.)
MayStore_Early == TRUE

\* The store to tail is not ahead of the load.
MayStore == inOrder => "load" \notin todo

StoreTail ==
  /\ "store" \in todo /\ MayStore
  /\ tail' = (t + 1) % W /\ stores' = stores + 1 /\ todo' = todo \ {"store"}
  /\ UNCHANGED <<head, buf, producer, t, o, busy, given, taken>>

PopReturn ==
  /\ busy /\ todo = {}
  /\ taken' = Append(taken, o) /\ busy' = FALSE
  /\ UNCHANGED <<head, tail, buf, producer, todo, t, o, given, stores>>

Producer == (\E x \in Values : PushStart(x)) \/ PushRefused \/ WriteSlot \/ Publish
Consumer == PopStart \/ PopRefused \/ LoadSlot \/ StoreTail \/ PopReturn
Next == Producer \/ Consumer

Spec == Init /\ [][Next]_vars

\* A push or a pop that has begun is finished, and the consumer keeps popping.
FairSpec == Spec /\ WF_vars(WriteSlot \/ Publish) /\ WF_vars(Consumer)

-----------------------------------------------------------------------------
(* Properties                                                              *)

TypeOK ==
  /\ inOrder \in BOOLEAN
  /\ head \in 0 .. W - 1 /\ tail \in 0 .. W - 1
  /\ buf \in [0 .. Cap - 1 -> 0 .. ByteMod - 1]
  /\ ppc \in {"idle", "write", "publish"} /\ h \in 0 .. W - 1 /\ v \in Nat
  /\ todo \in SUBSET {"load", "store"} /\ t \in 0 .. W - 1
  /\ o \in Nat /\ busy \in BOOLEAN
  /\ given \in Seq(Nat) /\ taken \in Seq(Nat) /\ stores \in Nat

\* Whatever order the accesses of pop take effect in: the k-th value popped is
\* the low byte of the k-th value pushed, or of the one Cap pushes later, which
\* the producer may already have put into the slot.  Nothing older or newer
\* comes out, and no value is popped that was never pushed.
Written == IF ppc = "publish" THEN Append(given, v) ELSE given

LappedAtMostOnce ==
  \A k \in 1 .. Len(taken) :
    /\ k <= Len(given)
    /\ \/ taken[k] = Low(given[k])
       \/ k + Cap <= Len(Written) /\ taken[k] = Low(Written[k + Cap])

\* With loads and stores in program order, the values come out in the order in
\* which they were pushed, each exactly once, across every wrap of the indices.
Fifo ==
  inOrder => \A k \in 1 .. Len(taken) :
               k <= Len(given) /\ taken[k] = Low(given[k])

\* The books kept in two wrapping counters: what the producer and the consumer
\* take for full and empty is full and empty, and a slot that has been written
\* and not yet released holds its value.
CountersAgree ==
  /\ stores <= Len(given) /\ Len(given) <= stores + Cap
  /\ head = Len(given) % W /\ tail = stores % W

UnreadKept ==
  \A k \in stores + 1 .. Len(given) : buf[(k - 1) % Cap] = Low(given[k])

PushInRoom ==
  /\ ppc # "idle" => h = head /\ Len(given) < stores + Cap
  /\ ppc = "publish" => buf[Slot(h)] = Low(v)

Loading == busy /\ "load" \in todo
Storing == busy /\ "store" \in todo

\* What a pop under way has in hand; k is the element it is popping.
PopInHand ==
  LET k == Len(taken) + 1 IN
  /\ ~busy => todo = {} /\ stores = Len(taken)
  /\ Storing => stores = Len(taken) /\ k <= Len(given)
  /\ busy /\ ~Storing => stores = k
  /\ busy => t = Len(taken) % W
  /\ Loading /\ inOrder => Storing
  /\ busy /\ ~Loading =>
       \/ o = Low(given[k])
       \/ ~inOrder /\ k + Cap <= Len(Written) /\ o = Low(Written[k + Cap])
  /\ Loading /\ ~Storing =>
       \/ buf[Slot(t)] = Low(given[k])
       \/ k + Cap <= Len(Written) /\ buf[Slot(t)] = Low(Written[k + Cap])

IInv ==
  /\ TypeOK /\ CountersAgree /\ UnreadKept /\ PushInRoom /\ PopInHand
  /\ LappedAtMostOnce /\ Fifo

\* With accesses in program order the ring implements a bounded queue: a push
\* takes effect at its store to head, a pop at its store to tail.
Queue == [k \in 1 .. (head - tail) % W |-> buf[Slot(tail + k - 1)]]
Fifos == INSTANCE BoundedFifo WITH
  Capacity <- Cap, queue <- Queue, put <- given,
  got <- IF busy /\ ~Storing THEN Append(taken, o) ELSE taken
ImplementsFifo == Fifos!Init /\ [][inOrder => Fifos!Next]_(Fifos!vars)

\* What is pushed is popped, as long as the consumer keeps popping.
Delivered ==
  \A k \in 1 .. MaxPushes : Len(given) >= k ~> Len(taken) >= k
=============================================================================
