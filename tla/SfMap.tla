------------------------------- MODULE SfMap -------------------------------
(***************************************************************************)
(* The map from snowflake ids to small numbers (examples/c/ids/lookup.h):  *)
(* an open-addressing table of MCAP slots with linear probing, in which    *)
(* key 0 marks a free slot and nothing is ever removed.                    *)
(*                                                                         *)
(* A call is one step; the search inside it is the first slot, counted     *)
(* from the key's hash, that holds the key or is free.  When there is none *)
(* the loop of the call never ends.                                        *)
(***************************************************************************)
EXTENDS Integers

CONSTANTS
  MCap,      \* MCAP, the number of slots, a power of two
  Factor,    \* FB modulo MCAP; only these bits of the product survive the mask
  Keys,      \* the keys used
  Values,    \* the values given to sf_map_put
  IdMod      \* 2^32, the range of next_id and of a value

SfMapAssumption ==
  /\ MCap \in Nat \ {0} /\ Factor \in Nat
  /\ Keys \subseteq Nat \ {0}
  /\ IdMod \in Nat /\ IdMod > MCap
  /\ Values \subseteq 0 .. IdMod - 1

Index == 0 .. MCap - 1
NotFound == IdMod - 1    \* UINT32_MAX

VARIABLES
  slot,        \* slot[i].k and slot[i].v
  next_id,
  ret,         \* what the last call returned
  hung,        \* a call never returns
  reassigned   \* history: a put has made an id that next_id will not skip

vars == <<slot, next_id, ret, hung, reassigned>>

Init ==
  /\ slot = [i \in Index |-> [k |-> 0, v |-> 0]] /\ next_id = 0
  /\ ret = NotFound /\ hung = FALSE /\ reassigned = FALSE

-----------------------------------------------------------------------------
\* sf_hash: the mask keeps the low bits of the product.
Hash(key) == ((key % MCap) * Factor) % MCap

\* (Mutants of Stops: a free slot does not end the search; only a free one does.)
Stops_AtKeyOnly(i, key) == slot[i].k = key
Stops_AtFree(i, key) == slot[i].k = 0

\* The search for a key stops at slot i.
Stops(i, key) == slot[i].k = key \/ slot[i].k = 0

\* How far slot i lies behind the key's hash.
Distance(i, key) == (i - Hash(key)) % MCap

\* Where the search stops; at most one index.
StopsAt(key) ==
  {i \in Index : /\ Stops(i, key)
                 /\ \A j \in Index : Stops(j, key) => Distance(i, key) <= Distance(j, key)}

\* sf_map_full compares the next id, not the number of slots in use.
Full == next_id >= MCap

\* The loop of a call goes round for ever.
Hang(key) ==
  /\ StopsAt(key) = {}
  /\ hung' = TRUE /\ UNCHANGED <<slot, next_id, ret, reassigned>>

Get(key) ==
  /\ ~hung
  /\ \/ Hang(key)
     \/ \E i \in StopsAt(key) :
          /\ ret' = IF slot[i].k = key THEN slot[i].v ELSE NotFound
          /\ UNCHANGED <<slot, next_id, hung, reassigned>>

\* A new key takes the free slot and the next id, unless next_id says 'full'.
Create(key, i) ==
  IF Full
    THEN ret' = NotFound /\ UNCHANGED <<slot, next_id>>
    ELSE /\ ret' = next_id
         /\ next_id' = (next_id + 1) % IdMod
         /\ slot' = [slot EXCEPT ![i] = [k |-> key, v |-> next_id]]

GetOrCreate(key) ==
  /\ ~hung
  /\ \/ Hang(key)
     \/ \E i \in StopsAt(key) :
          /\ IF slot[i].k = key
               THEN ret' = slot[i].v /\ UNCHANGED <<slot, next_id>>
               ELSE Create(key, i)
          /\ UNCHANGED <<hung, reassigned>>

\* (Mutants of NextAfterPut: no wrap; the ids go on from a smaller value too.)
NextAfterPut_NoWrap(new, value) ==
  IF new /\ value >= next_id THEN value + 1 ELSE next_id
NextAfterPut_Always(new, value) ==
  IF new THEN (value + 1) % IdMod ELSE next_id

\* next_id after a value has been stored; only a new key can move it.
NextAfterPut(new, value) ==
  IF new /\ value >= next_id THEN (value + 1) % IdMod ELSE next_id

Put(key, value) ==
  /\ ~hung
  /\ \/ Hang(key)
     \/ \E i \in StopsAt(key) :
          LET new == slot[i].k = 0 IN
          /\ slot' = [slot EXCEPT ![i] = [k |-> key, v |-> value]]
          /\ next_id' = NextAfterPut(new, value)
          /\ ret' = 1
          /\ reassigned' = (reassigned \/ value >= next_id')
          /\ UNCHANGED hung

Next ==
  \E key \in Keys :
    Get(key) \/ GetOrCreate(key) \/ \E value \in Values : Put(key, value)

Spec == Init /\ [][Next]_vars

-----------------------------------------------------------------------------
(* Properties                                                              *)

TypeOK ==
  /\ slot \in [Index -> [k : Keys \cup {0}, v : 0 .. IdMod - 1]]
  /\ next_id \in 0 .. IdMod - 1 /\ ret \in 0 .. IdMod - 1
  /\ hung \in BOOLEAN /\ reassigned \in BOOLEAN

\* A call can only fail to return when every slot is in use; sf_map_full does
\* not prevent that, since it is asked only once a free slot has been found.
HangsOnlyWhenAllUsed == hung => \A i \in Index : slot[i].k # 0

\* sf_map_get_or_create gives no two keys the same id, unless a put has stored
\* a value that next_id has still to reach.
Used == {slot[i].v : i \in {j \in Index : slot[j].k # 0}}
CreatesFreshIds ==
  [][slot' # slot /\ (\E key \in Keys : GetOrCreate(key))
       => ret' \notin Used \/ reassigned]_vars

\* The table implements a map, whichever keys collide.
Stored == {slot[i].k : i \in Index} \ {0}
Contents == [key \in Stored |-> slot[CHOOSE i \in Index : slot[i].k = key].v]
Map == INSTANCE IdMap WITH Ids <- 0 .. IdMod - 1, map <- Contents
ImplementsMap == Map!Spec
IdMapKept == ImplementsMap /\ CreatesFreshIds

\* The inductive invariant behind it: no slot before a key, counted from its
\* hash, is free or holds the key too, and the ids in use are behind next_id.
Chained ==
  \A i, j \in Index :
    slot[i].k # 0 /\ Distance(j, slot[i].k) < Distance(i, slot[i].k) => slot[j].k \notin {0, slot[i].k}

UsedBehind == reassigned \/ \A i \in Index : slot[i].k # 0 => slot[i].v < next_id

IInv == TypeOK /\ HangsOnlyWhenAllUsed /\ Chained /\ UsedBehind
=============================================================================
