------------------------------- MODULE IdMap -------------------------------
(***************************************************************************)
(* What a map from keys to ids promises: get returns what was stored last  *)
(* or the value for 'not found', get_or_create stores an id for a key that *)
(* has none, or reports that the map is full and changes nothing.          *)
(***************************************************************************)
EXTENDS Naturals

CONSTANTS Keys, Ids, NotFound

VARIABLES map, ret    \* the map; what the last call returned

Init == map = [k \in {} |-> NotFound] /\ ret = NotFound

With(k, id) == [x \in DOMAIN map \cup {k} |-> IF x = k THEN id ELSE map[x]]
Found(k) == IF k \in DOMAIN map THEN map[k] ELSE NotFound

Get(k) == ret' = Found(k) /\ UNCHANGED map

GetOrCreate(k) ==
  IF k \in DOMAIN map THEN ret' = map[k] /\ UNCHANGED map
  ELSE \/ ret' \in Ids /\ map' = With(k, ret')
       \/ ret' = NotFound /\ UNCHANGED map

Put(k) == ret' = 1 /\ \E id \in Ids : map' = With(k, id)

Next == \E k \in Keys : Get(k) \/ GetOrCreate(k) \/ Put(k)

Spec == Init /\ [][Next]_<<map, ret>>
=============================================================================
