-------------------------------- MODULE Uuid --------------------------------
(***************************************************************************)
(* The uuid type of nvim/skeletons/uuid.cpp: sixteen bytes that are kept   *)
(* as two words, each the sequence of its bytes in memory.                 *)
(***************************************************************************)
EXTENDS HexText

FromBytes(bytes) == [hi |-> SubSeq(bytes, 1, 8), lo |-> SubSeq(bytes, 9, 16)]
ToBytes(u) == u.hi \o u.lo

\* (Mutant of WriteString: the bytes of the second word first.)
WriteString_LowFirst(u) ==
  FlattenSeq([i \in 1 .. 16 |->
    (IF i - 1 \in {4, 6, 8, 10} THEN <<"-">> ELSE <<>>) \o Digits(Lower, (u.lo \o u.hi)[i])])

WriteString(u) ==
  FlattenSeq([i \in 1 .. 16 |->
    (IF i - 1 \in {4, 6, 8, 10} THEN <<"-">> ELSE <<>>) \o Digits(Lower, ToBytes(u)[i])])

Equal(u, v) == u.hi = v.hi /\ u.lo = v.lo

\* Two words compared as numbers: the last byte in memory counts most.
Below(v, w) == \E i \in 1 .. 8 : v[i] < w[i] /\ \A j \in i + 1 .. 8 : v[j] = w[j]

Less(u, v) == Below(u.hi, v.hi) \/ (u.hi = v.hi /\ Below(u.lo, v.lo))

\* to_u128: the halves are joined by a logical 'or'.
ToU128(u) == IF ToSet(u.hi) \cup ToSet(u.lo) = {0} THEN 0 ELSE 1

\* from_u128, of a number below 256.
FromU128(n) == [hi |-> [i \in 1 .. 8 |-> 0], lo |-> [i \in 1 .. 8 |-> IF i = 1 THEN n ELSE 0]]

Hash(u) == u.lo

NoUuid == [ok |-> FALSE, bytes |-> <<>>]

\* uuid_from_string: what follows the sixteenth byte is not looked at.
UuidFromString(s) ==
  LET rest[i \in 1 .. Len(s) + 2, n \in 0 .. 16] ==   \* n bytes are still missing
        IF n = 0 THEN [ok |-> TRUE, bytes |-> <<>>]
        ELSE IF i > Len(s) THEN NoUuid
        ELSE IF s[i] = "-" THEN rest[i + 1, n]
        ELSE IF i = Len(s) \/ ~IsDigit(s[i]) \/ ~IsDigit(s[i + 1]) THEN NoUuid
        ELSE [rest[i + 2, n - 1] EXCEPT !.bytes = <<ByteOf(s[i], s[i + 1])>> \o @]
  IN  rest[1, 16]
=============================================================================
