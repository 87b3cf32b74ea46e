----------------------------- MODULE WordTools -----------------------------
(***************************************************************************)
(* Arithmetic on words of W bits: the powers of two of p2above, p2below    *)
(* and nptwo, the tricks of the bitwise.c skeleton, the decimal text of    *)
(* intfuncs.c and int_conv.c, the base64 reader of codec.c, the fields of  *)
(* the ids of dot_examples/c/ids, and the heap of max_heap.h.  A word is a *)
(* number below 2^W, an int a number whose two's complement is one; ints   *)
(* run over as the build lets them.                                        *)
(***************************************************************************)
EXTENDS Integers, Sequences, SequencesExt, FiniteSetsExt, Bitwise

CONSTANTS W, NodeBits, SeqBits, Epoch

Word(n) == n % 2 ^ W
Signed(w) == IF w >= 2 ^ (W - 1) THEN w - 2 ^ W ELSE w
MinInt == -2 ^ (W - 1)
Shr(w, k) == w \div 2 ^ k

\* The operators of C on ints.
IntAnd(a, b) == Signed(Word(a) & Word(b))
IntXor(a, b) == Signed(Word(a) ^^ Word(b))
IntAdd(a, b) == Signed(Word(a + b))

-----------------------------------------------------------------------------
(* Powers of two                                                           *)

Clz(n) == Min({k \in 0 .. W : Shr(n, W - k) = 0 /\ (k = W \/ Shr(n, W - k - 1) # 0)})
Ctz(n) == Min({k \in 0 .. W : Shr(n, k) % 2 = 1})

\* (Mutant of P2above: the next power above n, though n may be one.)
P2above_Greater(n) ==
  LET bits == W - Clz(n)
  IN  IF n <= 1 THEN n ELSE IF bits >= W THEN 0 ELSE 2 ^ bits

P2above(n) ==
  LET bits == W - Clz(n - 1)
  IN  IF n <= 1 THEN n ELSE IF bits >= W THEN 0 ELSE 2 ^ bits

P2below(n) == IF n = 0 THEN 0 ELSE 2 ^ (W - 1 - Clz(n))

\* The two mains: with -e the exponent, unless there is none.
MainAbove(n, exponent) ==
  LET result == P2above(n)
  IN  IF exponent /\ result = 0 THEN [rc |-> 1, out |-> 0]
      ELSE [rc |-> 0, out |-> IF exponent THEN Ctz(result) ELSE result]
MainBelow(n, exponent) ==
  LET result == P2below(n)
  IN  IF exponent /\ n = 0 THEN [rc |-> 1, out |-> 0]
      ELSE [rc |-> 0, out |-> IF exponent THEN Ctz(result) ELSE result]

\* next_pow2_gt of bitwise.c and nptwo: the highest bit is copied to all below it.
Smeared(n) == FoldLeft(LAMBDA m, k : IF 2 ^ k < W THEN m | Shr(m, 2 ^ k) ELSE m, n, [i \in 1 .. W |-> i - 1])
NextPow2Gt(n) == IF n = 0 THEN 1 ELSE Word(Smeared(n - 1) + 1)

\* nptwo's main reads digits up to the first other character.
Nptwo(input) ==
  LET stop == Min({Len(input) + 1} \cup {i \in DOMAIN input : input[i] \notin 0 .. 9})
  IN  NextPow2Gt(FoldLeft(LAMBDA n, d : Word(10 * n + d), 0, SubSeq(input, 1, stop - 1)))

-----------------------------------------------------------------------------
(* bitwise.c                                                               *)

SafeAverage(a, b) == IntAnd(a, b) + (IntXor(a, b) \div 2)

Mask(n) == IF n < 0 THEN -1 ELSE 0
FastAbs(n) == IntXor(IntAdd(n, Mask(n)), Mask(n))

\* The function of this name, not the macro below it.
DidAddWrap(a, b) ==
  LET result == IntAdd(a, b)
  IN  [result |-> result, suc |-> ~(IntAnd(IntXor(a, result), IntXor(b, result)) < 0)]

\* What is at two places after swap_ints.
SwapInts(a, b) ==
  LET a1 == IntXor(a, b)  b1 == IntXor(b, a1) IN <<IntXor(a1, b1), b1>>

SignlessFlip(val) == IntAdd(IntXor(val, -1), 1)
HaveOppositeSigns(a, b) == IntXor(a, b) < 0
RemoveLowestSetBit(x) == IntAnd(x, IntAdd(x, -1))

\* For an int that is not negative.
Log2Floor(n) == Min({h \in 0 .. W : Shr(n, h + 1) = 0})

\* The most significant decimal digit and its place.
Msd(n) ==
  LET places == {p \in {10 ^ i : i \in 0 .. 9} : n >= p}
  IN  IF places = {} THEN [digit |-> 0, value |-> 0]
      ELSE [digit |-> n \div Max(places), value |-> Max(places)]

\* Comparison without regard to case of n characters, or up to the shorter end.
LowerCase(c) == IF c \in 65 .. 90 THEN c + 32 ELSE c
StreqI(a, b, len) ==
  LET other == {i \in 1 .. len : LowerCase(a[i]) # LowerCase(b[i])}
  IN  IF other = {} THEN 0 ELSE LowerCase(a[Min(other)]) - LowerCase(b[Min(other)])
CstreqI(a, b) == StreqI(a, b, Min({Len(a), Len(b)}))

-----------------------------------------------------------------------------
(* Decimal text, two digits at a time                                      *)

Pair(n) == <<n \div 10, n % 10>>

\* int_to_str puts the digits down in reverse and turns them round; a sign is -1.
IntToStr(num) ==
  LET reversed[n \in Nat] ==
        IF n >= 100 THEN Reverse(Pair(n % 100)) \o reversed[n \div 100]
        ELSE IF n >= 10 THEN Reverse(Pair(n)) ELSE <<n>>
  IN  (IF num < 0 THEN <<-1>> ELSE <<>>) \o Reverse(reversed[IF num < 0 THEN -num ELSE num])

\* gga_to_str_u32, _u64 and hx_u64_to_str put them down from the end.
ToStr[value \in Nat] ==
  IF value >= 100 THEN ToStr[value \div 100] \o Pair(value % 100)
  ELSE IF value >= 10 THEN Pair(value) ELSE <<value>>

\* gga_to_str_i32 negates the int itself; what the build makes of the least one
\* is the word that is meant.
ToStrSigned(value) == IF value < 0 THEN <<-1>> \o ToStr[Word(Signed(Word(-value)))] ELSE ToStr[value]

-----------------------------------------------------------------------------
(* codec.c: base64 digits are numbers below 64, 64 is the padding, 65 stands  *)
(* for any other character.                                                   *)

DecTbl(c) == CASE c < 64 -> c [] c = 64 -> 254 [] OTHER -> 255

Base64Decode(in) ==
  LET groups == Len(in) \div 4
      at(g, i) == DecTbl(in[4 * (g - 1) + i])
      bad(g) == \/ (at(g, 1) | at(g, 2) | at(g, 3) | at(g, 4)) = 255
                \/ at(g, 3) = 254 /\ at(g, 4) # 254
                \/ at(g, 1) = 254 \/ at(g, 2) = 254
                \/ at(g, 4) = 254 /\ g < groups
      v(g) == at(g, 1) * 262144 + at(g, 2) * 4096 + (at(g, 3) % 64) * 64 + (at(g, 4) % 64)
      bytes(g) == SubSeq(<<v(g) \div 65536, (v(g) \div 256) % 256, v(g) % 256>>, 1,
                         IF at(g, 3) = 254 THEN 1 ELSE IF at(g, 4) = 254 THEN 2 ELSE 3)
  IN  IF Len(in) % 4 # 0 \/ \E g \in 1 .. groups : bad(g) THEN [ok |-> FALSE, out |-> <<>>]
      ELSE [ok |-> TRUE, out |-> FlattenSeq([g \in 1 .. groups |-> bytes(g)])]

-----------------------------------------------------------------------------
(* dot_examples/c/ids                                                      *)

\* (Mutant of Compose: the node runs into the time.)
Compose_NoMask(ts, node_id, seq) ==
  Word((ts - Epoch) * 2 ^ (NodeBits + SeqBits) + node_id * 2 ^ SeqBits + (seq % 2 ^ SeqBits))

Compose(ts, node_id, seq) ==
  Word((ts - Epoch) * 2 ^ (NodeBits + SeqBits))
  + (node_id % 2 ^ NodeBits) * 2 ^ SeqBits + (seq % 2 ^ SeqBits)

ExtractParts(id) ==
  [ts |-> Shr(id, NodeBits + SeqBits) + Epoch,
   node_id |-> Shr(id, SeqBits) % 2 ^ NodeBits, seq |-> id % 2 ^ SeqBits]

\* main: set gives the fields that -t, -n and -s set.
Modify(target_id, set) ==
  LET parts == ExtractParts(target_id)
      Part(f) == IF f \in DOMAIN set THEN set[f] ELSE parts[f]
  IN  Compose(Part("ts"), Part("node_id"), Part("seq"))

-----------------------------------------------------------------------------
(* A heap in an array whose element 0 is a sentinel above all others, and   *)
(* the k-th largest of some numbers by it (max_heap.h).                      *)

\* (Mutant of UpTo: one level up only.)
UpTo_Once(heap, i) == IF heap[i \div 2] >= heap[i] THEN i ELSE i \div 2

\* The place to which sift_up moves what is at i: up while the parent is less.
UpTo(heap, i) ==
  LET up[k \in DOMAIN heap] == IF heap[k \div 2] >= heap[i] THEN k ELSE up[k \div 2]
  IN  up[i]

\* The places from i up to the one that k says, each child below its parent.
SiftUp(heap, i) ==
  LET to == UpTo(heap, i)
      path[k \in DOMAIN heap] == IF k = to THEN {k} ELSE {k} \cup path[k \div 2]
  IN  [k \in DOMAIN heap |-> CASE k = to -> heap[i]
                               [] k \in path[i] \ {to} -> heap[k \div 2]
                               [] OTHER -> heap[k]]

\* The larger child of i among the first n, the left one of two equal ones.
Larger(heap, n, i) ==
  IF 2 * i + 1 <= n /\ heap[2 * i + 1] > heap[2 * i] THEN 2 * i + 1 ELSE 2 * i

\* Down from i, where key was, while the larger child is more.
SiftDown(heap, n, i) ==
  LET key == heap[i]
      down[k \in 1 .. n + 1] ==
        IF 2 * k > n \/ heap[Larger(heap, n, k)] <= key THEN <<k>>
        ELSE <<k>> \o down[Larger(heap, n, k)]
      path == down[i]
  IN  [k \in DOMAIN heap |->
         IF \E j \in 1 .. Len(path) - 1 : path[j] = k
         THEN heap[path[(CHOOSE j \in 1 .. Len(path) - 1 : path[j] = k) + 1]]
         ELSE IF k = Last(path) THEN key ELSE heap[k]]

\* The heap of the first n numbers, as findKthLargest builds it.
Built(nums) ==
  LET heap[n \in 0 .. Len(nums)] ==
        IF n = 0 THEN [k \in 0 .. Len(nums) |-> IF k = 0 THEN -MinInt - 1 ELSE 0]
        ELSE SiftUp([heap[n - 1] EXCEPT ![n] = nums[n]], n)
  IN  heap[Len(nums)]

\* For 1 <= k <= Len(nums).
FindKthLargest(nums, k) ==
  LET heap[n \in 1 .. k] ==
        IF n = 1 THEN Built(nums)
        ELSE LET count == Len(nums) - (n - 1)
             IN  SiftDown([heap[n - 1] EXCEPT ![1] = heap[n - 1][count + 1]], count, 1)
  IN  heap[k][1]
=============================================================================
