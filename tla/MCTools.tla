------------------------------ MODULE MCTools ------------------------------
(***************************************************************************)
(* The filters of TextTools, the arithmetic and the heap of WordTools, and *)
(* the rate window, each on the inputs of a kind, and what must hold of    *)
(* every result.  MCPrograms runs them among the other converters.         *)
(***************************************************************************)
EXTENDS Integers, Sequences, SequencesExt, FiniteSetsExt

T == INSTANCE TextTools WITH InputMax <- 6, IntMax <- 31, Letters <- {"a", "b"}
B == INSTANCE WordTools WITH W <- 8, NodeBits <- 2, SeqBits <- 2, Epoch <- 3
V == INSTANCE MvpWindow WITH MaxBuckets <- 3, Span <- 4, WinSec <- 4, BucketSec <- 2

Size(n) == IF n < 0 THEN -n ELSE n
Total(s) == FoldLeft(LAMBDA n, x : n + x, 0, s)

-----------------------------------------------------------------------------
(* ss.  A side of a range is a text and what it says; 31 is the largest int, *)
(* 99 is too large for one.                                                  *)

Text(n) == [i \in DOMAIN B!ToStr[n] |-> T!Decimals[B!ToStr[n][i] + 1]]
Absent == [text |-> <<>>, sign |-> 0, n |-> 0, good |-> TRUE]
Sides ==
  {Absent, [text |-> <<"+", "1">>, sign |-> 1, n |-> 1, good |-> TRUE],
   [text |-> <<"-">>, sign |-> -1, n |-> 0, good |-> FALSE],
   [text |-> <<"-", "-", "1">>, sign |-> -1, n |-> 1, good |-> FALSE]}
  \cup {[text |-> (IF s < 0 THEN <<"-">> ELSE <<>>) \o Text(n), sign |-> s, n |-> n, good |-> n # 99] :
          n \in {0, 1, 2, 3, 5, 31, 99}, s \in {-1, 1}}

RangeJobs ==
  [kind : {"range"}, lo : Sides, dots : {0, 1, 2, 3}, incl : BOOLEAN, hi : Sides,
   from : {<<>>, <<"a", "\n">>, <<"a", "b", "\n", "c", "d">>}, keep : {FALSE}, stdin : {FALSE}]
  \cup [kind : {"range"}, lo : {Absent}, dots : {2}, incl : BOOLEAN, hi : Sides,
        from : {<<"a", "b", "\n">>, <<"a", "b", "c", "d", "e", "\n", "f">>}, keep : BOOLEAN, stdin : BOOLEAN]

RangeOutcome(j) ==
  T!Ss(j.lo.text \o [i \in 1 .. j.dots |-> "."] \o (IF j.incl THEN <<"=">> ELSE <<>>) \o j.hi.text, j.from, [stdin |-> j.stdin, keep |-> j.keep])

\* What is to be cut.
Sliced(j) ==
  LET read == IF j.stdin THEN T!Read(j.from) ELSE j.from
  IN  IF j.keep THEN read ELSE T!TrimEnd(read)

\* A range is taken exactly when it is written as one and lies in the input,
\* and then just what it says is printed.  Of a negative end that is to be
\* included it is only said that what is printed begins where the range does.
RangeTaken(j, r) ==
  LET s == Sliced(j)
      more == IF j.incl THEN 1 ELSE 0
      counted == j.incl /\ j.hi.sign < 0
      left == IF j.lo.sign < 0 THEN Len(s) - j.lo.n ELSE j.lo.n
      right == CASE j.hi = Absent -> Len(s)
                 [] j.hi.sign > 0 -> j.hi.n + more
                 [] j.hi.sign < 0 -> Len(s) - j.hi.n
                 [] OTHER -> -1
      written == j.lo.good /\ j.hi.good /\ j.dots = 2 /\ 0 <= left /\ left <= Len(s)
  IN  /\ r.rc = "ok" => written
      /\ ~counted => /\ r.rc = "ok" <=> (written /\ left <= right /\ right <= Len(s))
                     /\ r.rc = "ok" => r.out = SubSeq(s, left + 1, right)
      /\ counted /\ r.rc = "ok" => IsPrefix(r.out, SubSeq(s, left + 1, Len(s)))

\* What the README says of such an end: "-n" is the n-th character from the end,
\* and with "=" the range includes it.
NegativeEndIncluded(j, r) ==
  LET s == Sliced(j)
      last == Len(s) - j.hi.n + 1
  IN  /\ j.lo = Absent /\ j.dots = 2 /\ j.incl
      /\ j.hi.good /\ j.hi.sign < 0 /\ j.hi.n \in 1 .. Len(s)
      => r = [rc |-> "ok", out |-> SubSeq(s, 1, last)]

-----------------------------------------------------------------------------
(* surround                                                                *)

WrapJobs ==
  [kind : {"wrap"}, line : SeqOf({"a", "-", " ", "\n"}, 4) \cup {<<"a", "b", "a", "b", "a", "b", "a">>},
   position : {0, 1, 2, 5, 7}, ch : {"(", "}", "'"}, bigword : BOOLEAN]

WrapOutcome(j) ==
  LET once == T!Surround(j.line, j.position, j.ch, j.bigword)
  IN  [once |-> once, twice |-> T!Surround(once.out, once.new_cursor, j.ch, j.bigword)]

\* Without the two characters the line is as it was; they stand around all of
\* the word at the cursor, and the cursor that is printed is in that word, so
\* that the next one goes inside, unless the first is now part of the word.
WordWrapped(j, r) ==
  LET line == T!TrimEnd(T!Read(j.line))
      cursor == IF j.position < Len(line) THEN j.position ELSE Len(line)
      out == r.once.out
      at == r.once.new_cursor
      In(c) == T!InWord(c, j.bigword)
  IN  /\ out[at] = j.ch
      /\ \E e \in at + 1 .. Len(out) :
           /\ out[e] = T!MatchClose(j.ch)
           /\ SubSeq(out, 1, at - 1) \o SubSeq(out, at + 1, e - 1) \o SubSeq(out, e + 1, Len(out)) = line
           /\ at - 1 <= cursor /\ cursor <= e - 2
           /\ \A k \in at + 1 .. e - 1 : In(out[k])
           /\ at > 1 => ~In(out[at - 1])
           /\ e < Len(out) => ~In(out[e + 1])
      /\ Len(out) <= 6 =>
           r.twice.new_cursor = IF j.bigword THEN at ELSE at + 1

-----------------------------------------------------------------------------
(* qw                                                                      *)

QuoteTexts == SeqOf({"a", "'", " ", "\n"}, 4)
QuoteJobs ==
  [kind : {"quote"}, args : {<<a>> : a \in QuoteTexts} \cup SeqOf({<<>>, <<"'">>, <<"a", "'", "a">>}, 3),
   typed : {<<>>}]
  \cup [kind : {"quote"}, args : {<<>>}, typed : QuoteTexts]

\* The words that a shell makes of a text.
ShellWords(text) ==
  LET Read(s, c) ==
        CASE s.mode = "quoted" /\ c = "'" -> [s EXCEPT !.mode = "word"]
          [] s.mode = "escape" -> [s EXCEPT !.mode = "word", !.word = Append(@, c)]
          [] s.mode = "quoted" -> [s EXCEPT !.word = Append(@, c)]
          [] c = "'" -> [s EXCEPT !.mode = "quoted"]
          [] c = "\\" -> [s EXCEPT !.mode = "escape"]
          [] c \in {" ", "\n"} /\ s.mode = "word" ->
               [mode |-> "blank", word |-> <<>>, words |-> Append(s.words, s.word)]
          [] c \in {" ", "\n"} -> s
          [] OTHER -> [s EXCEPT !.mode = "word", !.word = Append(@, c)]
      end == FoldLeft(Read, [mode |-> "blank", word |-> <<>>, words |-> <<>>], Append(text, "\n"))
  IN  end.words

\* A quote at either end of an argument is dropped.
Unquoted(a) ==
  LET b == IF a # <<>> /\ a[1] = "'" THEN Tail(a) ELSE a
  IN  IF b # <<>> /\ Last(b) = "'" THEN Front(b) ELSE b

\* A shell reads back what was given, word for word, and the variants for
\* lengths and for NUL-terminated strings write the same.
QuotesSurvive(j, r) ==
  /\ r.rc = 0 <=> (j.args # <<>> \/ j.typed # <<>>)
  /\ r.rc = 0 /\ j.args # <<>> =>
       /\ ShellWords(r.out) = [i \in DOMAIN j.args |-> Unquoted(j.args[i])]
       /\ r.out = FlattenSeq([i \in DOMAIN j.args |->
                    (IF i = 1 THEN <<>> ELSE <<" ">>) \o T!StrLitquote(j.args[i])])
  /\ r.rc = 0 /\ j.args = <<>> =>
       ShellWords(r.out) = <<Unquoted(IF Last(j.typed) = "\n" THEN Front(j.typed) ELSE j.typed)>>

-----------------------------------------------------------------------------
(* fmb                                                                     *)

SizeJobs ==
  [kind : {"size"}, precision : 0 .. 3, decimal : BOOLEAN,
   nums : {<<T!NoNumber, 5>>} \cup
          {<<n>> : n \in {0, 1, 511, 999, 1000, 1001, 1023, 1024, 1025, 1029, 1535, 1536, 10239, 999499,
                          999500, 999999, 1000000, 1023999, 1048063, 1048064, 1048575, 1048576, 1999999}}]

\* What is printed is off by no more than the roundings of its units; it is
\* below a whole next unit, not below one of its own, and has no 0 at its end.
SizeShown(j, r) ==
  \A i \in DOMAIN j.nums :
    LET base == IF j.decimal THEN 1000 ELSE 1024
        bytes == IF j.nums[i] = T!NoNumber THEN 0 ELSE j.nums[i]
        s == r[i]
        scaled == s.whole * 10 ^ j.precision + s.frac * 10 ^ (j.precision - s.digits)
    IN  /\ Size(scaled * base ^ s.unit - bytes * 10 ^ j.precision)
             <= Total([k \in 1 .. s.unit |-> base ^ k]) \div 2
        /\ s.whole < base
        /\ s.unit > 0 => s.whole >= 1
        /\ s.digits = 0 => s.frac = 0
        /\ s.digits > 0 => s.frac % 10 # 0 /\ s.frac < 10 ^ s.digits
        /\ s.unit = 0 => s.whole = bytes

-----------------------------------------------------------------------------
(* Powers of two                                                           *)

PowerJobs == [kind : {"power"}, n : 0 .. 255]
PowerOutcome(j) ==
  [above |-> B!MainAbove(j.n, FALSE), aboveExp |-> B!MainAbove(j.n, TRUE),
   below |-> B!MainBelow(j.n, FALSE), belowExp |-> B!MainBelow(j.n, TRUE),
   next |-> B!NextPow2Gt(j.n), nptwo |-> B!Nptwo(Append(B!ToStr[j.n], 10))]

\* The nearest power of two from either side, none where there is none in a
\* word, for which p2above, next_pow2_gt and nptwo answer 0; -e tells its exponent.
PowersFound(j, r) ==
  LET Powers == {2 ^ i : i \in 0 .. 7}
      above == {p \in Powers : p >= j.n}
      below == {p \in Powers : p <= j.n}
      Exponent(e, found) == e.rc = (IF found = 0 THEN 1 ELSE 0) /\ (found # 0 => 2 ^ e.out = found)
  IN  /\ r.above = [rc |-> 0, out |-> IF j.n = 0 \/ above = {} THEN 0 ELSE Min(above)]
      /\ r.below = [rc |-> 0, out |-> IF below = {} THEN 0 ELSE Max(below)]
      /\ Exponent(r.aboveExp, r.above.out) /\ Exponent(r.belowExp, r.below.out)
      /\ r.next = IF above = {} THEN 0 ELSE Min(above)
      /\ r.nptwo = r.next

-----------------------------------------------------------------------------
(* Decimal text                                                            *)

DecimalJobs == [kind : {"decimal"}, value : -128 .. 130 \cup {199, 200, 999, 1000, 1009, 9999, 10000, 65535, 100100}]
DecimalOutcome(j) ==
  [reversed |-> B!IntToStr(j.value), fromEnd |-> B!ToStrSigned(j.value)]

\* Both ways of writing a number write the same, and it reads as the number;
\* it begins with no 0 but its own.
DecimalsRead(j, r) ==
  LET digits == IF j.value < 0 THEN Tail(r.reversed) ELSE r.reversed
  IN  /\ r.reversed = r.fromEnd
      /\ (r.reversed[1] = -1) <=> (j.value < 0)
      /\ ToSet(digits) \subseteq 0 .. 9
      /\ FoldLeft(LAMBDA n, d : 10 * n + d, 0, digits) = Size(j.value)
      /\ digits[1] = 0 => j.value = 0 /\ Len(digits) = 1

-----------------------------------------------------------------------------
(* bitwise.c, with ints from -128 to 127                                   *)

Ints == {-128, -127, -64, -2, -1, 0, 1, 2, 63, 64, 126, 127}
BitJobs == [kind : {"bits"}, a : Ints, b : Ints]
BitOutcome(j) ==
  [average |-> B!SafeAverage(j.a, j.b), abs |-> B!FastAbs(j.a), sum |-> B!DidAddWrap(j.a, j.b),
   swapped |-> B!SwapInts(j.a, j.b), flipped |-> B!SignlessFlip(j.a),
   opposite |-> B!HaveOppositeSigns(j.a, j.b), rest |-> B!RemoveLowestSetBit(j.a)]

\* The tricks compute what they are named for, of every int that has an opposite
\* its opposite.
BitsTricked(j, r) ==
  LET fits == j.a + j.b \in -128 .. 127
      low == CHOOSE p \in {0} \cup {2 ^ i : i \in 0 .. 7} :
               IF j.a = 0 THEN p = 0 ELSE p > 0 /\ j.a % p = 0 /\ (j.a \div p) % 2 = 1
  IN  /\ r.average = (j.a + j.b) \div 2
      /\ j.a # -128 => r.abs = Size(j.a) /\ r.flipped = -j.a
      /\ r.sum.suc <=> fits
      /\ fits => r.sum.result = j.a + j.b
      /\ r.swapped = <<j.b, j.a>>
      /\ r.opposite <=> ((j.a < 0) # (j.b < 0))
      /\ B!Word(r.rest) = B!Word(j.a) - low

NumeralJobs == [kind : {"numeral"}, natural : 0 .. 127 \cup {999, 1000, 54321}]
NumeralOutcome(j) ==
  [msd |-> B!Msd(j.natural), log2 |-> IF j.natural < 128 THEN B!Log2Floor(j.natural) ELSE 0]
NumeralRight(j, r) ==
  /\ j.natural > 0 => /\ r.msd.digit = B!IntToStr(j.natural)[1]
                      /\ r.msd.value = 10 ^ (Len(B!IntToStr(j.natural)) - 1)
  /\ j.natural \in 1 .. 127 => 2 ^ r.log2 <= j.natural /\ j.natural < 2 ^ (r.log2 + 1)
  /\ j.natural = 0 => r.log2 = 0 /\ r.msd = [digit |-> 0, value |-> 0]

\* A, a, B, Z and what stands behind Z.
CaseTexts == SeqOf({65, 97, 66, 90, 91}, 2)
CaseJobs == [kind : {"case"}, left : CaseTexts, right : CaseTexts]

\* Equal texts, but for the case of letters, are equal for cstreq_i, others only
\* when one begins with the other; they are ordered as their first difference is.
CasesIgnored(j, r) ==
  LET Lower(t) == [i \in DOMAIN t |-> IF t[i] \in 65 .. 90 THEN t[i] + 32 ELSE t[i]]
      x == Lower(j.left)  y == Lower(j.right)
  IN  /\ x = y => r.lr = 0
      /\ r.lr = 0 => IsPrefix(x, y) \/ IsPrefix(y, x)
      /\ r.rl = -r.lr
      /\ r.lr < 0 <=> \E n \in DOMAIN x \cap DOMAIN y :
                        SubSeq(x, 1, n - 1) = SubSeq(y, 1, n - 1) /\ x[n] < y[n]

-----------------------------------------------------------------------------
(* The fields of an id                                                     *)

Parts(ts, n, s) == [ts |-> ts, node_id |-> n, seq |-> s]
Settings == UNION {[fs -> {4, 5}] : fs \in SUBSET {"ts", "node_id", "seq"}}
IdJobs == [kind : {"id"}, ts : {3, 4, 17, 18}, node_id : 0 .. 5, seq : 0 .. 5, set : Settings]
IdOutcome(j) ==
  LET id == B!Compose(j.ts, j.node_id, j.seq)
  IN  [id |-> id, parts |-> B!ExtractParts(id), modified |-> B!Modify(id, j.set),
       later |-> B!Compose(j.ts + 1, 0, 0)]

\* An id tells its time, and of node and sequence what of them there is room
\* for; a later time makes a larger id while times last; to change some fields
\* leaves the others.
IdTaken(j, r) ==
  LET Set(f, n) == IF f \in DOMAIN j.set THEN j.set[f] ELSE n
      node == j.node_id % 4  seq == j.seq % 4
  IN  /\ r.parts = Parts(j.ts, node, seq)
      /\ B!ExtractParts(r.modified) =
           Parts(Set("ts", j.ts), Set("node_id", node) % 4, Set("seq", seq) % 4)
      /\ j.ts < 18 => r.id < r.later

-----------------------------------------------------------------------------
(* findKthLargest                                                          *)

HeapJobs == UNION {[kind : {"heap"}, numbers : {s}, k : DOMAIN s] : s \in SeqOf({-1, 0, 2}, 5)}

\* Fewer than k are larger, and k are at least as large.
KthFound(j, r) ==
  /\ r \in ToSet(j.numbers)
  /\ Cardinality({i \in DOMAIN j.numbers : j.numbers[i] > r}) < j.k
  /\ j.k <= Cardinality({i \in DOMAIN j.numbers : j.numbers[i] >= r})

-----------------------------------------------------------------------------
(* The rate window.  The i-th of the bytes arrives so long after the one     *)
(* before, and they are 2^i.                                                 *)

WindowJobs == [kind : {"window"}, first : {1, 4, 5, 30}, gaps : SeqOf({0, 1, 2, 5, 9}, 4)]

Times(j) == [i \in 1 .. Len(j.gaps) + 1 |-> j.first + Total(SubSeq(j.gaps, 1, i - 1))]
WindowOutcome(j) ==
  LET at == Times(j)
      w[i \in 0 .. Len(at)] == IF i = 0 THEN V!Window ELSE V!Add(w[i - 1], at[i], 2 ^ i)
  IN  [i \in DOMAIN at |-> w[i]]

Held(w) == MapThenSumSet(LAMBDA b : w.buckets[b].bytes, DOMAIN w.buckets)

\* So many buckets are in use as the window counts.
Counted(w) == w.count = Cardinality({b \in DOMAIN w.buckets : w.buckets[b].t_end # 0})

\* The total holds the bytes of the last Span and no byte that never came.  While
\* the count is right it is the sum of the buckets, and all of them are of the
\* last Span and the bucket before; a rate over less than the whole window is of
\* just the bytes that came in its seconds.
WindowExplained(j, r) ==
  LET at == Times(j)
      Since(i, t) == Total([k \in 1 .. i |-> IF at[k] >= t THEN 2 ^ k ELSE 0])
  IN  \A i \in DOMAIN at :
        /\ Since(i, at[i] - 4) <= r[i].bytes_total /\ r[i].bytes_total <= Since(i, 0)
        /\ (\A k \in 1 .. i : Counted(r[k])) =>
             LET rate == V!Rate(r[i], at[i])
             IN  /\ r[i].bytes_total = Held(r[i]) /\ r[i].bytes_total <= Since(i, at[i] - 6)
                 /\ 0 < rate.bytes /\ rate.seconds < 4 => rate.bytes = Since(i, at[i] - rate.seconds)

-----------------------------------------------------------------------------
ToolKinds ==
  {"range", "wrap", "quote", "size", "power", "decimal", "bits", "numeral", "case", "id", "heap", "window"}
ToolJobs ==
  RangeJobs \cup WrapJobs \cup QuoteJobs \cup SizeJobs \cup PowerJobs \cup DecimalJobs \cup BitJobs
  \cup NumeralJobs \cup CaseJobs \cup IdJobs \cup HeapJobs \cup WindowJobs

ToolOutcome(j) ==
  CASE j.kind = "range" -> RangeOutcome(j)
    [] j.kind = "wrap" -> WrapOutcome(j)
    [] j.kind = "quote" -> T!Qw(j.args, j.typed)
    [] j.kind = "size" -> T!FmbMain(j.nums, j.precision, j.decimal)
    [] j.kind = "power" -> PowerOutcome(j)
    [] j.kind = "decimal" -> DecimalOutcome(j)
    [] j.kind = "bits" -> BitOutcome(j)
    [] j.kind = "numeral" -> NumeralOutcome(j)
    [] j.kind = "case" -> [lr |-> B!CstreqI(j.left, j.right), rl |-> B!CstreqI(j.right, j.left)]
    [] j.kind = "id" -> IdOutcome(j)
    [] j.kind = "heap" -> B!FindKthLargest(j.numbers, j.k)
    [] j.kind = "window" -> WindowOutcome(j)

ToolRight(j, r) ==
  CASE j.kind = "range" -> RangeTaken(j, r)
    [] j.kind = "wrap" -> WordWrapped(j, r)
    [] j.kind = "quote" -> QuotesSurvive(j, r)
    [] j.kind = "size" -> SizeShown(j, r)
    [] j.kind = "power" -> PowersFound(j, r)
    [] j.kind = "decimal" -> DecimalsRead(j, r)
    [] j.kind = "bits" -> BitsTricked(j, r)
    [] j.kind = "numeral" -> NumeralRight(j, r)
    [] j.kind = "case" -> CasesIgnored(j, r)
    [] j.kind = "id" -> IdTaken(j, r)
    [] j.kind = "heap" -> KthFound(j, r)
    [] j.kind = "window" -> WindowExplained(j, r)
=============================================================================
