----------------------------- MODULE TextTools -----------------------------
(***************************************************************************)
(* Four filters for the shell: ss (ss/src/main.c) takes a range of a text, *)
(* surround (surround.c) puts delimiters around a word, qw (qw.c and       *)
(* cute_str.c) quotes for the shell, fmb (fmb.c) writes sizes with a unit. *)
(* A text is a sequence of one-character strings.                          *)
(***************************************************************************)
EXTENDS Integers, Sequences, SequencesExt, FiniteSetsExt

CONSTANTS InputMax, IntMax, Letters

Decimals == <<"0", "1", "2", "3", "4", "5", "6", "7", "8", "9">>
ValueOf(t) == FoldLeft(LAMBDA n, c : 10 * n + (CHOOSE d \in 0 .. 9 : Decimals[d + 1] = c), 0, t)

\* What is read of an input.
Read(input) == SubSeq(input, 1, Min({InputMax, Len(input)}))

\* The text without the newlines at its end.
TrimEnd(t) == SubSeq(t, 1, Max({0} \cup {i \in DOMAIN t : t[i] # "\n"}))

-----------------------------------------------------------------------------
(* ss: "[start]..[[=]end]"                                                 *)

\* An int of the build, where it runs over.
AsInt(n) == ((n + IntMax + 1) % (2 * IntMax + 2)) - IntMax - 1

\* strtol: the number at the start of t, if there is one, and what follows it.
Strtol(t) ==
  LET from == IF t # <<>> /\ t[1] \in {"+", "-"} THEN 2 ELSE 1
      to == Max({from - 1} \cup {i \in from .. Len(t) : \A k \in from .. i : t[k] \in ToSet(Decimals)})
      n == ValueOf(SubSeq(t, from, to))
  IN  [found |-> to >= from, rest |-> SubSeq(t, to + 1, Len(t)),
       n |-> IF t # <<>> /\ t[1] = "-" THEN -n ELSE n]

\* (Mutant of Bound: from the last character instead of the end.)
Bound_FromLast(t, input_len, plus) ==
  LET negative == t # <<>> /\ t[1] = "-"
      v == Strtol(IF negative THEN Tail(t) ELSE t)
      at == IF negative THEN AsInt(input_len - 1 - AsInt(v.n + plus)) ELSE AsInt(v.n + plus)
  IN  [at |-> at, rest |-> v.rest,
       rc |-> IF ~v.found \/ v.n < 0 \/ v.n > IntMax THEN "syntax"
              ELSE IF negative /\ at < 0 THEN "bounds" ELSE "ok"]

\* One end of a range at the start of t, moved by plus; "-n" counts from the
\* end of the input.
Bound(t, input_len, plus) ==
  LET negative == t # <<>> /\ t[1] = "-"
      v == Strtol(IF negative THEN Tail(t) ELSE t)
      at == IF negative THEN AsInt(input_len - AsInt(v.n + plus)) ELSE AsInt(v.n + plus)
  IN  [at |-> at, rest |-> v.rest,
       rc |-> IF ~v.found \/ v.n < 0 \/ v.n > IntMax THEN "syntax"
              ELSE IF negative /\ at < 0 THEN "bounds" ELSE "ok"]

\* What is behind the dots; nothing at all is the whole input.
EndBound(behind, input_len) ==
  LET end_inclusive == IF behind # <<>> /\ behind[1] = "=" THEN 1 ELSE 0
      t == SubSeq(behind, end_inclusive + 1, Len(behind))
      Whole(end) == [end EXCEPT !.rc = IF end.rest # <<>> THEN "syntax" ELSE @]
  IN  IF t = <<>> THEN [at |-> input_len, rest |-> <<>>, rc |-> "ok"]
      ELSE Whole(Bound(t, input_len, end_inclusive))

\* The checks of both ends, in their order; at most the first that fails is told.
Checked(start, end, input_len) ==
  [left |-> start.at, right |-> end.at,
   rc |-> CASE start.rc # "ok" -> start.rc
            [] ~IsPrefix(<<".", ".">>, start.rest) -> "syntax"
            [] end.rc # "ok" -> end.rc
            [] start.at > end.at -> "order"
            [] start.at > input_len \/ end.at > input_len -> "bounds"
            [] OTHER -> "ok"]

ParseRange(r, input_len) ==
  LET Then(start) == Checked(start, EndBound(SubSeq(start.rest, 3, Len(start.rest)), input_len), input_len)
  IN  Then(IF r # <<>> /\ r[1] = "." THEN [at |-> 0, rest |-> r, rc |-> "ok"] ELSE Bound(r, input_len, 0))

\* What main prints: o.stdin, the input comes from there; o.keep, -k.
Ss(r, input, o) ==
  LET read == IF o.stdin THEN Read(input) ELSE input
      s == IF o.keep THEN read ELSE TrimEnd(read)
      Printed(range) ==
        [rc |-> range.rc,
         out |-> IF range.rc = "ok" THEN SubSeq(s, range.left + 1, range.right) ELSE <<>>]
  IN  Printed(ParseRange(r, Len(s)))

-----------------------------------------------------------------------------
(* surround                                                                *)

PairOpen == <<"(", "[", "{", "<">>
PairClose == <<")", "]", "}", ">">>

MatchClose(c) ==
  IF \E i \in 1 .. 4 : c \in {PairOpen[i], PairClose[i]}
  THEN LET i == CHOOSE i \in 1 .. 4 : c \in {PairOpen[i], PairClose[i]}
       IN  IF c = PairOpen[i] THEN PairClose[i] ELSE PairOpen[i]
  ELSE c

InWord(c, bigword) == IF bigword THEN c \notin {" ", "\t", "\n"} ELSE c \in Letters \cup {"_"}

\* The run of word characters around the cursor, which may be empty, gets the
\* character before it and its match behind it.
Surround(input, position, open_ch, bigword) ==
  LET line == TrimEnd(Read(input))
      cursor == Min({position, Len(line)})
      ws == Min({w \in 0 .. cursor : \A k \in w + 1 .. cursor : InWord(line[k], bigword)})
      we == Max({w \in cursor .. Len(line) : \A k \in cursor + 1 .. w : InWord(line[k], bigword)})
  IN  [out |-> SubSeq(line, 1, ws) \o <<open_ch>> \o SubSeq(line, ws + 1, we)
               \o <<MatchClose(open_ch)>> \o SubSeq(line, we + 1, Len(line)),
       new_cursor |-> ws + 1]

-----------------------------------------------------------------------------
(* qw: one quote at either end is taken for the user's own and dropped.     *)

Escaped(c) == IF c = "'" THEN <<"'", "\\", "'", "'">> ELSE <<c>>

StrLitquote(in) ==
  LET behind == IF in # <<>> /\ in[1] = "'" THEN Tail(in) ELSE in
      inner == IF behind # <<>> /\ Last(behind) = "'" THEN Front(behind) ELSE behind
  IN  <<"'">> \o FlattenSeq([i \in DOMAIN inner |-> Escaped(inner[i])]) \o <<"'">>

\* The variant for NUL-terminated strings looks one character ahead.
CstrLitquote(in) ==
  LET s == IF in # <<>> /\ in[1] = "'" THEN Tail(in) ELSE in
      rest[i \in 1 .. Len(s) + 1] ==
        IF i > Len(s) \/ (s[i] = "'" /\ i = Len(s)) THEN <<"'">> ELSE Escaped(s[i]) \o rest[i + 1]
  IN  <<"'">> \o rest[1]

\* main: the arguments, or without any the input less one newline.
Qw(args, input) ==
  LET in == Read(input)
  IN  CASE args # <<>> ->
             [rc |-> 0, out |-> FlattenSeq([i \in DOMAIN args |->
                (IF i > 1 THEN <<" ">> ELSE <<>>) \o CstrLitquote(args[i])])]
        [] args = <<>> /\ in = <<>> -> [rc |-> 1, out |-> <<>>]
        [] OTHER -> [rc |-> 0, out |-> StrLitquote(IF Last(in) = "\n" THEN Front(in) ELSE in)]

-----------------------------------------------------------------------------
(* fmb: bytes in the largest unit in which they are at least one.  A size is *)
(* [whole, frac, digits, unit]: frac is printed with so many digits.  The    *)
(* table of powers ends at 10^7.                                             *)

Units == 6

\* (Mutant of Rounded: cut off instead of rounded.)
Rounded_Down(scaled, base) == scaled \div base

\* One unit up, rounded.
Rounded(scaled, base) == (scaled + base \div 2) \div base

Fmb(bytes, precision, base) ==
  LET b10 == 10 ^ precision
      scaled[idx \in 0 .. Units] == IF idx = 0 THEN bytes * b10 ELSE Rounded(scaled[idx - 1], base)
      unit == Min({Units} \cup {idx \in 0 .. Units - 1 : scaled[idx] < base * b10})
      frac == scaled[unit] % b10
      digits == Min({d \in 0 .. precision : frac % 10 ^ (precision - d) = 0})
  IN  IF unit = 0 \/ precision = 0
      THEN [whole |-> scaled[unit] \div b10, frac |-> 0, digits |-> 0, unit |-> unit]
      ELSE [whole |-> scaled[unit] \div b10, frac |-> frac \div 10 ^ (precision - digits),
            digits |-> digits, unit |-> unit]

\* main: an argument that is no number is reported, and then printed as 0.
NoNumber == -1
FmbMain(nums, precision, decimal) ==
  [i \in DOMAIN nums |-> Fmb(IF nums[i] = NoNumber THEN 0 ELSE nums[i], precision,
                             IF decimal THEN 1000 ELSE 1024)]
=============================================================================
