------------------------------ MODULE HexText ------------------------------
(* Hexadecimal text as hex/lib.h, cuteid.h and uuid.cpp know it.  A text is a *)
(* sequence of one-character strings, a byte a number below 256.              *)
EXTENDS Naturals, Sequences, SequencesExt

Lower == <<"0", "1", "2", "3", "4", "5", "6", "7", "8", "9", "a", "b", "c", "d", "e", "f">>
Upper == [Lower EXCEPT ![11] = "A", ![12] = "B", ![13] = "C", ![14] = "D", ![15] = "E", ![16] = "F"]

IsDigit(c) == c \in ToSet(Lower) \cup ToSet(Upper)

\* hex_dec_tbl: what is no digit counts as zero.
DigitValue(c) ==
  IF IsDigit(c) THEN (CHOOSE i \in 1 .. 16 : c \in {Lower[i], Upper[i]}) - 1 ELSE 0

ByteOf(hi, lo) == 16 * DigitValue(hi) + DigitValue(lo)

\* The two digits of a byte.
Digits(table, b) == <<table[(b \div 16) + 1], table[(b % 16) + 1]>>
=============================================================================
