-------------------------------- MODULE Cpy --------------------------------
(***************************************************************************)
(* cpy (cutils/cpy/cpy.c): what a file, stdin or a command gives is copied *)
(* to the terminal's clipboard, as an OSC 52 sequence in base64.  Reads    *)
(* may be short and writes may be partial; one that is interrupted is      *)
(* repeated and changes nothing.  A byte is a number below 256, a base64   *)
(* digit a number below 64; the numbers behind stand for what else is      *)
(* written.                                                                *)
(***************************************************************************)
EXTENDS Integers, Sequences, FiniteSetsExt

CONSTANTS
  InMax,     \* CCP_IN_MAX
  Contents,  \* what there may be to read
  MaxChunk   \* bound: no read or write moves more than this at once

\* What the constants must satisfy; assumed where they get their values.
CpyAssumption ==
  InMax \in Nat \ {0} /\ MaxChunk \in Nat \ {0} /\ Contents \subseteq Seq(0 .. 255)

Newlines == {10, 13}
Pad == 64        \* the '=' of base64
Prefix == <<65>> \* CCP_PFX
Suffix == <<66>> \* CCP_SFX
Newline == 67    \* what -n asks for
Sources == {"file", "exec"}

VARIABLES
  stage,    \* read, check, wait, write, done, or died
  options,  \* source, keep, newline
  content,  \* what the source gives
  status,   \* how the command ends: whether it succeeds
  in,       \* what is in the input buffer
  out,      \* what is in the output buffer
  written   \* what has been written to stdout

vars == <<stage, options, content, status, in, out, written>>

Init ==
  /\ stage = "read" /\ in = <<>> /\ out = <<>> /\ written = <<>>
  /\ options \in [source : Sources, keep : BOOLEAN, newline : BOOLEAN]
  /\ content \in Contents
  /\ status \in BOOLEAN

-----------------------------------------------------------------------------
\* encode: groups of three bytes; what is missing of the last one counts as
\* zero and its digits are padding.
Digit(bytes, g, d) ==
  LET left  == Len(bytes) - 3 * g
      at(i) == IF i <= left THEN bytes[3 * g + i] ELSE 0
      bv    == 65536 * at(1) + 256 * at(2) + at(3)
  IN  CASE d = 0 -> bv \div 262144
        [] d = 1 -> (bv \div 4096) % 64
        [] d = 2 -> IF left > 1 THEN (bv \div 64) % 64 ELSE Pad
        [] d = 3 -> IF left > 2 THEN bv % 64 ELSE Pad

\* cute_b64_encoded_cap, and CCP_OUT_MAX.
EncodedCap(n) == ((n + 2) \div 3) * 4
OutMax == Len(Prefix) + EncodedCap(InMax) + 1

Encode(bytes) == [k \in 1 .. EncodedCap(Len(bytes)) |-> Digit(bytes, (k - 1) \div 4, (k - 1) % 4)]

\* cute_osc52_build
Osc52Build(bytes) == Prefix \o Encode(bytes) \o Suffix

\* cute_trim_eol
TrimEol(bytes) ==
  LET keep == {i \in DOMAIN bytes : bytes[i] \notin Newlines}
  IN  IF keep = {} THEN <<>> ELSE SubSeq(bytes, 1, Max(keep))

-----------------------------------------------------------------------------
Die == stage' = "died" /\ UNCHANGED <<options, content, status, in, out, written>>

\* How much is left to read.
Left == Len(content) - Len(in)

\* A read of read_fd: some of what is left, no more than fits; at the end, or
\* with a full buffer, the loop ends.
Read ==
  /\ stage = "read"
  /\ IF Len(in) < InMax /\ Left > 0
     THEN \E n \in 1 .. MaxChunk :
            /\ n <= Left /\ n <= InMax - Len(in)
            /\ in' = in \o SubSeq(content, Len(in) + 1, Len(in) + n) /\ stage' = stage
     ELSE stage' = "check" /\ in' = in
  /\ UNCHANGED <<options, content, status, out, written>>

\* Behind a full buffer read_fd looks for one more byte.
CheckEnd ==
  /\ stage = "check"
  /\ IF Len(in) = InMax /\ Left > 0 THEN Die
     ELSE /\ stage' = IF options.source = "exec" THEN "wait" ELSE "build"
          /\ UNCHANGED <<options, content, status, in, out, written>>

\* A read fails; behind a full buffer that counts as one more byte.
ReadFails == stage \in {"read", "check"} /\ Die

\* (Mutant of Wait: the status is not looked at.)
Wait_AnyStatus ==
  /\ stage = "wait" /\ stage' = "build"
  /\ UNCHANGED <<options, content, status, in, out, written>>

\* main waits for the command, and goes on only if it has succeeded.
Wait ==
  /\ stage = "wait"
  /\ IF status
     THEN stage' = "build" /\ UNCHANGED <<options, content, status, in, out, written>>
     ELSE Die

Build ==
  LET bytes == IF options.keep THEN in ELSE TrimEol(in) IN
  /\ stage = "build"
  /\ IF bytes = <<>> THEN Die
     ELSE /\ out' = Osc52Build(bytes) /\ stage' = "write"
          /\ UNCHANGED <<options, content, status, in, written>>

\* A write of write_all, in which some of the rest is written or it fails.
Write ==
  /\ stage = "write" /\ Len(written) < Len(out)
  /\ \/ \E n \in 1 .. MaxChunk :
          /\ n <= Len(out) - Len(written)
          /\ written' = written \o SubSeq(out, Len(written) + 1, Len(written) + n)
          /\ UNCHANGED <<stage, options, content, status, in, out>>
     \/ Die

\* The newline at the end is written once, and nobody looks whether it was.
End ==
  /\ stage = "write" /\ written = out
  /\ stage' = "done"
  /\ \/ written' = IF options.newline THEN Append(written, Newline) ELSE written
     \/ written' = written
  /\ UNCHANGED <<options, content, status, in, out>>

Next == Read \/ CheckEnd \/ ReadFails \/ Wait \/ Build \/ Write \/ End

Spec == Init /\ [][Next]_vars

-----------------------------------------------------------------------------
(* Properties                                                              *)

\* What a terminal makes of base64: each group of four digits is three bytes,
\* but for those that are padded.
Decode(digits) ==
  LET pads == Cardinality({i \in DOMAIN digits : digits[i] = Pad})
      at(i) == IF digits[i] = Pad THEN 0 ELSE digits[i]
      group(g) == 262144 * at(4 * g + 1) + 4096 * at(4 * g + 2) + 64 * at(4 * g + 3) + at(4 * g + 4)
  IN  [i \in 1 .. 3 * (Len(digits) \div 4) - pads |->
         LET n == group((i - 1) \div 3)
         IN  CASE (i - 1) % 3 = 0 -> n \div 65536
               [] (i - 1) % 3 = 1 -> (n \div 256) % 256
               [] (i - 1) % 3 = 2 -> n % 256]

\* The clipboard gets all of the input and nothing else: whatever the chunks it
\* was read and written in, cpy ends well only when the terminal has the whole
\* of it, and nothing is sent of an input that was too long, that could not be
\* read to its end, or whose command has failed.
Wanted == IF options.keep THEN content ELSE TrimEol(content)

ClipboardIsInput ==
  /\ written # <<>> =>
       /\ Len(content) <= InMax /\ (options.source = "exec" => status)
       /\ Len(out) <= OutMax
       /\ written \in {SubSeq(out, 1, n) : n \in 1 .. Len(out)} \cup {Append(out, Newline)}
  /\ stage \in {"write", "done"} =>
       /\ out[1] = Prefix[1] /\ out[Len(out)] = Suffix[1]
       /\ Decode(SubSeq(out, 2, Len(out) - 1)) = Wanted /\ Wanted # <<>>
  /\ stage = "done" => Len(written) >= Len(out)

TypeOK ==
  /\ stage \in {"read", "check", "wait", "build", "write", "done", "died"}
  /\ options \in [source : Sources, keep : BOOLEAN, newline : BOOLEAN]
  /\ content \in Contents /\ status \in BOOLEAN /\ in \in Seq(0 .. 255)
  /\ out \in Seq(0 .. Newline) /\ written \in Seq(0 .. Newline)

\* The inductive invariant behind it: what has been read, built and written.
InputRead ==
  /\ Len(in) <= InMax /\ Len(in) <= Len(content) /\ in = SubSeq(content, 1, Len(in))
  /\ stage = "check" => Len(in) = InMax \/ Left = 0
  /\ stage \in {"wait", "build", "write", "done"} => Left = 0

OutputBuilt ==
  /\ stage \in {"read", "check", "wait", "build"} => out = <<>>
  /\ stage = "build" /\ options.source = "exec" => status
  /\ stage \in {"write", "done"} => out # <<>>
  /\ out # <<>> =>
       /\ Left = 0 /\ (options.source = "exec" => status)
       /\ Wanted # <<>> /\ out = Osc52Build(Wanted)

OutputWritten ==
  \/ Len(written) <= Len(out) /\ written = SubSeq(out, 1, Len(written)) /\ (stage = "done" => written = out)
  \/ stage = "done" /\ written = Append(out, Newline)

IInv == TypeOK /\ InputRead /\ OutputBuilt /\ OutputWritten
=============================================================================
