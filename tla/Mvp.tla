-------------------------------- MODULE Mvp --------------------------------
(***************************************************************************)
(* The pipe viewer (cutils/mpv/main.c): one process that moves bytes from  *)
(* an input pipe or socket (ifd) to an output (ofd) through an internal    *)
(* non-blocking pipe, with splice(2), driven by epoll.                     *)
(*                                                                         *)
(* A step of the pump is one system call together with the bookkeeping     *)
(* that follows it; between two of them the writer of the input, the       *)
(* reader of the output, and the hangups of either interleave freely.      *)
(* Every pipe preserves the order of its bytes, so a pipe is represented   *)
(* by the number of bytes it holds.                                        *)
(***************************************************************************)
EXTENDS Integers

CONSTANTS
  MaxBytes,   \* bound: the bytes the writer writes at most
  SrcCap,     \* capacity of the input pipe or socket buffer
  PipeCap,    \* capacity of the internal pipe; F_SETPIPE_SZ may have failed
  SoftCap,    \* PIPE_SOFT_CAP
  Chunk,      \* SPLICE_CHUNK
  SnkCap      \* capacity of the output, when it is a pipe

ASSUME MvpAssumption ==
  /\ MaxBytes \in Nat
  /\ SrcCap \in Nat \ {0}
  /\ PipeCap \in Nat \ {0}
  /\ SoftCap \in Nat \ {0}
  /\ Chunk \in Nat \ {0}
  /\ SnkCap \in Nat \ {0}

VARIABLES
  \* the two files the program is started on
  srcHup,         \* TRUE: the input reports EPOLLHUP when its last writer is
                  \* gone (a FIFO, a Unix socket); FALSE: it only becomes
                  \* readable (a TCP socket whose peer has shut down its side)
  sinkPolls,      \* TRUE: epoll accepts the output (a pipe); FALSE: EPERM, it
                  \* is a regular file, which never fills or hangs up
  broken,         \* of "ifd" and "ofd", those whose next system call may fail
                  \* with an error of its own (EIO, ENOSPC, ECONNRESET)
  \* the world outside the pump
  written,        \* bytes the writer has written so far
  srcOpen,        \* the input still has a writer
  src,            \* bytes waiting in the input
  snk,            \* bytes waiting in the output
  snkOpen,        \* the output still has a reader
  received,       \* bytes the reader has taken out of the output
  inner,          \* bytes the kernel holds in the internal pipe
  interest,       \* EPOLLOUT is in the kernel's event mask of ofd
  \* ctx_t and main_loop's locals
  pending,        \* ctx->pending
  want_epollout,  \* ctx->want_epollout
  eof_in,         \* ctx->eof_in
  total,          \* ctx->prog.bytes_total
  finito,         \* main_loop's loop condition
  evs,            \* the events epoll_wait returned and the loop has not yet seen
  pc              \* where the pump is

files == <<srcHup, sinkPolls, broken>>
world == <<files, written, srcOpen, src, snk, snkOpen, received>>
ctx == <<pending, want_epollout, eof_in, total, finito, evs, pc>>
vars == <<srcHup, sinkPolls, broken, written, srcOpen, src, snk, snkOpen,
          received, inner, interest, pending, want_epollout, eof_in, total,
          finito, evs, pc>>

Stopped == {"exited", "died"}
PcSet == {"wait", "events", "in", "out", "drain", "tail"} \cup Stopped
Flags == {"IN", "OUT", "HUP", "ERR"}
NoEvents == [ifd |-> {}, ofd |-> {}]

\* A pipe holds SnkCap bytes; a regular file takes whatever comes.
SinkFull == sinkPolls /\ snk = SnkCap

Init ==
  /\ srcHup \in BOOLEAN /\ sinkPolls \in BOOLEAN /\ broken = {}
  /\ written = 0 /\ srcOpen = TRUE /\ src = 0
  /\ snk = 0 /\ snkOpen = TRUE /\ received = 0
  /\ inner = 0 /\ interest = FALSE
  /\ pending = 0 /\ want_epollout = FALSE /\ eof_in = FALSE
  /\ total = 0 /\ finito = FALSE
  /\ evs = NoEvents /\ pc = "wait"

-----------------------------------------------------------------------------
(* The writer of ifd, the reader of ofd, and the devices behind both.      *)

Write(n) ==
  /\ pc \notin Stopped /\ srcOpen
  /\ src + n <= SrcCap /\ written + n <= MaxBytes
  /\ src' = src + n /\ written' = written + n
  /\ UNCHANGED <<files, srcOpen, snk, snkOpen, received, inner, interest, ctx>>

CloseWriter ==
  /\ srcOpen /\ srcOpen' = FALSE
  /\ UNCHANGED <<files, written, src, snk, snkOpen, received, inner, interest, ctx>>

Read(n) ==
  /\ sinkPolls /\ snkOpen /\ n <= snk
  /\ snk' = snk - n /\ received' = received + n
  /\ UNCHANGED <<files, written, srcOpen, src, snkOpen, inner, interest, ctx>>

CloseReader ==
  /\ sinkPolls /\ snkOpen /\ snkOpen' = FALSE
  /\ UNCHANGED <<files, written, srcOpen, src, snk, received, inner, interest, ctx>>

\* A device fills up or fails, a connection is reset: system calls on f may
\* fail from here on, and may as well go on working.
Breaks(f) ==
  /\ pc \notin Stopped /\ broken' = broken \cup {f}
  /\ UNCHANGED <<srcHup, sinkPolls, written, srcOpen, src, snk, snkOpen,
                 received, inner, interest, ctx>>

-----------------------------------------------------------------------------
(* epoll                                                                   *)

\* What epoll reports of ifd, registered for EPOLLIN | EPOLLERR | EPOLLHUP.
InFlags ==
  (IF src > 0 \/ (~srcOpen /\ ~srcHup) THEN {"IN"} ELSE {})
    \cup (IF ~srcOpen /\ srcHup THEN {"HUP"} ELSE {})

\* What epoll reports of ofd: errors whatever its mask, EPOLLOUT if armed.
OutFlags ==
  IF ~sinkPolls THEN {}
  ELSE (IF interest /\ ~SinkFull THEN {"OUT"} ELSE {})
         \cup (IF ~snkOpen THEN {"ERR"} ELSE {})

\* The same for a file that may be broken: any of the error itself, and of a
\* readable input (reading would return the error).
InReports ==
  IF "ifd" \in broken THEN {InFlags \cup more : more \in SUBSET {"IN", "ERR"}}
  ELSE {InFlags}
OutReports ==
  IF "ofd" \in broken /\ sinkPolls THEN {OutFlags, OutFlags \cup {"ERR"}}
  ELSE {OutFlags}


\* ctx_update_epollout, with the value of pending it runs under.  The
\* EPOLL_CTL_MOD of a file that epoll refused fails and is only logged.
UpdateEpollout ==
  /\ interest' = (sinkPolls /\ pending > 0)
  /\ want_epollout' = (pending > 0)

\* epoll_wait with at least one event ready.  A timeout and EINTR go back to
\* waiting with nothing changed, which is a stuttering step.
EpollWait ==
  /\ pc = "wait"
  /\ evs' \in [ifd : InReports, ofd : OutReports] \ {NoEvents}
  /\ pc' = "events"
  /\ UNCHANGED <<world, inner, interest, pending, want_epollout, eof_in,
                 total, finito>>

\* (Mutant of Hangup: the end of the input is left to a splice returning 0.)
Hangup_Ignored == FALSE

\* EPOLLHUP or EPOLLERR is among the flags reported for ifd.
Hangup == {"HUP", "ERR"} \cap evs.ifd # {}

\* The loop over evs meets the event of ifd; the order is the kernel's.
InEvent ==
  /\ pc = "events" /\ evs.ifd # {}
  /\ eof_in' = (eof_in \/ Hangup)
  /\ evs' = [evs EXCEPT !.ifd = {}]
  /\ pc' = IF "IN" \in evs.ifd THEN "in" ELSE "events"
  /\ UNCHANGED <<world, inner, interest, pending, want_epollout, total, finito>>

\* The loop over evs meets the event of ofd.
OutEvent ==
  /\ pc = "events" /\ evs.ofd # {}
  /\ finito' = (finito \/ "ERR" \in evs.ofd)
  /\ evs' = [evs EXCEPT !.ofd = {}]
  /\ pc' = IF "OUT" \in evs.ofd THEN "out" ELSE "events"
  /\ UNCHANGED <<world, inner, interest, pending, want_epollout, eof_in, total>>

\* Every event is handled: the unconditional handle_out comes next.
EventsDone ==
  /\ pc = "events" /\ evs = NoEvents
  /\ pc' = "drain"
  /\ UNCHANGED <<world, inner, interest, pending, want_epollout, eof_in,
                 total, finito, evs>>

-----------------------------------------------------------------------------
(* handle_in                                                               *)

\* splice(ifd, pipe_wr) moved n bytes; progress_record counts them.
SpliceIn(n) ==
  /\ pc = "in" /\ pending < SoftCap
  /\ pending + n <= SoftCap /\ n <= Chunk
  /\ n <= src /\ inner + n <= PipeCap
  /\ src' = src - n /\ inner' = inner + n
  /\ pending' = pending + n /\ total' = total + n
  /\ UNCHANGED <<files, written, srcOpen, snk, snkOpen, received, interest,
                 want_epollout, eof_in, finito, evs, pc>>

\* (Mutant of InAtEof: every failed splice is taken for the end of the input.)
InAtEof_OnAnyError == TRUE

\* The loop of handle_in ends: the soft cap is reached, or splice finds the
\* internal pipe full or the input empty (EAGAIN), or the input at its end (0).
InStops == pending >= SoftCap \/ inner = PipeCap \/ src = 0
InAtEof == pending < SoftCap /\ inner < PipeCap /\ src = 0 /\ ~srcOpen

HandleInEnd ==
  /\ pc = "in" /\ InStops
  /\ eof_in' = (eof_in \/ InAtEof)
  /\ IF pending > 0 /\ ~want_epollout
       THEN UpdateEpollout
       ELSE UNCHANGED <<interest, want_epollout>>
  /\ pc' = "events"
  /\ UNCHANGED <<world, inner, pending, total, finito, evs>>

\* splice fails with any other error: cute_die.
SpliceInDies ==
  /\ pc = "in" /\ pending < SoftCap /\ "ifd" \in broken
  /\ pc' = "died"
  /\ UNCHANGED <<world, inner, interest, pending, want_epollout, eof_in,
                 total, finito, evs>>

-----------------------------------------------------------------------------
(* handle_out, called for an EPOLLOUT event ("out") and once after the     *)
(* events ("drain")                                                        *)

\* (Mutant of TakenFromPipe: pending goes down by what splice was asked to
\* move, instead of by what it moved.)
TakenFromPipe_Requested(n) == inner' = inner - n /\ pending' = 0

\* splice took n bytes out of the internal pipe, and pending goes down by n.
TakenFromPipe(n) == inner' = inner - n /\ pending' = pending - n

\* splice(pipe_rd, ofd) moved n bytes.
SpliceOut(n) ==
  /\ pc \in {"out", "drain"} /\ pending > 0 /\ snkOpen
  /\ n <= pending /\ n <= inner /\ (sinkPolls => snk + n <= SnkCap)
  /\ TakenFromPipe(n) /\ snk' = snk + n
  /\ UNCHANGED <<files, written, srcOpen, src, snkOpen, received, interest,
                 want_epollout, eof_in, total, finito, evs, pc>>


\* The loop of handle_out ends: nothing is pending, or splice finds the
\* internal pipe empty or the output full (EAGAIN).
OutStops == pending = 0 \/ inner = 0 \/ (snkOpen /\ SinkFull)

HandleOutEnd ==
  /\ pc \in {"out", "drain"} /\ OutStops
  /\ IF pending = 0 /\ want_epollout
       THEN UpdateEpollout
       ELSE UNCHANGED <<interest, want_epollout>>
  /\ pc' = IF pc = "out" THEN "events" ELSE "tail"
  /\ UNCHANGED <<world, inner, pending, eof_in, total, finito, evs>>

\* splice to an output without reader (SIGPIPE, or EPIPE and cute_die) or to
\* one that fails (cute_die).
SpliceOutDies ==
  /\ pc \in {"out", "drain"} /\ pending > 0 /\ inner > 0
  /\ ~snkOpen \/ "ofd" \in broken
  /\ pc' = "died"
  /\ UNCHANGED <<world, inner, interest, pending, want_epollout, eof_in,
                 total, finito, evs>>

-----------------------------------------------------------------------------
\* What main_loop stores in finito at the end of its body.
LoopEnds == eof_in /\ pending = 0

\* The end of main_loop's body: progress_tick, the assignment of finito that
\* replaces whatever an event stored there, and the loop condition.
LoopTail ==
  /\ pc = "tail"
  /\ finito' = LoopEnds
  /\ pc' = IF finito' THEN "exited" ELSE "wait"
  /\ UNCHANGED <<world, inner, interest, pending, want_epollout, eof_in,
                 total, evs>>

\* The process is gone; nothing is left to do for it.
Halted == pc \in Stopped /\ UNCHANGED vars

Pump ==
  \/ EpollWait \/ InEvent \/ OutEvent \/ EventsDone
  \/ \E n \in 1 .. Chunk : SpliceIn(n)
  \/ HandleInEnd \/ SpliceInDies
  \/ \E n \in 1 .. SoftCap : SpliceOut(n)
  \/ HandleOutEnd \/ SpliceOutDies \/ LoopTail

Reader == \E n \in 1 .. SnkCap : Read(n)

World ==
  \/ \E n \in 1 .. SrcCap : Write(n)
  \/ CloseWriter \/ Reader \/ CloseReader
  \/ \E f \in {"ifd", "ofd"} : Breaks(f)

Next == Pump \/ World \/ Halted

Spec == Init /\ [][Next]_vars

\* The kernel keeps scheduling the pump, and the reader keeps reading what
\* is in the output for as long as it is there.  Nothing obliges the writer
\* to write or to close, nor a broken file to fail.
FairSpec == Spec /\ WF_vars(Pump) /\ WF_vars(Reader)

-----------------------------------------------------------------------------
(* Properties                                                              *)

TypeOK ==
  /\ srcHup \in BOOLEAN /\ sinkPolls \in BOOLEAN
  /\ broken \in SUBSET {"ifd", "ofd"}
  /\ written \in 0 .. MaxBytes /\ srcOpen \in BOOLEAN /\ src \in 0 .. SrcCap
  /\ snk \in Nat /\ (sinkPolls => snk <= SnkCap) /\ snkOpen \in BOOLEAN /\ received \in Nat
  /\ inner \in 0 .. PipeCap /\ interest \in BOOLEAN
  /\ pending \in 0 .. SoftCap /\ want_epollout \in BOOLEAN
  /\ eof_in \in BOOLEAN /\ total \in Nat /\ finito \in BOOLEAN
  /\ evs \in [ifd : SUBSET Flags, ofd : SUBSET Flags]
  /\ pc \in PcSet

\* The pump's books agree with the kernel's: pending is what the internal
\* pipe holds, and the count that progress_print reports is exactly what has
\* left the input and either sits in that pipe or has reached the output.
Accounting ==
  /\ pending = inner
  /\ total = written - src
  /\ total = inner + snk + received

\* No wakeup is lost: whenever the pump is about to block in epoll_wait with
\* bytes it has not delivered, the kernel is armed to report a writable
\* output, and it is never armed (a busy loop) with nothing to deliver.
ArmedForBacklog ==
  pc = "wait" => /\ (want_epollout <=> pending > 0)
                 /\ (interest <=> sinkPolls /\ pending > 0)

\* main_loop ends normally only after the last writer is gone or the input has
\* failed (EPOLLERR counts as its end), and never with bytes left behind in
\* the internal pipe.
CleanExit == pc = "exited" => (~srcOpen \/ "ifd" \in broken) /\ inner = 0

\* Every byte written to the input reaches the output: when main_loop ends
\* normally and the input did not fail, nothing is left in it (tests/executable_test_literal.sh
\* compares the whole output with the whole input).
Lossless ==
  pc = "exited" /\ "ifd" \notin broken => snk + received = written

\* An early EPOLLHUP is harmless when the output is a file and everything the
\* input can hold fits the internal pipe: one pass of handle_in and the
\* handle_out after it move all that is left.
RoomyFile == ~sinkPolls /\ SrcCap <= PipeCap /\ SrcCap <= SoftCap

\* When the pump must be lossless: the input does not fail, and there is no
\* early EPOLLHUP, or a harmless one.
SafeEnd == "ifd" \notin broken /\ (~srcHup \/ RoomyFile)

\* The inductive invariant behind the properties above.
\* Unless the input fails, eof_in is only ever set once the last writer is
\* gone, and without an early EPOLLHUP only once the input is empty as well.
EofMeansWriterGone ==
  /\ "HUP" \in evs.ifd => srcHup /\ ~srcOpen
  /\ "ERR" \in evs.ifd => "ifd" \in broken
  /\ eof_in => ~srcOpen \/ "ifd" \in broken
  /\ eof_in /\ ~srcHup => src = 0 \/ "ifd" \in broken

\* want_epollout mirrors the kernel's mask, and the backlog, except inside the
\* handler that is about to update it.
ArmedMirrorsBacklog ==
  /\ (interest <=> sinkPolls /\ want_epollout)
  /\ pc \in {"wait", "events", "tail", "exited"} => (want_epollout <=> pending > 0)
  /\ pc = "in" => (want_epollout => pending > 0)
  /\ pc \in {"out", "drain"} => (pending > 0 => want_epollout)

\* With a roomy file as output the internal pipe is empty at every epoll_wait,
\* so the first handle_in after the hangup finds room for all of the input.
FileKeepsUp ==
  ~sinkPolls =>
    /\ snkOpen /\ evs.ofd = {} /\ pc # "out"
    /\ pc = "in" => evs.ifd = {}
    /\ pc \in {"wait", "tail"} \/ (pc = "events" /\ evs.ifd # {}) => pending = 0
HupAtFile ==
  RoomyFile /\ "ifd" \notin broken =>
    /\ "HUP" \in evs.ifd /\ "IN" \notin evs.ifd => src = 0
    /\ eof_in => IF pc = "in" THEN inner + src <= SrcCap ELSE src = 0

\* How the process ended: with everything it took delivered; or on an input
\* that failed while there was room; or on bytes it could not deliver, to an
\* output that failed or has no reader.
EndMeansCause ==
  /\ pc = "exited" => eof_in /\ pending = 0
  /\ pc = "died" => \/ "ifd" \in broken /\ pending < SoftCap
                    \/ inner > 0 /\ (~snkOpen \/ "ofd" \in broken)

\* The whole invariant: the handlers' bookkeeping, seen at every step.
IInv ==
  /\ TypeOK /\ Accounting /\ EofMeansWriterGone /\ ArmedMirrorsBacklog
  /\ FileKeepsUp /\ HupAtFile /\ EndMeansCause

\* What has become of the process, as its neighbours see it.
Outcome == CASE pc = "exited" -> "done" [] pc = "died" -> "failed"
             [] OTHER -> "running"

\* The pump ends normally where it does not promise to be lossless.
UnsafeEnd == ~SafeEnd /\ LoopTail /\ pc' = "exited"

\* The pump implements the channel it promises to be, step by step; only a
\* normal end that an early EPOLLHUP or an EPOLLERR of the input brought about
\* may come with bytes left in the input (see Lossless).
Channel == INSTANCE ByteChannel WITH
  Capacity <- SrcCap + PipeCap, sent <- written, delivered <- snk + received,
  senderOpen <- srcOpen, receiverOpen <- snkOpen, faulty <- broken # {},
  state <- Outcome
ImplementsChannel ==
  Channel!Init /\ [][Channel!Next \/ UnsafeEnd]_(Channel!vars)

\* Once the writer is gone the process ends, as long as the output is read.
EndsAfterWriter == ~srcOpen ~> pc \in Stopped


=============================================================================
