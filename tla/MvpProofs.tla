----------------------------- MODULE MvpProofs -----------------------------
(***************************************************************************)
(* Proofs about Mvp for every pipe size, soft cap and splice chunk.        *)
(***************************************************************************)
EXTENDS Mvp, TLAPS

\* The zeroed context and the fresh pipes have their types.
LEMMA InitTypeOK ==
  ASSUME Init PROVE TypeOK
<1>. USE MvpAssumption
<1>1. evs \in [ifd : SUBSET Flags, ofd : SUBSET Flags]
  BY DEF Init, NoEvents
<1>2. pc \in PcSet
  BY DEF Init, PcSet
<1>3. /\ srcOpen \in BOOLEAN /\ snkOpen \in BOOLEAN /\ interest \in BOOLEAN
      /\ want_epollout \in BOOLEAN /\ eof_in \in BOOLEAN /\ finito \in BOOLEAN
  BY Zenon DEF Init
<1>4. /\ written \in 0 .. MaxBytes /\ src \in 0 .. SrcCap /\ snk \in Nat /\ snk <= SnkCap
      /\ received \in Nat /\ inner \in 0 .. PipeCap /\ total \in Nat
      /\ pending \in 0 .. SoftCap
  BY SMT DEF Init
<1>5. srcHup \in BOOLEAN /\ sinkPolls \in BOOLEAN /\ broken \in SUBSET {"ifd", "ofd"}
  BY Zenon DEF Init
<1>6. QED
  BY <1>1, <1>2, <1>3, <1>4, <1>5 DEF TypeOK

\* No step leaves the types: splice respects the room it was given.
LEMMA TypeStep ==
  ASSUME TypeOK, [Next]_vars PROVE TypeOK'
<1>. USE MvpAssumption DEF TypeOK
<1>1. ASSUME NEW n \in 1 .. Chunk, SpliceIn(n) PROVE TypeOK'
  BY <1>1 DEF SpliceIn, files
<1>2. ASSUME NEW n \in 1 .. SoftCap, SpliceOut(n) PROVE TypeOK'
  BY <1>2 DEF SpliceOut, TakenFromPipe, files
<1>3. CASE EpollWait
  <2>1. /\ InReports \in SUBSET SUBSET Flags
        /\ OutReports \in SUBSET SUBSET Flags
    <3>1. InFlags \subseteq Flags /\ OutFlags \subseteq Flags
      BY DEF InFlags, OutFlags, Flags
    <3>2. {"IN", "ERR"} \subseteq Flags
      BY DEF Flags
    <3>3. ASSUME NEW S \in InReports PROVE S \subseteq Flags
      BY <3>1, <3>2, <3>3 DEF InReports
    <3>4. ASSUME NEW S \in OutReports PROVE S \subseteq Flags
      BY <3>1, <3>2, <3>4 DEF OutReports
    <3>5. QED
      BY <3>3, <3>4
  <2>2. evs' \in [ifd : SUBSET Flags, ofd : SUBSET Flags]
    BY <1>3, <2>1 DEF EpollWait
  <2>3. QED
    BY <1>3, <2>2 DEF EpollWait, world, files, PcSet
<1>4. CASE InEvent
  BY <1>4 DEF InEvent, Hangup, world, files, PcSet
<1>5. CASE OutEvent
  BY <1>5 DEF OutEvent, world, files, PcSet
<1>6. CASE EventsDone
  BY <1>6 DEF EventsDone, world, files, PcSet
<1>7. CASE HandleInEnd
  BY <1>7 DEF HandleInEnd, UpdateEpollout, InAtEof, world, files, PcSet
<1>8. CASE HandleOutEnd
  <2>1. interest' \in BOOLEAN /\ want_epollout' \in BOOLEAN
    <3>1. CASE pending = 0 /\ want_epollout
      BY <1>8, <3>1 DEF HandleOutEnd, UpdateEpollout
    <3>2. CASE ~(pending = 0 /\ want_epollout)
      BY <1>8, <3>2 DEF HandleOutEnd
    <3>3. QED
      BY <3>1, <3>2
  <2>2. pc' \in PcSet
    BY <1>8 DEF HandleOutEnd, PcSet
  <2>3. QED
    BY <1>8, <2>1, <2>2 DEF HandleOutEnd, world, files
<1>9. CASE SpliceOutDies
  BY <1>9 DEF SpliceOutDies, world, files, PcSet, Stopped
<1>10. CASE LoopTail
  BY <1>10 DEF LoopTail, LoopEnds, world, files, PcSet, Stopped
<1>11. ASSUME NEW n \in 1 .. SrcCap, Write(n) PROVE TypeOK'
  BY <1>11 DEF Write, ctx, files
<1>12. CASE CloseWriter
  BY <1>12 DEF CloseWriter, ctx, files
<1>13. ASSUME NEW n \in 1 .. SnkCap, Read(n) PROVE TypeOK'
  BY <1>13 DEF Read, ctx, files
<1>14. CASE CloseReader
  BY <1>14 DEF CloseReader, ctx, files
<1>15. ASSUME NEW f \in {"ifd", "ofd"}, Breaks(f) PROVE TypeOK'
  BY <1>15 DEF Breaks, ctx
<1>16. CASE SpliceInDies
  BY <1>16 DEF SpliceInDies, world, files, PcSet, Stopped
<1>17. CASE UNCHANGED vars
  BY <1>17 DEF vars, files
<1>18. QED
  BY <1>1, <1>2, <1>3, <1>4, <1>5, <1>6, <1>7, <1>8, <1>9, <1>10, <1>11,
     <1>12, <1>13, <1>14, <1>15, <1>16, <1>17 DEF Next, Pump, World, Reader, Halted

\* Every variable keeps its type; in particular the internal pipe never holds
\* more than its capacity and pending never exceeds PIPE_SOFT_CAP.
THEOREM TypeCorrect == Spec => []TypeOK
<1>1. QED
  BY InitTypeOK, TypeStep, PTL DEF Spec

-----------------------------------------------------------------------------
(* The inductive invariant, one conjunct at a time.                        *)

\* splice and the counters move together, in both directions.
LEMMA AccountingStep ==
  ASSUME TypeOK, Accounting, [Next]_vars PROVE Accounting'
<1>. USE MvpAssumption DEF TypeOK, Accounting
<1>1. ASSUME NEW n \in 1 .. Chunk, SpliceIn(n) PROVE Accounting'
  BY <1>1 DEF SpliceIn, files
<1>2. ASSUME NEW n \in 1 .. SoftCap, SpliceOut(n) PROVE Accounting'
  BY <1>2 DEF SpliceOut, TakenFromPipe, files
<1>3. CASE EpollWait
  BY <1>3 DEF EpollWait, world, files
<1>4. CASE InEvent
  BY <1>4 DEF InEvent, Hangup, world, files
<1>5. CASE OutEvent
  BY <1>5 DEF OutEvent, world, files
<1>6. CASE EventsDone
  BY <1>6 DEF EventsDone, world, files
<1>7. CASE HandleInEnd
  BY <1>7 DEF HandleInEnd, world, files, UpdateEpollout, InAtEof
<1>8. CASE HandleOutEnd
  BY <1>8 DEF HandleOutEnd, world, files, UpdateEpollout
<1>9. CASE SpliceOutDies
  BY <1>9 DEF SpliceOutDies, world, files
<1>10. CASE LoopTail
  BY <1>10 DEF LoopTail, LoopEnds, world, files
<1>11. ASSUME NEW n \in 1 .. SrcCap, Write(n) PROVE Accounting'
  BY <1>11 DEF Write, ctx, files
<1>12. CASE CloseWriter
  BY <1>12 DEF CloseWriter, ctx, files
<1>13. ASSUME NEW n \in 1 .. SnkCap, Read(n) PROVE Accounting'
  BY <1>13 DEF Read, ctx, files
<1>14. CASE CloseReader
  BY <1>14 DEF CloseReader, ctx, files
<1>15. ASSUME NEW f \in {"ifd", "ofd"}, Breaks(f) PROVE Accounting'
  BY <1>15 DEF Breaks, ctx
<1>16. CASE SpliceInDies
  BY <1>16 DEF SpliceInDies, world, files
<1>17. CASE UNCHANGED vars
  BY <1>17 DEF vars, files
<1>18. QED
  BY <1>1, <1>2, <1>3, <1>4, <1>5, <1>6, <1>7, <1>8, <1>9, <1>10, <1>11,
     <1>12, <1>13, <1>14, <1>15, <1>16, <1>17
  DEF Next, Pump, World, Reader, Halted

\* Only a hangup of the writer or an empty input without writer sets eof_in.
LEMMA EofStep ==
  ASSUME TypeOK, EofMeansWriterGone, [Next]_vars PROVE EofMeansWriterGone'
<1>. USE MvpAssumption DEF TypeOK, EofMeansWriterGone
<1>1. ASSUME NEW n \in 1 .. Chunk, SpliceIn(n) PROVE EofMeansWriterGone'
  BY <1>1 DEF SpliceIn, files
<1>2. ASSUME NEW n \in 1 .. SoftCap, SpliceOut(n) PROVE EofMeansWriterGone'
  BY <1>2 DEF SpliceOut, TakenFromPipe, files
<1>3. CASE EpollWait
  BY <1>3 DEF EpollWait, world, files, InReports, InFlags
<1>4. CASE InEvent
  BY <1>4 DEF InEvent, Hangup, world, files
<1>5. CASE OutEvent
  BY <1>5 DEF OutEvent, world, files
<1>6. CASE EventsDone
  BY <1>6 DEF EventsDone, world, files
<1>7. CASE HandleInEnd
  BY <1>7 DEF HandleInEnd, world, files, UpdateEpollout, InAtEof
<1>8. CASE HandleOutEnd
  BY <1>8 DEF HandleOutEnd, world, files, UpdateEpollout
<1>9. CASE SpliceOutDies
  BY <1>9 DEF SpliceOutDies, world, files
<1>10. CASE LoopTail
  BY <1>10 DEF LoopTail, LoopEnds, world, files
<1>11. ASSUME NEW n \in 1 .. SrcCap, Write(n) PROVE EofMeansWriterGone'
  BY <1>11 DEF Write, ctx, files
<1>12. CASE CloseWriter
  BY <1>12 DEF CloseWriter, ctx, files
<1>13. ASSUME NEW n \in 1 .. SnkCap, Read(n) PROVE EofMeansWriterGone'
  BY <1>13 DEF Read, ctx, files
<1>14. CASE CloseReader
  BY <1>14 DEF CloseReader, ctx, files
<1>15. ASSUME NEW f \in {"ifd", "ofd"}, Breaks(f) PROVE EofMeansWriterGone'
  BY <1>15 DEF Breaks, ctx
<1>16. CASE SpliceInDies
  BY <1>16 DEF SpliceInDies, world, files
<1>17. CASE UNCHANGED vars
  BY <1>17 DEF vars, files
<1>18. QED
  BY <1>1, <1>2, <1>3, <1>4, <1>5, <1>6, <1>7, <1>8, <1>9, <1>10, <1>11,
     <1>12, <1>13, <1>14, <1>15, <1>16, <1>17
  DEF Next, Pump, World, Reader, Halted

\* Each handler leaves EPOLLOUT armed exactly when a backlog remains.
LEMMA ArmedStep ==
  ASSUME TypeOK, ArmedMirrorsBacklog, [Next]_vars PROVE ArmedMirrorsBacklog'
<1>. USE MvpAssumption DEF TypeOK, ArmedMirrorsBacklog
<1>1. ASSUME NEW n \in 1 .. Chunk, SpliceIn(n) PROVE ArmedMirrorsBacklog'
  BY <1>1 DEF SpliceIn, files
<1>2. ASSUME NEW n \in 1 .. SoftCap, SpliceOut(n) PROVE ArmedMirrorsBacklog'
  BY <1>2 DEF SpliceOut, TakenFromPipe, files
<1>3. CASE EpollWait
  BY <1>3 DEF EpollWait, world, files
<1>4. CASE InEvent
  BY <1>4 DEF InEvent, Hangup, world, files
<1>5. CASE OutEvent
  BY <1>5 DEF OutEvent, world, files
<1>6. CASE EventsDone
  BY <1>6 DEF EventsDone, world, files
<1>7. CASE HandleInEnd
  <2>1. CASE pending > 0 /\ ~want_epollout
    BY <1>7, <2>1 DEF HandleInEnd, UpdateEpollout, world, files
  <2>2. CASE ~(pending > 0 /\ ~want_epollout)
    BY <1>7, <2>2 DEF HandleInEnd, world, files
  <2>3. QED
    BY <2>1, <2>2
<1>8. CASE HandleOutEnd
  <2>1. CASE pending = 0 /\ want_epollout
    <3>1. ~(pending > 0)
      BY <2>1
    <3>2. ~interest' /\ ~want_epollout' /\ ~(pending' > 0)
      BY <1>8, <2>1, <3>1 DEF HandleOutEnd, UpdateEpollout
    <3>3. interest' \in BOOLEAN /\ want_epollout' \in BOOLEAN
      BY <1>8, <2>1 DEF HandleOutEnd, UpdateEpollout
    <3>4. QED
      BY <1>8, <3>2, <3>3 DEF HandleOutEnd
  <2>2. CASE ~(pending = 0 /\ want_epollout)
    BY <1>8, <2>2 DEF HandleOutEnd, world, files
  <2>3. QED
    BY <2>1, <2>2
<1>9. CASE SpliceOutDies
  BY <1>9 DEF SpliceOutDies, world, files
<1>10. CASE LoopTail
  BY <1>10 DEF LoopTail, LoopEnds, world, files
<1>11. ASSUME NEW n \in 1 .. SrcCap, Write(n) PROVE ArmedMirrorsBacklog'
  BY <1>11 DEF Write, ctx, files
<1>12. CASE CloseWriter
  BY <1>12 DEF CloseWriter, ctx, files
<1>13. ASSUME NEW n \in 1 .. SnkCap, Read(n) PROVE ArmedMirrorsBacklog'
  BY <1>13 DEF Read, ctx, files
<1>14. CASE CloseReader
  BY <1>14 DEF CloseReader, ctx, files
<1>15. ASSUME NEW f \in {"ifd", "ofd"}, Breaks(f) PROVE ArmedMirrorsBacklog'
  BY <1>15 DEF Breaks, ctx
<1>16. CASE SpliceInDies
  BY <1>16 DEF SpliceInDies, world, files
<1>17. CASE UNCHANGED vars
  BY <1>17 DEF vars, files
<1>18. QED
  BY <1>1, <1>2, <1>3, <1>4, <1>5, <1>6, <1>7, <1>8, <1>9, <1>10, <1>11,
     <1>12, <1>13, <1>14, <1>15, <1>16, <1>17
  DEF Next, Pump, World, Reader, Halted

\* A file takes everything, so every handle_out leaves the internal pipe empty.
LEMMA FileStep ==
  ASSUME TypeOK, Accounting, FileKeepsUp, [Next]_vars
  PROVE  FileKeepsUp'
<1>. USE MvpAssumption DEF TypeOK, Accounting, FileKeepsUp
<1>1. ASSUME NEW n \in 1 .. Chunk, SpliceIn(n) PROVE FileKeepsUp'
  BY <1>1 DEF SpliceIn, files
<1>2. ASSUME NEW n \in 1 .. SoftCap, SpliceOut(n) PROVE FileKeepsUp'
  BY <1>2 DEF SpliceOut, TakenFromPipe, files
<1>3. CASE EpollWait
  BY <1>3 DEF EpollWait, world, files, InReports, OutReports, InFlags, OutFlags
<1>4. CASE InEvent
  BY <1>4 DEF InEvent, Hangup, world, files
<1>5. CASE OutEvent
  BY <1>5 DEF OutEvent, world, files
<1>6. CASE EventsDone
  BY <1>6 DEF EventsDone, world, files, NoEvents
<1>7. CASE HandleInEnd
  BY <1>7 DEF HandleInEnd, InStops, world, files, UpdateEpollout, InAtEof
<1>8. CASE HandleOutEnd
  BY <1>8 DEF HandleOutEnd, OutStops, SinkFull, world, files, UpdateEpollout
<1>9. CASE SpliceOutDies
  BY <1>9 DEF SpliceOutDies, world, files
<1>10. CASE LoopTail
  BY <1>10 DEF LoopTail, LoopEnds, world, files
<1>11. ASSUME NEW n \in 1 .. SrcCap, Write(n) PROVE FileKeepsUp'
  BY <1>11 DEF Write, ctx, files
<1>12. CASE CloseWriter
  BY <1>12 DEF CloseWriter, ctx, files
<1>13. ASSUME NEW n \in 1 .. SnkCap, Read(n) PROVE FileKeepsUp'
  BY <1>13 DEF Read, ctx, files
<1>14. CASE CloseReader
  BY <1>14 DEF CloseReader, ctx, files
<1>15. ASSUME NEW f \in {"ifd", "ofd"}, Breaks(f) PROVE FileKeepsUp'
  BY <1>15 DEF Breaks, ctx
<1>16. CASE SpliceInDies
  BY <1>16 DEF SpliceInDies, world, files
<1>17. CASE UNCHANGED vars
  BY <1>17 DEF vars, files
<1>18. QED
  BY <1>1, <1>2, <1>3, <1>4, <1>5, <1>6, <1>7, <1>8, <1>9, <1>10, <1>11,
     <1>12, <1>13, <1>14, <1>15, <1>16, <1>17
  DEF Next, Pump, World, Reader, Halted

\* After the hangup the input only shrinks, into an internal pipe with room.
LEMMA HupStep ==
  ASSUME TypeOK, Accounting, EofMeansWriterGone, FileKeepsUp, HupAtFile, [Next]_vars
  PROVE  HupAtFile'
<1>. USE MvpAssumption DEF TypeOK, Accounting, EofMeansWriterGone,
         FileKeepsUp, HupAtFile, RoomyFile
<1>1. ASSUME NEW n \in 1 .. Chunk, SpliceIn(n) PROVE HupAtFile'
  BY <1>1 DEF SpliceIn, files
<1>2. ASSUME NEW n \in 1 .. SoftCap, SpliceOut(n) PROVE HupAtFile'
  BY <1>2 DEF SpliceOut, TakenFromPipe, files
<1>3. CASE EpollWait
  BY <1>3 DEF EpollWait, world, files, InReports, OutReports, InFlags, OutFlags
<1>4. CASE InEvent
  BY <1>4 DEF InEvent, Hangup, world, files
<1>5. CASE OutEvent
  BY <1>5 DEF OutEvent, world, files
<1>6. CASE EventsDone
  BY <1>6 DEF EventsDone, world, files, NoEvents
<1>7. CASE HandleInEnd
  BY <1>7 DEF HandleInEnd, InStops, world, files, UpdateEpollout, InAtEof
<1>8. CASE HandleOutEnd
  BY <1>8 DEF HandleOutEnd, OutStops, SinkFull, world, files, UpdateEpollout
<1>9. CASE SpliceOutDies
  BY <1>9 DEF SpliceOutDies, world, files
<1>10. CASE LoopTail
  BY <1>10 DEF LoopTail, LoopEnds, world, files
<1>11. ASSUME NEW n \in 1 .. SrcCap, Write(n) PROVE HupAtFile'
  BY <1>11 DEF Write, ctx, files
<1>12. CASE CloseWriter
  BY <1>12 DEF CloseWriter, ctx, files
<1>13. ASSUME NEW n \in 1 .. SnkCap, Read(n) PROVE HupAtFile'
  BY <1>13 DEF Read, ctx, files
<1>14. CASE CloseReader
  BY <1>14 DEF CloseReader, ctx, files
<1>15. ASSUME NEW f \in {"ifd", "ofd"}, Breaks(f) PROVE HupAtFile'
  BY <1>15 DEF Breaks, ctx
<1>16. CASE SpliceInDies
  BY <1>16 DEF SpliceInDies, world, files
<1>17. CASE UNCHANGED vars
  BY <1>17 DEF vars, files
<1>18. QED
  BY <1>1, <1>2, <1>3, <1>4, <1>5, <1>6, <1>7, <1>8, <1>9, <1>10, <1>11,
     <1>12, <1>13, <1>14, <1>15, <1>16, <1>17
  DEF Next, Pump, World, Reader, Halted

\* The process ends by the loop condition or by a splice to a dead output.
LEMMA EndStep ==
  ASSUME TypeOK, EndMeansCause, [Next]_vars PROVE EndMeansCause'
<1>. USE MvpAssumption DEF TypeOK, EndMeansCause
<1>1. ASSUME NEW n \in 1 .. Chunk, SpliceIn(n) PROVE EndMeansCause'
  BY <1>1 DEF SpliceIn, files
<1>2. ASSUME NEW n \in 1 .. SoftCap, SpliceOut(n) PROVE EndMeansCause'
  BY <1>2 DEF SpliceOut, TakenFromPipe, files
<1>3. CASE EpollWait
  BY <1>3 DEF EpollWait, world, files
<1>4. CASE InEvent
  BY <1>4 DEF InEvent, Hangup, world, files
<1>5. CASE OutEvent
  BY <1>5 DEF OutEvent, world, files
<1>6. CASE EventsDone
  BY <1>6 DEF EventsDone, world, files
<1>7. CASE HandleInEnd
  BY <1>7 DEF HandleInEnd, world, files, UpdateEpollout, InAtEof
<1>8. CASE HandleOutEnd
  BY <1>8 DEF HandleOutEnd, world, files, UpdateEpollout
<1>9. CASE SpliceOutDies
  BY <1>9 DEF SpliceOutDies, world, files
<1>10. CASE LoopTail
  BY <1>10 DEF LoopTail, LoopEnds, world, files
<1>11. ASSUME NEW n \in 1 .. SrcCap, Write(n) PROVE EndMeansCause'
  BY <1>11 DEF Write, ctx, files
<1>12. CASE CloseWriter
  BY <1>12 DEF CloseWriter, ctx, files
<1>13. ASSUME NEW n \in 1 .. SnkCap, Read(n) PROVE EndMeansCause'
  BY <1>13 DEF Read, ctx, files
<1>14. CASE CloseReader
  BY <1>14 DEF CloseReader, ctx, files
<1>15. ASSUME NEW f \in {"ifd", "ofd"}, Breaks(f) PROVE EndMeansCause'
  BY <1>15 DEF Breaks, ctx
<1>16. CASE SpliceInDies
  BY <1>16 DEF SpliceInDies, world, files
<1>17. CASE UNCHANGED vars
  BY <1>17 DEF vars, files
<1>18. QED
  BY <1>1, <1>2, <1>3, <1>4, <1>5, <1>6, <1>7, <1>8, <1>9, <1>10, <1>11,
     <1>12, <1>13, <1>14, <1>15, <1>16, <1>17
  DEF Next, Pump, World, Reader, Halted

-----------------------------------------------------------------------------
\* IInv holds in every reachable state of every instance.
THEOREM InductiveInvariant == Spec => []IInv
<1>1. Init => IInv
  <2>. SUFFICES ASSUME Init PROVE IInv
    OBVIOUS
  <2>1. TypeOK
    BY InitTypeOK
  <2>2. Accounting
    BY SMT DEF Init, Accounting
  <2>3. EofMeansWriterGone /\ EndMeansCause
    BY DEF Init, EofMeansWriterGone, EndMeansCause, NoEvents
  <2>4. ArmedMirrorsBacklog
    <3>1. ~(pending > 0)
      BY SMT DEF Init
    <3>2. (interest <=> sinkPolls /\ want_epollout)
      BY MvpAssumption, Zenon DEF Init
    <3>3. (want_epollout <=> pending > 0)
      BY <3>1 DEF Init
    <3>4. QED
      BY <3>1, <3>2, <3>3 DEF Init, ArmedMirrorsBacklog
  <2>5. FileKeepsUp /\ HupAtFile
    BY DEF Init, FileKeepsUp, HupAtFile, NoEvents
  <2>6. QED
    BY <2>1, <2>2, <2>3, <2>4, <2>5 DEF IInv
<1>2. IInv /\ [Next]_vars => IInv'
  BY TypeStep, AccountingStep, EofStep, ArmedStep, FileStep, HupStep, EndStep
  DEF IInv
<1>3. QED
  BY <1>1, <1>2, PTL DEF Spec

\* pending always equals the bytes in the internal pipe and the reported total
\* is exactly what was taken from the input: no partial splice is miscounted.
THEOREM AccountingHolds == Spec => []Accounting
<1>1. IInv => Accounting
  BY DEF IInv
<1>2. QED
  BY <1>1, InductiveInvariant, PTL

\* The pump never blocks in epoll_wait with a backlog and EPOLLOUT disarmed,
\* and never spins on EPOLLOUT without one.
THEOREM NoLostWakeup == Spec => []ArmedForBacklog
<1>1. IInv => ArmedForBacklog
  BY DEF IInv, ArmedMirrorsBacklog, ArmedForBacklog
<1>2. QED
  BY <1>1, InductiveInvariant, PTL

\* main_loop ends normally only after the writer is gone and with the internal
\* pipe empty.
THEOREM CleanExitHolds == Spec => []CleanExit
<1>1. IInv => CleanExit
  BY DEF IInv, Accounting, EofMeansWriterGone, EndMeansCause, CleanExit, TypeOK
<1>2. QED
  BY <1>1, InductiveInvariant, PTL

\* No byte is lost, whatever the capacities, when the input does not fail and
\* reports its end only once it has been read to the end, nor when the output
\* is a file and the internal pipe has room for whatever the input can hold.
THEOREM LosslessWhenSafe == Spec => [](SafeEnd => Lossless)
<1>1. IInv => (SafeEnd => Lossless)
  <2>. SUFFICES ASSUME IInv, SafeEnd, pc = "exited" PROVE snk + received = written
    BY DEF Lossless
  <2>1. src = 0
    <3>1. eof_in /\ "ifd" \notin broken
      BY DEF IInv, EndMeansCause, SafeEnd
    <3>2. CASE ~srcHup
      BY <3>1, <3>2 DEF IInv, EofMeansWriterGone
    <3>3. CASE RoomyFile
      BY <3>1, <3>3 DEF IInv, HupAtFile
    <3>4. QED
      BY <3>2, <3>3 DEF SafeEnd
  <2>2. QED
    BY <2>1 DEF IInv, TypeOK, Accounting, EndMeansCause
<1>2. QED
  BY <1>1, InductiveInvariant, PTL

\* Step by step the pump is a bounded channel that fails only without a
\* receiver or at a faulty end; and where it promises to be lossless it has
\* delivered everything before it reports success.
THEOREM ChannelImplemented == Spec => ImplementsChannel
<1>. USE MvpAssumption
<1>1. Init => Channel!Init
  BY SMT DEF Init, Channel!Init, Outcome
<1>2. IInv /\ [Next]_vars => [Channel!Next \/ UnsafeEnd]_(Channel!vars)
  <2>. SUFFICES ASSUME IInv, [Next]_vars
                PROVE  [Channel!Next \/ UnsafeEnd]_(Channel!vars)
    OBVIOUS
  <2>. USE DEF IInv, TypeOK, Accounting
  <2>1. ASSUME NEW n \in 1 .. Chunk, SpliceIn(n) PROVE UNCHANGED Channel!vars
    BY <2>1 DEF SpliceIn, files, Channel!vars, Outcome
  <2>2. ASSUME NEW n \in 1 .. SoftCap, SpliceOut(n) PROVE Channel!Deliver
    <3>1. Outcome = "running" /\ Outcome' = Outcome
      BY <2>2 DEF SpliceOut, Outcome
    <3>2. (broken # {})' = (broken # {})
      BY <2>2 DEF SpliceOut, files
    <3>3. (snk + received)' \in (snk + received) + 1 .. written
      BY <2>2 DEF SpliceOut
    <3>4. QED
      BY <2>2, <3>1, <3>2, <3>3 DEF SpliceOut, files, Channel!Deliver
  <2>3. CASE EpollWait \/ InEvent \/ OutEvent \/ EventsDone \/ HandleInEnd
               \/ HandleOutEnd
    BY <2>3 DEF EpollWait, InEvent, Hangup, OutEvent, EventsDone, HandleInEnd,
                HandleOutEnd, world, files, Channel!vars, Outcome
  <2>4. ASSUME SpliceOutDies \/ SpliceInDies PROVE Channel!Fail
    <3>1. Outcome = "running" /\ Outcome' = "failed"
      BY <2>4 DEF SpliceOutDies, SpliceInDies, Outcome
    <3>2. ~snkOpen \/ broken # {}
      BY <2>4 DEF SpliceOutDies, SpliceInDies
    <3>3. UNCHANGED <<written, snk, received, srcOpen, snkOpen, broken>>
      BY <2>4 DEF SpliceOutDies, SpliceInDies, world, files
    <3>4. QED
      BY <3>1, <3>2, <3>3 DEF Channel!Fail
  <2>5. ASSUME LoopTail PROVE [Channel!Next \/ UnsafeEnd]_(Channel!vars)
    <3>1. ASSUME LoopEnds, SafeEnd PROVE Channel!Finish
      <4>1. Outcome = "running" /\ Outcome' = "done"
        BY <2>5, <3>1 DEF LoopTail, Outcome
      <4>2. src = 0 /\ ~srcOpen
        <5>1. CASE ~srcHup
          BY <3>1, <5>1 DEF EofMeansWriterGone, LoopEnds, SafeEnd
        <5>2. CASE RoomyFile
          BY <2>5, <3>1, <5>2
          DEF LoopTail, EofMeansWriterGone, HupAtFile, LoopEnds, SafeEnd
        <5>3. QED
          BY <3>1, <5>1, <5>2 DEF SafeEnd
      <4>3. snk + received = written
        BY <3>1, <4>2 DEF LoopEnds
      <4>4. UNCHANGED <<written, snk, received, srcOpen, snkOpen, broken>>
        BY <2>5 DEF LoopTail, world, files
      <4>5. QED
        BY <4>1, <4>2, <4>3, <4>4 DEF Channel!Finish
    <3>2. ASSUME LoopEnds, ~SafeEnd PROVE UnsafeEnd
      BY <2>5, <3>2 DEF LoopTail, UnsafeEnd
    <3>3. ASSUME ~LoopEnds PROVE UNCHANGED Channel!vars
      BY <2>5, <3>3 DEF LoopTail, world, files, Channel!vars, Outcome
    <3>4. QED
      BY <3>1, <3>2, <3>3 DEF Channel!Next
  <2>6. ASSUME NEW n \in 1 .. SrcCap, Write(n) PROVE Channel!Send
    <3>1. Outcome = "running" /\ Outcome' = Outcome
      BY <2>6 DEF Write, ctx, Stopped, PcSet, Outcome
    <3>2. UNCHANGED <<snk, received, srcOpen, snkOpen, broken>>
      BY <2>6 DEF Write, files
    <3>3. written' \in written + 1 .. (snk + received) + (SrcCap + PipeCap)
      BY <2>6 DEF Write
    <3>4. QED
      BY <2>6, <3>1, <3>2, <3>3 DEF Write, Channel!Send
  <2>7. ASSUME CloseWriter PROVE Channel!SenderCloses
    <3>1. Outcome' = Outcome
      BY <2>7 DEF CloseWriter, ctx, Outcome
    <3>2. QED
      BY <2>7, <3>1 DEF CloseWriter, ctx, files, Channel!SenderCloses
  <2>8. ASSUME NEW n \in 1 .. SnkCap, Read(n) PROVE UNCHANGED Channel!vars
    BY <2>8 DEF Read, ctx, files, Channel!vars, Outcome
  <2>9. ASSUME CloseReader PROVE Channel!ReceiverCloses
    <3>1. Outcome' = Outcome
      BY <2>9 DEF CloseReader, ctx, Outcome
    <3>2. QED
      BY <2>9, <3>1 DEF CloseReader, ctx, files, Channel!ReceiverCloses
  <2>10. ASSUME NEW f \in {"ifd", "ofd"}, Breaks(f)
         PROVE  Channel!EndFails \/ UNCHANGED Channel!vars
    <3>1. Outcome' = Outcome
      BY <2>10 DEF Breaks, ctx, Outcome
    <3>2. (broken # {})' = TRUE
      BY <2>10 DEF Breaks
    <3>3. UNCHANGED <<written, snk, received, srcOpen, snkOpen>>
      BY <2>10 DEF Breaks
    <3>4. CASE broken = {}
      BY <3>1, <3>2, <3>3, <3>4 DEF Channel!EndFails
    <3>5. CASE broken # {}
      BY <3>1, <3>2, <3>3, <3>5 DEF Channel!vars
    <3>6. QED
      BY <3>4, <3>5
  <2>11. CASE UNCHANGED vars
    BY <2>11 DEF vars, Channel!vars, Outcome
  <2>12. QED
    BY <2>1, <2>2, <2>3, <2>4, <2>5, <2>6, <2>7, <2>8, <2>9, <2>10, <2>11
    DEF Next, Pump, World, Reader, Halted, Channel!Next
<1>3. QED
  BY <1>1, <1>2, InductiveInvariant, PTL DEF Spec, ImplementsChannel
=============================================================================
