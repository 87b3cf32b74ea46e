------------------------- MODULE LosslessCutProofs -------------------------
(***************************************************************************)
(* Proofs about LosslessCut, for any films and streams, any length of the  *)
(* film and of the list of cuts, and any user.                             *)
(***************************************************************************)
EXTENDS LosslessCut, TLAPS

\* The phase of a rendering tells which of its fields there are.
LEMMA JobPhases ==
  ASSUME NEW j \in Job
  PROVE  /\ j.phase = "none" <=> j = NoJob
         /\ j.phase = "path" <=> j \in PathJob
         /\ j.phase = "named" <=> j \in NamedJob
         /\ j.phase = "cuts" <=> j \in LoopJob
         /\ j.phase = "merged" <=> j \in MergedJob
  BY DEF Job, NoJob, PathJob, NamedJob, LoopJob, MergedJob

\* Replacing the last element of a sequence.
LEMMA LastReplaced ==
  ASSUME NEW S, NEW s \in Seq(S), s # <<>>, NEW x \in S
  PROVE  /\ [s EXCEPT ![Len(s)] = x] \in Seq(S)
         /\ Len([s EXCEPT ![Len(s)] = x]) = Len(s)
         /\ [s EXCEPT ![Len(s)] = x][Len(s)] = x
         /\ \A i \in 1 .. Len(s) : i # Len(s) => [s EXCEPT ![Len(s)] = x][i] = s[i]
<1>1. Len(s) \in Nat /\ Len(s) >= 1
  OBVIOUS
<1>2. QED
  BY <1>1

\* table.sort keeps the cuts and puts them in order.
LEMMA SortedKeeps ==
  ASSUME NEW S, NEW cs \in Seq(S), NEW s \in Sorted(cs)
  PROVE  /\ s \in Seq(S) /\ Len(s) = Len(cs) /\ InOrder(s)
         /\ \A i \in 1 .. Len(s) : \E j \in 1 .. Len(cs) : s[i] = cs[j]
<1>1. DOMAIN cs = 1 .. Len(cs) /\ Len(cs) \in Nat
  OBVIOUS
<1>2. PICK p \in [1 .. Len(cs) -> 1 .. Len(cs)] : s = [i \in 1 .. Len(cs) |-> cs[p[i]]]
  BY <1>1 DEF Sorted
<1>3. InOrder(s)
  BY DEF Sorted
<1>4. \A i \in 1 .. Len(cs) : s[i] = cs[p[i]] /\ cs[p[i]] \in S
  BY <1>2
<1>5. s \in Seq(S) /\ Len(s) = Len(cs)
  BY <1>1, <1>2, <1>4
<1>6. QED
  BY <1>2, <1>3, <1>4, <1>5

\* The ends of a list of cuts: a new cut, or a new value for the newest.
LEMMA MarkingKeepsCuts ==
  ASSUME TypeOK, NEW t \in Times
  PROVE  /\ StartedAt(t) \in Seq(Cut)
         /\ cuts # <<>> => EndedAt(t) \in Seq(Cut)
         /\ cuts # <<>> => EndedAt(NoTime) \in Seq(Cut)
<1>1. cuts \in Seq(Cut) /\ [start |-> t, end |-> NoTime, of |-> playing] \in Cut
  BY DEF TypeOK, Cut
<1>2. StartedAt(t) \in Seq(Cut)
  <2>1. CASE cuts = <<>> \/ Complete(Last(cuts))
    BY <1>1, <2>1 DEF StartedAt
  <2>2. CASE cuts # <<>> /\ ~Complete(Last(cuts))
    BY <1>1, <2>2, LastReplaced DEF StartedAt
  <2>3. QED
    BY <2>1, <2>2
<1>3. ASSUME cuts # <<>>, NEW e \in Times \cup {NoTime} PROVE EndedAt(e) \in Seq(Cut)
  <2>1. Len(cuts) \in 1 .. Len(cuts)
    BY <1>1, <1>3
  <2>2. [cuts[Len(cuts)] EXCEPT !.end = e] \in Cut
    <3>1. cuts[Len(cuts)] \in Cut
      BY <1>1, <2>1
    <3>2. \A c \in Cut : [c EXCEPT !.end = e] \in Cut
      BY DEF Cut
    <3>3. QED
      BY <3>1, <3>2
  <2>3. EndedAt(e) = [cuts EXCEPT ![Len(cuts)] = [cuts[Len(cuts)] EXCEPT !.end = e]]
    BY DEF EndedAt
  <2>4. QED
    BY <1>1, <1>3, <2>2, <2>3, LastReplaced
<1>4. QED
  BY <1>2, <1>3

\* What the name of a cut file is made of.
LEMMA NameOfCut ==
  ASSUME NEW film \in Files, NEW i \in Nat, NEW n \in Nat, NEW c \in Cut, Complete(c)
  PROVE  CutName(film, i, n, c) \in Name
<1>1. c.start \in Nat /\ c.end \in Nat
  BY CutAssumption DEF Cut, Times, Complete
<1>2. \A t \in Nat : Hms(t) \in Nat
  BY DEF Hms
<1>3. Hms(c.start) \in Nat /\ Hms(c.end) \in Nat
  BY <1>1, <1>2
<1>4. (IF n = 1 THEN 0 ELSE i) \in Nat
  OBVIOUS
<1>5. QED
  BY <1>3, <1>4 DEF CutName, Name

LEMMA UserBounds ==
  ASSUME TypeOK
  PROVE  user.presses \in Nat /\ user.waiting \in Nat /\ user.moves \in Nat /\ user.keys \subseteq Keys
BY CutAssumption DEF TypeOK

\* A handler takes the head of the queue.
LEMMA HandleTypes ==
  ASSUME TypeOK, NEW k, Handle(k)
  PROVE  /\ queue' \in Seq(Keys \cup {"end-file"}) /\ Len(queue') <= user'.waiting
         /\ playing' \in Files \cup {NoFile} /\ user' \in Users
         /\ dump' \in {"none", "partial", "whole"}
         /\ pressed' \in 0 .. user'.presses /\ moves' \in 0 .. user'.moves
<1>1. Len(Tail(queue)) <= user.waiting /\ Tail(queue) \in Seq(Keys \cup {"end-file"})
  BY UserBounds DEF TypeOK, Handle
<1>2. QED
  BY <1>1 DEF TypeOK, Handle

LEMMA TypeInit == Init => TypeOK
<1>. SUFFICES ASSUME Init PROVE TypeOK
  OBVIOUS
<1>1. user.presses \in Nat /\ user.waiting \in Nat /\ user.moves \in Nat
  BY CutAssumption DEF Init
<1>2. NoJob \in Job
  BY DEF Job
<1>3. alive \in BOOLEAN
  BY DEF Init
<1>4. QED
  BY <1>1, <1>2, <1>3 DEF Init, TypeOK

\* Every step of the player, the user and the script keeps the types.
LEMMA TypeStep ==
  ASSUME TypeOK, [Next]_vars
  PROVE  TypeOK'
<1>1. ASSUME NEW k \in user.keys, Press(k) PROVE TypeOK'
  <2>1. k \in Keys /\ Append(queue, k) \in Seq(Keys \cup {"end-file"})
    BY <1>1, UserBounds DEF TypeOK
  <2>2. Len(Append(queue, k)) <= user.waiting /\ pressed + 1 \in 0 .. user.presses
    BY <1>1, UserBounds DEF TypeOK, Press
  <2>3. alive' \in BOOLEAN
    BY <1>1 DEF Press, TypeOK
  <2>4. QED
    BY <1>1, <2>1, <2>2, <2>3 DEF TypeOK, Press
<1>2. ASSUME NEW f \in Files \cup {NoFile}, Move(f) PROVE TypeOK'
  <2>1. queue' \in Seq(Keys \cup {"end-file"}) /\ Len(queue') <= user.waiting
    BY <1>2, UserBounds DEF TypeOK, Move
  <2>2. moves + 1 \in 0 .. user.moves
    BY <1>2, UserBounds DEF TypeOK, Move
  <2>3. alive' \in BOOLEAN
    BY <1>2 DEF Move, TypeOK
  <2>4. QED
    BY <1>2, <2>1, <2>2, <2>3 DEF TypeOK, Move
<1>3. CASE Marking
  <2>1. \E k : Handle(k)
    BY <1>3 DEF Marking, SetStart, SetEnd, SetStartOfFile, SetEndOfFile, ToggleMode, Clear, RefuseRender
  <2>2. job' = job
    BY <1>3 DEF Marking, SetStart, SetEnd, SetStartOfFile, SetEndOfFile, ToggleMode, Clear, RefuseRender
  <2>3. cuts' \in Seq(Cut)
    <3>1. cuts \in Seq(Cut) /\ <<>> \in Seq(Cut) /\ 0 \in Times /\ Length \in Times
      BY CutAssumption DEF TypeOK, Times
    <3>2. ASSUME NEW t \in Times, SetStart(t) \/ SetEnd(t) PROVE cuts' \in Seq(Cut)
      BY <3>1, <3>2, MarkingKeepsCuts DEF SetStart, SetEnd
    <3>3. CASE SetStartOfFile
      BY <3>1, <3>3, MarkingKeepsCuts DEF SetStartOfFile
    <3>4. CASE SetEndOfFile
      BY <3>1, <3>4, MarkingKeepsCuts DEF SetEndOfFile
    <3>5. CASE Clear
      BY <3>1, <3>5 DEF Clear, Cleared
    <3>6. CASE ToggleMode \/ RefuseRender
      BY <3>1, <3>6 DEF ToggleMode, RefuseRender
    <3>7. QED
      BY <1>3, <3>2, <3>3, <3>4, <3>5, <3>6 DEF Marking
  <2>4. mode' \in {"separate", "merge"}
    BY <1>3 DEF TypeOK, Marking, SetStart, SetEnd, SetStartOfFile, SetEndOfFile, ToggleMode, Clear, RefuseRender
  <2>5. alive' \in BOOLEAN
    <3>1. CASE SetEndOfFile
      <4>1. PICK d : alive' = (cuts = <<>> \/ d # NoTime)
        BY <3>1 DEF SetEndOfFile
      <4>2. QED
        BY <4>1
    <3>2. CASE ~SetEndOfFile
      <4>1. alive' = alive
        BY <1>3, <3>2 DEF Marking, SetStart, SetEnd, SetStartOfFile, ToggleMode, Clear, RefuseRender
      <4>2. QED
        BY <4>1 DEF TypeOK
    <3>3. QED
      BY <3>1, <3>2
  <2>6. QED
    BY <2>1, <2>2, <2>3, <2>4, <2>5, HandleTypes DEF TypeOK
<1>4. CASE StartRender
  <2>1. Handle("render")
    BY <1>4 DEF StartRender
  <2>2. job' \in Job
    <3>1. CASE playing = NoFile
      BY <1>4, <3>1 DEF StartRender, TypeOK
    <3>2. CASE playing # NoFile
      <4>1. [phase |-> "path", path |-> playing] \in PathJob
        BY <3>2 DEF TypeOK, PathJob
      <4>2. QED
        BY <1>4, <3>2, <4>1 DEF StartRender, Job
    <3>3. QED
      BY <3>1, <3>2
  <2>3. alive' \in BOOLEAN
    BY <1>4 DEF StartRender, TypeOK
  <2>4. QED
    BY <1>4, <2>1, <2>2, <2>3, HandleTypes DEF StartRender, TypeOK
<1>5. CASE ReadName
  <2>1. job' \in Job
    <3>1. CASE playing = NoFile
      BY <1>5, <3>1 DEF ReadName, Job
    <3>2. CASE playing # NoFile
      <4>1. job.path \in Files
        BY <1>5, JobPhases DEF ReadName, TypeOK, PathJob
      <4>2. [phase |-> "named", path |-> job.path, film |-> playing] \in NamedJob
        BY <3>2, <4>1 DEF TypeOK, NamedJob
      <4>3. QED
        BY <1>5, <3>2, <4>2 DEF ReadName, Job
    <3>3. QED
      BY <3>1, <3>2
  <2>2. alive' \in BOOLEAN
    BY <1>5 DEF ReadName, TypeOK
  <2>3. QED
    BY <1>5, <2>1, <2>2 DEF ReadName, TypeOK
<1>6. CASE GiveUp
  <2>1. NoJob \in Job
    BY DEF Job
  <2>2. alive' \in BOOLEAN
    BY <1>6 DEF GiveUp, TypeOK
  <2>3. dump' \in {"none", "partial", "whole"}
    BY <1>6 DEF GiveUp, TypeOK
  <2>4. QED
    BY <1>6, <2>1, <2>2, <2>3 DEF GiveUp, TypeOK
<1>7. ASSUME Prepare \/ \E t \in Times : PrepareStream(t) PROVE TypeOK'
  <2>1. job.phase = "named" /\ cuts' \in Sorted(cuts)
    BY <1>7 DEF Prepare, PrepareStream
  <2>2. job \in NamedJob
    BY <2>1, JobPhases DEF TypeOK
  <2>3. cuts' \in Seq(Cut)
    BY <2>1, SortedKeeps DEF TypeOK
  <2>4. ASSUME NEW input \in Files, NEW t \in Times PROVE Rendering(input, t, t) \in Job
    <3>1. <<>> \in Seq(Name) /\ 1 \in Nat \ {0}
      OBVIOUS
    <3>2. Rendering(input, t, t) \in LoopJob
      BY <2>2, <2>4, <3>1 DEF Rendering, LoopJob, NamedJob
    <3>3. QED
      BY <3>2 DEF Job
  <2>5. job' \in Job
    <3>1. CASE Prepare
      <4>1. job.path \in Files /\ 0 \in Times
        BY <2>2, CutAssumption DEF NamedJob, Times
      <4>2. QED
        BY <2>4, <3>1, <4>1 DEF Prepare
    <3>2. ASSUME NEW t \in Times, PrepareStream(t) PROVE job' \in Job
      BY <2>4, <3>2 DEF PrepareStream, TypeOK
    <3>3. QED
      BY <1>7, <3>1, <3>2
  <2>6. alive' \in BOOLEAN
    BY <1>7 DEF Prepare, PrepareStream, TypeOK
  <2>7. QED
    BY <1>7, <2>3, <2>5, <2>6 DEF Prepare, PrepareStream, TypeOK
<1>8. ASSUME RenderCut \/ RenderFails PROVE TypeOK'
  <2>1. InLoop /\ job \in LoopJob
    BY <1>8, JobPhases DEF RenderCut, RenderFails, InLoop, TypeOK
  <2>2. NextCut \in LoopJob
    BY <2>1 DEF NextCut, LoopJob
  <2>3. job' \in LoopJob
    <3>1. CASE job' = NextCut
      BY <2>2, <3>1
    <3>2. CASE job' # NextCut
      <4>1. Complete(cuts[job.at]) /\ job' = [NextCut EXCEPT !.done = Append(@, ThisName)]
        BY <1>8, <3>2 DEF RenderCut, RenderFails
      <4>2. cuts[job.at] \in Cut /\ job.film \in Files /\ job.at \in Nat /\ Len(cuts) \in Nat
        BY <2>1 DEF InLoop, LoopJob, TypeOK
      <4>3. ThisName \in Name
        BY <4>1, <4>2, NameOfCut DEF ThisName
      <4>4. Append(NextCut.done, ThisName) \in Seq(Name)
        BY <2>2, <4>3 DEF LoopJob
      <4>5. QED
        BY <2>2, <4>1, <4>4 DEF LoopJob
    <3>3. QED
      BY <3>1, <3>2
  <2>4. alive' \in BOOLEAN
    BY <1>8 DEF RenderCut, RenderFails, TypeOK
  <2>5. QED
    BY <1>8, <2>3, <2>4 DEF RenderCut, RenderFails, TypeOK, Job
<1>9. ASSUME Merge \/ MergeFails PROVE TypeOK'
  <2>1. job \in LoopJob /\ job' = Merged
    BY <1>9, JobPhases DEF Merge, MergeFails, LoopDone, TypeOK
  <2>2. job' \in MergedJob
    BY <2>1 DEF Merged, LoopJob, MergedJob
  <2>3. alive' \in BOOLEAN
    BY <1>9 DEF Merge, MergeFails, TypeOK
  <2>4. QED
    BY <1>9, <2>2, <2>3 DEF Merge, MergeFails, TypeOK, Job
<1>10. CASE Finish
  <2>1. NoJob \in Job /\ dump' \in {"none", "partial", "whole"}
    BY <1>10 DEF Job, Finish, DumpAfter, TypeOK
  <2>2. alive' \in BOOLEAN
    BY <1>10 DEF Finish, TypeOK
  <2>3. QED
    BY <1>10, <2>1, <2>2 DEF Finish, TypeOK
<1>11. CASE UNCHANGED vars
  <2>1. alive' \in BOOLEAN
    BY <1>11 DEF vars, TypeOK
  <2>2. QED
    BY <1>11, <2>1 DEF vars, TypeOK
<1>12. QED
  BY <1>1, <1>2, <1>3, <1>4, <1>5, <1>6, <1>7, <1>8, <1>9, <1>10, <1>11 DEF Next, Script

\* Marking a start or an end leaves every cut but the newest complete.
LEMMA MarkingLeavesLastOpen ==
  ASSUME OnlyLastOpen, NEW t \in Times \cup {NoTime}
  PROVE  /\ \A i \in DOMAIN StartedAt(t) : i < Len(StartedAt(t)) => Complete(StartedAt(t)[i])
         /\ cuts # <<>> => \A i \in DOMAIN EndedAt(t) : i < Len(EndedAt(t)) => Complete(EndedAt(t)[i])
<1>1. cuts \in Seq(Cut) /\ \A i \in DOMAIN cuts : i < Len(cuts) => Complete(cuts[i])
  BY DEF OnlyLastOpen, TypeOK
<1>2. \A i \in DOMAIN StartedAt(t) : i < Len(StartedAt(t)) => Complete(StartedAt(t)[i])
  <2>1. CASE cuts = <<>> \/ Complete(Last(cuts))
    BY <1>1, <2>1 DEF StartedAt, Last
  <2>2. CASE cuts # <<>> /\ ~Complete(Last(cuts))
    BY <1>1, <2>2 DEF StartedAt
  <2>3. QED
    BY <2>1, <2>2
<1>3. ASSUME cuts # <<>>
      PROVE \A i \in DOMAIN EndedAt(t) : i < Len(EndedAt(t)) => Complete(EndedAt(t)[i])
  BY <1>1, <1>3 DEF EndedAt
<1>4. QED
  BY <1>2, <1>3

LEMMA OnlyLastOpenStep ==
  ASSUME OnlyLastOpen, [Next]_vars
  PROVE  OnlyLastOpen'
<1>. USE DEF OnlyLastOpen
<1>1. TypeOK'
  BY TypeStep
<1>2. CASE cuts' = cuts /\ (job' = NoJob \/ job # NoJob)
  BY <1>1, <1>2 DEF AllComplete
<1>3. CASE Marking
  <2>1. job = NoJob /\ job' = job
    BY <1>3 DEF Marking, SetStart, SetEnd, SetStartOfFile, SetEndOfFile, ToggleMode, Clear, RefuseRender, Handle
  <2>2. \A i \in DOMAIN cuts' : i < Len(cuts') => Complete(cuts'[i])
    <3>1. 0 \in Times /\ Length \in Times
      BY CutAssumption DEF Times
    <3>2. ASSUME NEW t \in Times, SetStart(t) \/ SetEnd(t)
          PROVE \A i \in DOMAIN cuts' : i < Len(cuts') => Complete(cuts'[i])
      BY <3>2, MarkingLeavesLastOpen DEF SetStart, SetEnd
    <3>3. CASE SetStartOfFile
      BY <3>1, <3>3, MarkingLeavesLastOpen DEF SetStartOfFile
    <3>4. CASE SetEndOfFile
      BY <3>1, <3>4, MarkingLeavesLastOpen DEF SetEndOfFile
    <3>5. CASE Clear
      BY <3>5 DEF Clear, Cleared
    <3>6. CASE ToggleMode \/ RefuseRender
      BY <3>6 DEF ToggleMode, RefuseRender
    <3>7. QED
      BY <1>3, <3>2, <3>3, <3>4, <3>5, <3>6 DEF Marking
  <2>3. QED
    BY <1>1, <2>1, <2>2
<1>4. CASE StartRender
  <2>1. cuts' = cuts /\ cuts \in Seq(Cut) /\ cuts # <<>> /\ Complete(cuts[Len(cuts)])
    BY <1>4 DEF StartRender, Renderable, Last, TypeOK
  <2>2. AllComplete(cuts)
    BY <2>1 DEF AllComplete
  <2>3. QED
    BY <1>1, <2>1, <2>2
<1>5. ASSUME Prepare \/ \E t \in Times : PrepareStream(t) PROVE OnlyLastOpen'
  <2>1. cuts' \in Sorted(cuts) /\ job # NoJob /\ cuts \in Seq(Cut)
    BY <1>5 DEF Prepare, PrepareStream, NoJob, TypeOK
  <2>2. \A i \in 1 .. Len(cuts) : Complete(cuts[i])
    BY <2>1 DEF AllComplete
  <2>3. /\ cuts' \in Seq(Cut)
        /\ \A i \in 1 .. Len(cuts') : \E j \in 1 .. Len(cuts) : cuts'[i] = cuts[j]
    BY <2>1, SortedKeeps
  <2>4. \A i \in DOMAIN cuts' : Complete(cuts'[i])
    BY <2>2, <2>3
  <2>5. QED
    BY <1>1, <2>4 DEF AllComplete
<1>6. QED
  <2>1. ASSUME (\E k \in user.keys : Press(k)) \/ (\E f \in Files \cup {NoFile} : Move(f)) \/ UNCHANGED vars
        PROVE cuts' = cuts /\ (job' = NoJob \/ job # NoJob)
    BY <2>1 DEF Press, Move, vars
  <2>2. ASSUME ReadName \/ GiveUp \/ RenderCut \/ RenderFails \/ Merge \/ MergeFails \/ Finish
        PROVE cuts' = cuts /\ (job' = NoJob \/ job # NoJob)
    BY <2>2 DEF ReadName, GiveUp, RenderCut, RenderFails, Merge, MergeFails, Finish, InLoop, LoopDone, NoJob
  <2>3. QED
    BY <1>2, <1>3, <1>4, <1>5, <2>1, <2>2 DEF Next, Script

\* A handled key leaves a waiting end-file waiting.
LEMMA PendingStays ==
  ASSUME TypeOK, NEW k \in Keys, Handle(k), Pending
  PROVE  Pending'
<1>1. PICK i \in DOMAIN queue : queue[i] = "end-file"
  BY DEF Pending
<1>2. queue \in Seq(Keys \cup {"end-file"}) /\ queue # <<>> /\ queue' = Tail(queue) /\ queue[1] = k
  BY DEF TypeOK, Handle
<1>3. i # 1
  BY <1>1, <1>2 DEF Keys
<1>4. i - 1 \in DOMAIN queue' /\ queue'[i - 1] = queue[i]
  BY <1>1, <1>2, <1>3
<1>5. QED
  BY <1>1, <1>4 DEF Pending

\* The marks are of the file that plays when they are set.
LEMMA MarksAreOfPlaying ==
  ASSUME TypeOK, \A i \in DOMAIN cuts : cuts[i].of \in {playing, NoFile}, NEW t
  PROVE  /\ \A i \in DOMAIN StartedAt(t) : StartedAt(t)[i].of \in {playing, NoFile}
         /\ cuts # <<>> => \A i \in DOMAIN EndedAt(t) : EndedAt(t)[i].of \in {playing, NoFile}
<1>1. cuts \in Seq(Cut)
  BY DEF TypeOK
<1>2. \A i \in DOMAIN StartedAt(t) : StartedAt(t)[i].of \in {playing, NoFile}
  <2>1. CASE cuts = <<>> \/ Complete(Last(cuts))
    BY <1>1, <2>1 DEF StartedAt
  <2>2. CASE cuts # <<>> /\ ~Complete(Last(cuts))
    BY <1>1, <2>2 DEF StartedAt
  <2>3. QED
    BY <2>1, <2>2
<1>3. ASSUME cuts # <<>>, NEW i \in DOMAIN EndedAt(t) PROVE EndedAt(t)[i].of \in {playing, NoFile}
  <2>1. i \in DOMAIN cuts /\ cuts[i] \in Cut
    BY <1>1, <1>3 DEF EndedAt
  <2>2. EndedAt(t)[i].of = cuts[i].of
    BY <2>1 DEF EndedAt, Cut
  <2>3. QED
    BY <2>1, <2>2
<1>4. QED
  BY <1>2, <1>3

LEMMA OneFileStep ==
  ASSUME TypeOK, OneFileUnlessPending, [Next]_vars
  PROVE  OneFileUnlessPending'
<1>1. TypeOK'
  BY TypeStep
<1>2. CASE UNCHANGED vars
  BY <1>2 DEF OneFileUnlessPending, Pending, Looping, vars
<1>. SUFFICES ASSUME Next, alive, alive', ~Pending' PROVE OneFileUnlessPending'
  <2>1. alive' \/ ~alive'
    OBVIOUS
  <2>2. ~alive => ~alive'
    <3>1. ASSUME ~alive PROVE ~Next
      BY <3>1 DEF Next, Press, Move, Script, Marking, SetStart, SetEnd, SetStartOfFile, SetEndOfFile,
         ToggleMode, Clear, RefuseRender, StartRender, ReadName, GiveUp, Prepare, PrepareStream,
         RenderCut, RenderFails, InLoop, Merge, MergeFails, LoopDone, Finish, Handle
    <3>2. QED
      BY <1>2, <3>1 DEF vars
  <2>3. QED
    BY <1>2, <2>2 DEF OneFileUnlessPending
<1>3. ASSUME NEW k \in user.keys, Press(k) PROVE OneFileUnlessPending'
  <2>1. ~Pending
    <3>1. ASSUME Pending PROVE Pending'
      BY <1>3, <3>1 DEF Pending, Press, TypeOK
    <3>2. QED
      BY <3>1
  <2>2. QED
    BY <1>3, <2>1 DEF OneFileUnlessPending, Looping, Press
<1>4. ASSUME NEW f \in Files \cup {NoFile}, Move(f) PROVE OneFileUnlessPending'
  <2>1. playing = NoFile /\ queue' = queue
    <3>1. ASSUME playing # NoFile PROVE Pending'
      <4>1. queue' = Append(queue, "end-file") /\ Len(queue) \in Nat
        BY <1>4, <3>1 DEF Move, TypeOK
      <4>2. Len(queue) + 1 \in DOMAIN queue' /\ queue'[Len(queue) + 1] = "end-file"
        BY <4>1 DEF TypeOK
      <4>3. QED
        BY <4>2 DEF Pending
    <3>2. QED
      BY <1>4, <3>1 DEF Move
  <2>2. \A i \in DOMAIN cuts : cuts[i].of = NoFile
    BY <2>1 DEF OneFileUnlessPending, Pending
  <2>3. job.phase \notin {"path", "named", "cuts"}
    <3>1. job.phase \in {"path", "named", "cuts"} => job.path \in Files
      BY JobPhases DEF TypeOK, PathJob, NamedJob, LoopJob
    <3>2. QED
      BY <2>1, <3>1, CutAssumption DEF OneFileUnlessPending, Pending
  <2>4. QED
    BY <1>4, <2>2, <2>3 DEF OneFileUnlessPending, Looping, Move
<1>5. CASE Marking
  <2>1. CASE Clear
    BY <2>1 DEF Clear, Cleared, Handle, OneFileUnlessPending, Looping, NoJob
  <2>2. CASE ~Clear
    <3>1. \E k \in Keys : Handle(k)
      BY <1>5, <2>2 DEF Marking, SetStart, SetEnd, SetStartOfFile, SetEndOfFile, ToggleMode, RefuseRender, Keys
    <3>2. ~Pending
      BY <3>1, PendingStays
    <3>3. job = NoJob /\ job' = NoJob /\ playing' = playing
      BY <1>5, <2>2, <3>1 DEF Marking, SetStart, SetEnd, SetStartOfFile, SetEndOfFile, ToggleMode, RefuseRender, Handle
    <3>4. \A i \in DOMAIN cuts : cuts[i].of \in {playing, NoFile}
      BY <3>2 DEF OneFileUnlessPending
    <3>5. \/ cuts' = cuts
          \/ \E t : cuts' = StartedAt(t)
          \/ cuts # <<>> /\ \E t : cuts' = EndedAt(t)
      <4>1. ASSUME NEW t, SetStart(t) \/ SetEnd(t)
          PROVE cuts' = cuts \/ (\E u : cuts' = StartedAt(u)) \/ (cuts # <<>> /\ \E u : cuts' = EndedAt(u))
        BY <4>1 DEF SetStart, SetEnd
      <4>2. CASE SetStartOfFile
        BY <4>2 DEF SetStartOfFile
      <4>3. CASE SetEndOfFile
        BY <4>3 DEF SetEndOfFile
      <4>4. CASE ToggleMode \/ RefuseRender
        BY <4>4 DEF ToggleMode, RefuseRender
      <4>5. QED
        BY <1>5, <2>2, <4>1, <4>2, <4>3, <4>4 DEF Marking
    <3>6. \A i \in DOMAIN cuts' : cuts'[i].of \in {playing, NoFile}
      BY <3>4, <3>5, MarksAreOfPlaying
    <3>7. QED
      BY <3>3, <3>6 DEF OneFileUnlessPending, Looping, NoJob
  <2>3. QED
    BY <2>1, <2>2
<1>6. ASSUME StartRender \/ ReadName \/ GiveUp PROVE OneFileUnlessPending'
  <2>1. ~Pending
    <3>1. CASE StartRender
      BY <3>1, PendingStays DEF StartRender, Keys
    <3>2. CASE ReadName \/ GiveUp
      BY <3>2 DEF ReadName, GiveUp, Pending
    <3>3. QED
      BY <1>6, <3>1, <3>2
  <2>2. CASE StartRender
    BY <2>1, <2>2 DEF StartRender, Handle, OneFileUnlessPending, Looping
  <2>3. CASE ReadName
    BY <2>1, <2>3 DEF ReadName, OneFileUnlessPending, Looping
  <2>4. CASE GiveUp
    BY <2>1, <2>4 DEF GiveUp, OneFileUnlessPending, Looping, NoJob
  <2>5. QED
    BY <1>6, <2>2, <2>3, <2>4
<1>7. ASSUME Prepare \/ \E t \in Times : PrepareStream(t) PROVE OneFileUnlessPending'
  <2>1. ~Pending /\ playing' = playing /\ job.phase = "named" /\ cuts' \in Sorted(cuts)
    BY <1>7 DEF Prepare, PrepareStream, Pending
  <2>2. job.path = playing /\ job.film = playing /\ \A i \in DOMAIN cuts : cuts[i].of \in {playing, NoFile}
    BY <2>1 DEF OneFileUnlessPending
  <2>3. /\ cuts' \in Seq(Cut)
        /\ \A i \in 1 .. Len(cuts') : \E j \in 1 .. Len(cuts) : cuts'[i] = cuts[j]
    BY <2>1, SortedKeeps, SMTT(30) DEF TypeOK
  <2>4. \A i \in DOMAIN cuts' : cuts'[i].of \in {playing, NoFile}
    BY <2>2, <2>3, SMTT(30) DEF TypeOK
  <2>5. job'.path = playing /\ job'.film = playing /\ job'.input = playing
    BY <1>7, <2>2 DEF Prepare, PrepareStream, Rendering
  <2>6. QED
    BY <2>1, <2>4, <2>5 DEF OneFileUnlessPending
<1>8. ASSUME RenderCut \/ RenderFails PROVE OneFileUnlessPending'
  <2>1. ~Pending /\ playing' = playing /\ cuts' = cuts /\ job \in LoopJob /\ job.phase = "cuts"
    BY <1>8, JobPhases DEF RenderCut, RenderFails, InLoop, Pending, TypeOK
  <2>2. job'.path = job.path /\ job'.film = job.film /\ job'.input = job.input
    BY <1>8, <2>1 DEF RenderCut, RenderFails, NextCut, LoopJob
  <2>3. QED
    BY <2>1, <2>2 DEF OneFileUnlessPending, Looping
<1>9. ASSUME Merge \/ MergeFails \/ Finish PROVE OneFileUnlessPending'
  <2>1. ~Pending /\ playing' = playing /\ cuts' = cuts
    BY <1>9 DEF Merge, MergeFails, Finish, Pending
  <2>2. job'.phase \in {"none", "merged"}
    BY <1>9 DEF Merge, MergeFails, Merged, Finish, NoJob
  <2>3. QED
    BY <2>1, <2>2 DEF OneFileUnlessPending, Looping
<1>10. QED
  BY <1>3, <1>4, <1>5, <1>6, <1>7, <1>8, <1>9 DEF Next, Script

LEMMA LoopGoesOnStep ==
  ASSUME TypeOK, LoopGoesOn, [Next]_vars
  PROVE  LoopGoesOn'
<1>1. ASSUME Prepare \/ \E t \in Times : PrepareStream(t) PROVE LoopGoesOn'
  <2>1. InOrder(cuts')
    BY <1>1, SortedKeeps DEF Prepare, PrepareStream, TypeOK
  <2>2. job'.origin = job'.offset
    BY <1>1 DEF Prepare, PrepareStream, Rendering
  <2>3. QED
    BY <2>1, <2>2 DEF LoopGoesOn
<1>2. ASSUME RenderCut \/ RenderFails PROVE LoopGoesOn'
  <2>1. job \in LoopJob /\ Looping /\ cuts' = cuts
    BY <1>2, JobPhases DEF RenderCut, RenderFails, InLoop, Looping, TypeOK
  <2>2. job'.origin = job.origin /\ job'.offset = job.offset
    BY <1>2, <2>1 DEF RenderCut, RenderFails, NextCut, LoopJob
  <2>3. QED
    BY <2>1, <2>2 DEF LoopGoesOn
<1>3. CASE UNCHANGED <<cuts, job>>
  BY <1>3 DEF LoopGoesOn, Looping, InOrder
<1>4. CASE ~Looping'
  BY <1>4 DEF LoopGoesOn
<1>5. QED
  <2>1. ASSUME Marking \/ StartRender \/ ReadName \/ GiveUp \/ Merge \/ MergeFails \/ Finish
        PROVE ~Looping'
    BY <2>1 DEF Marking, SetStart, SetEnd, SetStartOfFile, SetEndOfFile, ToggleMode, Clear, RefuseRender, Handle,
       StartRender, ReadName, GiveUp, Merge, MergeFails, Merged, Finish, Looping, NoJob
  <2>2. ASSUME (\E k \in user.keys : Press(k)) \/ (\E f \in Files \cup {NoFile} : Move(f)) \/ UNCHANGED vars
        PROVE UNCHANGED <<cuts, job>>
    BY <2>2 DEF Press, Move, vars
  <2>3. QED
    BY <1>1, <1>2, <1>3, <1>4, <2>1, <2>2 DEF Next, Script

\* What a rendering shows of a cut: what is taken off the start has been put on
\* before, so of a film it is the time that was marked, and of a stream what
\* of it the cache still has.
LEMMA PieceShown ==
  ASSUME TypeOK, Looping, LoopGoesOn, NEW c \in Cut
  PROVE  Piece(c) = Shown(c)
<1>1. job.origin \in Int /\ job.offset = job.origin /\ c.start \in Int
  BY JobPhases, CutAssumption DEF TypeOK, Looping, LoopGoesOn, LoopJob, Times, Cut
<1>2. job.origin + (IF c.start - job.offset < 0 THEN 0 ELSE c.start - job.offset)
        = IF c.start < job.origin THEN job.origin ELSE c.start
  BY <1>1
<1>3. QED
  BY <1>2 DEF Piece, Shown

\* Two cuts of one list have different names: with more than one cut in the
\* list the name has the cut's number.
LEMMA NamesDiffer ==
  ASSUME NEW film, NEW i, NEW j, NEW n, NEW c, NEW d, n # 1, i # j
  PROVE  CutName(film, i, n, c) # CutName(film, j, n, d)
<1>1. CutName(film, i, n, c).cut = i /\ CutName(film, j, n, d).cut = j
  BY DEF CutName
<1>2. QED
  BY <1>1

LEMMA Kinds ==
  ASSUME NEW film, NEW i, NEW n, NEW c
  PROVE  "merged" \notin DOMAIN CutName(film, i, n, c) /\ "merged" \in DOMAIN MergedName(film, n)
BY DEF CutName, MergedName

LEMMA NamesAreNotMerged == \A n \in Name : "merged" \notin DOMAIN n
BY DEF Name

\* Rendering a cut, or failing to, adds to the rendered files or leaves them:
\* its name is none of theirs.
LEMMA OwnFileLoop ==
  ASSUME OnlyLastOpen, LoopGoesOn, EachCutItsOwnFile, RenderCut \/ RenderFails
  PROVE  EachCutItsOwnFile'
<1>1. /\ InLoop /\ Looping /\ job \in LoopJob /\ cuts' = cuts /\ cuts \in Seq(Cut)
      /\ job.at \in 1 .. Len(cuts) /\ Complete(cuts[job.at])
  BY JobPhases DEF RenderCut, RenderFails, InLoop, Looping, OnlyLastOpen, AllComplete, TypeOK, LoopJob, NoJob
<1>2. PICK place \in [DOMAIN job.done -> 1 .. Len(cuts)] : InPlace(place)
  BY <1>1 DEF EachCutItsOwnFile
<1>3. job.done \in Seq(Name) /\ DOMAIN job.done = 1 .. Len(job.done) /\ Len(job.done) \in Nat
  BY <1>1 DEF LoopJob
<1>4. /\ job'.film = job.film /\ job'.input = job.input /\ job'.origin = job.origin
      /\ job'.at = job.at + 1
  BY <1>1 DEF RenderCut, RenderFails, NextCut, LoopJob
<1>6. \A i \in DOMAIN job.done : job.done[i] # ThisName
  <2>1. SUFFICES ASSUME NEW i \in DOMAIN job.done PROVE job.done[i] # ThisName
    OBVIOUS
  <2>2. /\ place[i] \in 1 .. Len(cuts) /\ place[i] < job.at
        /\ job.done[i] = CutName(job.film, place[i], Len(cuts), cuts[place[i]])
    BY <1>2, <2>1 DEF InPlace
  <2>3. Len(cuts) # 1 /\ place[i] # job.at
    BY <1>1, <2>2
  <2>4. QED
    BY <2>2, <2>3, NamesDiffer DEF ThisName
<1>7. ASSUME NEW pieces, disk' = Write(ThisName, pieces), NEW i \in DOMAIN job.done
      PROVE  job.done[i] \in DOMAIN disk' /\ disk'[job.done[i]] = <<Shown(cuts[place[i]])>>
  <2>1. job.done[i] \in DOMAIN disk /\ disk[job.done[i]] = <<Shown(cuts[place[i]])>>
    BY <1>2, <1>7 DEF InPlace
  <2>2. QED
    <3>1. job.done[i] # ThisName
      BY <1>6, <1>7
    <3>2. QED
      BY <1>7, <2>1, <3>1 DEF Write
<1>8. CASE RenderFails
  <2>1. job'.done = job.done
    BY <1>1, <1>8 DEF RenderFails, NextCut, LoopJob
  <2>2. \A i \in DOMAIN job.done : job.done[i] \in DOMAIN disk' /\ disk'[job.done[i]] = <<Shown(cuts[place[i]])>>
    <3>1. CASE disk' = disk
      BY <1>2, <3>1 DEF InPlace
    <3>2. CASE disk' = Write(ThisName, <<>>)
      BY <1>7, <3>2
    <3>3. QED
      BY <1>8, <3>1, <3>2 DEF RenderFails
  <2>3. \A i \in DOMAIN place : place[i] < job'.at
    BY <1>1, <1>2, <1>4 DEF InPlace
  <2>4. InPlace(place)'
    BY <1>1, <1>2, <1>4, <2>1, <2>2, <2>3 DEF InPlace, Shown
  <2>5. QED
    BY <1>1, <1>2, <2>1, <2>4 DEF EachCutItsOwnFile
<1>9. CASE RenderCut
  <2>0. PICK more : more = [i \in 1 .. Len(job.done) + 1 |-> IF i <= Len(job.done) THEN place[i] ELSE job.at]
    OBVIOUS
  <2>1. /\ disk' = Write(ThisName, <<Piece(cuts[job.at])>>)
        /\ job'.done = Append(job.done, ThisName)
    BY <1>1, <1>9 DEF RenderCut, NextCut, LoopJob
  <2>2. DOMAIN job'.done = 1 .. Len(job.done) + 1
    BY <1>3, <2>1
  <2>3. more \in [DOMAIN job'.done -> 1 .. Len(cuts')] /\ DOMAIN more = 1 .. Len(job.done) + 1
    BY <1>1, <1>2, <1>3, <2>0, <2>2
  <2>4. ASSUME NEW i \in DOMAIN more
        PROVE /\ more[i] < job'.at
              /\ job'.done[i] = CutName(job'.film, more[i], Len(cuts'), cuts'[more[i]])
              /\ job'.done[i] \in DOMAIN disk'
              /\ disk'[job'.done[i]] = <<Shown(cuts[more[i]])>>
    <3>1. CASE i <= Len(job.done)
      <4>1. i \in DOMAIN job.done /\ more[i] = place[i] /\ job'.done[i] = job.done[i]
        BY <1>3, <2>0, <2>1, <2>3, <2>4, <3>1
      <4>2. /\ place[i] \in 1 .. Len(cuts) /\ place[i] < job.at
            /\ job.done[i] = CutName(job.film, place[i], Len(cuts), cuts[place[i]])
        BY <1>2, <4>1 DEF InPlace
      <4>3. job.done[i] \in DOMAIN disk' /\ disk'[job.done[i]] = <<Shown(cuts[place[i]])>>
        BY <1>7, <2>1, <4>1
      <4>4. place[i] < job'.at
        BY <1>1, <1>4, <4>2
      <4>5. CutName(job'.film, place[i], Len(cuts'), cuts'[place[i]]) = job.done[i]
        BY <1>1, <1>4, <4>2
      <4>6. QED
        BY <1>1, <4>1, <4>3, <4>4, <4>5
    <3>2. CASE i = Len(job.done) + 1
      <4>1. more[i] = job.at /\ job'.done[i] = ThisName
        BY <1>3, <2>0, <2>1, <3>2
      <4>2. Piece(cuts[job.at]) = Shown(cuts[job.at])
        BY <1>1, PieceShown DEF OnlyLastOpen
      <4>3. ThisName \in DOMAIN disk' /\ disk'[ThisName] = <<Shown(cuts[job.at])>>
        BY <2>1, <4>2 DEF Write
      <4>4. CutName(job'.film, job.at, Len(cuts'), cuts'[job.at]) = ThisName
        BY <1>1, <1>4 DEF ThisName
      <4>5. QED
        BY <1>1, <1>4, <4>1, <4>3, <4>4
    <3>3. QED
      BY <1>3, <2>3, <2>4, <3>1, <3>2
  <2>5. ASSUME NEW i \in DOMAIN more, NEW j \in DOMAIN more, i < j PROVE more[i] < more[j]
    <3>1. i \in DOMAIN place /\ place[i] \in 1 .. Len(cuts) /\ place[i] < job.at /\ more[i] = place[i]
      <4>1. i \in 1 .. Len(job.done) + 1 /\ j \in 1 .. Len(job.done) + 1
        BY <2>3
      <4>2. i <= Len(job.done) /\ i \in DOMAIN place
        BY <1>3, <2>5, <4>1
      <4>3. more[i] = place[i]
        BY <2>0, <4>1, <4>2
      <4>4. QED
        BY <1>2, <4>2, <4>3 DEF InPlace
    <3>2. CASE j <= Len(job.done)
      <4>1. j \in DOMAIN place /\ more[j] = place[j]
        BY <1>2, <1>3, <2>0, <2>3, <2>5, <3>2
      <4>2. QED
        BY <1>2, <2>5, <3>1, <4>1 DEF InPlace
    <3>3. CASE j = Len(job.done) + 1
      BY <1>3, <2>0, <2>5, <3>1, <3>3
    <3>4. j \in 1 .. Len(job.done) + 1
      BY <2>3, <2>5
    <3>5. j <= Len(job.done) \/ j = Len(job.done) + 1
      BY <1>3, <3>4
    <3>6. QED
      BY <3>2, <3>3, <3>5
  <2>6. InPlace(more)'
    BY <1>1, <1>4, <2>4, <2>5 DEF InPlace, Shown
  <2>7. QED
    BY <2>3, <2>6 DEF EachCutItsOwnFile
<1>10. QED
  BY <1>8, <1>9

LEMMA OwnFileStep ==
  ASSUME OnlyLastOpen, LoopGoesOn, EachCutItsOwnFile, [Next]_vars
  PROVE  EachCutItsOwnFile'
<1>1. ASSUME Prepare \/ \E t \in Times : PrepareStream(t) PROVE EachCutItsOwnFile'
  <2>1. job'.done = <<>>
    BY <1>1 DEF Prepare, PrepareStream, Rendering
  <2>2. <<>> \in [DOMAIN <<>> -> 1 .. Len(cuts')] /\ InPlace(<<>>)'
    BY DEF InPlace
  <2>3. QED
    BY <2>1, <2>2 DEF EachCutItsOwnFile
<1>2. CASE UNCHANGED <<cuts, job, disk>>
  BY <1>2 DEF EachCutItsOwnFile, InPlace, Shown, Looping
<1>3. CASE ~Looping'
  BY <1>3 DEF EachCutItsOwnFile
<1>4. QED
  <2>1. ASSUME Marking \/ StartRender \/ ReadName \/ GiveUp \/ Merge \/ MergeFails \/ Finish
        PROVE ~Looping'
    BY <2>1 DEF Marking, SetStart, SetEnd, SetStartOfFile, SetEndOfFile, ToggleMode, Clear, RefuseRender, Handle,
       StartRender, ReadName, GiveUp, Merge, MergeFails, Merged, Finish, Looping, NoJob
  <2>2. ASSUME (\E k \in user.keys : Press(k)) \/ (\E f \in Files \cup {NoFile} : Move(f)) \/ UNCHANGED vars
        PROVE UNCHANGED <<cuts, job, disk>>
    BY <2>2 DEF Press, Move, vars
  <2>3. QED
    BY <1>1, <1>2, <1>3, <2>1, <2>2, OwnFileLoop DEF Next, Script

\* When the loop is done the rendered files hold one piece each, and one after
\* the other they are in the order of the film.
LEMMA ReadyToMerge ==
  ASSUME OnlyLastOpen, LoopGoesOn, EachCutItsOwnFile, LoopDone
  PROVE  /\ DOMAIN Concat(job.done) = DOMAIN job.done
         /\ \A i \in DOMAIN job.done : disk[job.done[i]] = <<Concat(job.done)[i]>>
         /\ \A i, j \in DOMAIN job.done :
               i < j => Concat(job.done)[i].from <= Concat(job.done)[j].from
<1>1. Looping /\ job \in LoopJob /\ cuts \in Seq(Cut) /\ InOrder(cuts)
  BY JobPhases DEF LoopDone, Looping, OnlyLastOpen, TypeOK, LoopGoesOn
<1>2. PICK place \in [DOMAIN job.done -> 1 .. Len(cuts)] : InPlace(place)
  BY <1>1 DEF EachCutItsOwnFile
<1>3. DOMAIN Concat(job.done) = DOMAIN job.done
  BY DEF Concat
<1>4. ASSUME NEW i \in DOMAIN job.done
      PROVE  /\ disk[job.done[i]] = <<Shown(cuts[place[i]])>>
             /\ Concat(job.done)[i] = Shown(cuts[place[i]])
  <2>1. disk[job.done[i]] = <<Shown(cuts[place[i]])>>
    BY <1>2, <1>4 DEF InPlace
  <2>2. Concat(job.done)[i] = Head(disk[job.done[i]])
    BY <1>4 DEF Concat
  <2>3. QED
    BY <2>1, <2>2
<1>5. ASSUME NEW i \in DOMAIN job.done, NEW j \in DOMAIN job.done, i < j
      PROVE  Shown(cuts[place[i]]).from <= Shown(cuts[place[j]]).from
  <2>1. place[i] \in 1 .. Len(cuts) /\ place[j] \in 1 .. Len(cuts) /\ place[i] < place[j]
    BY <1>2, <1>5 DEF InPlace
  <2>2. cuts[place[i]].start <= cuts[place[j]].start
    BY <1>1, <2>1 DEF InOrder
  <2>3. cuts[place[i]].start \in Int /\ cuts[place[j]].start \in Int /\ job.origin \in Int
    <3>1. cuts[place[i]] \in Cut /\ cuts[place[j]] \in Cut
      BY <1>1, <2>1
    <3>2. \A c \in Cut : c.start \in Int
      BY CutAssumption DEF Cut, Times
    <3>3. job.origin \in Int
      BY <1>1, CutAssumption DEF LoopJob, Times
    <3>4. QED
      BY <3>1, <3>2, <3>3
  <2>4. QED
    BY <2>2, <2>3 DEF Shown
<1>6. QED
  BY <1>3, <1>4, <1>5

\* The name of the merged file is none of the names of its cuts.
LEMMA MergedApart ==
  ASSUME TypeOK, LoopDone
  PROVE  MergedName(job.film, Len(job.done)) \notin ToSet(job.done)
<1>1. job.done \in Seq(Name)
  BY JobPhases DEF TypeOK, LoopDone, LoopJob
<1>2. \A n \in ToSet(job.done) : "merged" \notin DOMAIN n
  BY <1>1, NamesAreNotMerged DEF ToSet
<1>3. QED
  BY <1>2, Kinds

LEMMA MergedInOrderStep ==
  ASSUME OnlyLastOpen, LoopGoesOn, EachCutItsOwnFile, MergedInOrder, [Next]_vars
  PROVE  MergedInOrder'
<1>1. CASE disk' = disk
  BY <1>1 DEF MergedInOrder
<1>2. ASSUME RenderCut \/ RenderFails PROVE MergedInOrder'
  <2>1. CASE disk' = disk
    BY <1>1, <2>1
  <2>2. ASSUME NEW pieces, disk' = Write(ThisName, pieces) PROVE MergedInOrder'
    <3>1. ASSUME NEW n \in DOMAIN disk', "merged" \in DOMAIN n PROVE n \in DOMAIN disk /\ disk'[n] = disk[n]
      <4>1. n # ThisName
        BY <3>1, Kinds DEF ThisName
      <4>2. QED
        BY <2>2, <3>1, <4>1 DEF Write
    <3>2. QED
      BY <3>1 DEF MergedInOrder
  <2>3. QED
    BY <1>2, <2>1, <2>2 DEF RenderCut, RenderFails
<1>3. CASE Merge
  <2>. DEFINE name == MergedName(job.film, Len(job.done))
  <2>1. LoopDone /\ disk' = Without(Write(name, Concat(job.done)), ToSet(job.done))
    BY <1>3 DEF Merge, WithMerged
  <2>2. ASSUME NEW n \in DOMAIN disk'
        PROVE \/ n \in DOMAIN disk /\ disk'[n] = disk[n]
              \/ disk'[n] = Concat(job.done)
    BY <2>1, <2>2 DEF Without, Write
  <2>3. \A i, j \in DOMAIN Concat(job.done) : i < j => Concat(job.done)[i].from <= Concat(job.done)[j].from
    BY <2>1, ReadyToMerge
  <2>4. ASSUME NEW n \in DOMAIN disk', "merged" \in DOMAIN n, NEW i \in DOMAIN disk'[n], NEW j \in DOMAIN disk'[n], i < j
        PROVE disk'[n][i].from <= disk'[n][j].from
    BY <2>2, <2>3, <2>4 DEF MergedInOrder
  <2>5. QED
    BY <2>4 DEF MergedInOrder
<1>4. CASE MergeFails
  <2>1. disk' = disk \/ disk' = Write(MergedName(job.film, Len(job.done)), <<>>)
    BY <1>4 DEF MergeFails, AfterFailedMerge, WithMerged
  <2>2. ASSUME NEW name, disk' = Write(name, <<>>) PROVE MergedInOrder'
    BY <2>2 DEF MergedInOrder, Write
  <2>3. QED
    BY <1>1, <2>1, <2>2
<1>5. QED
  <2>1. ASSUME \/ \E k \in user.keys : Press(k)
               \/ \E f \in Files \cup {NoFile} : Move(f)
               \/ Marking \/ StartRender \/ ReadName \/ GiveUp \/ Prepare \/ (\E t \in Times : PrepareStream(t))
               \/ Finish \/ UNCHANGED vars
        PROVE disk' = disk
    BY <2>1 DEF Press, Move, Marking, SetStart, SetEnd, SetStartOfFile, SetEndOfFile, ToggleMode, Clear, RefuseRender,
       Handle, StartRender, ReadName, GiveUp, Prepare, PrepareStream, Finish, vars
  <2>2. QED
    BY <1>1, <1>2, <1>3, <1>4, <2>1 DEF Next, Script

\* No step loses a piece of film, except by writing its file anew.
LEMMA KeepsPiecesStep ==
  ASSUME IInv, [Next]_vars, NEW n \in DOMAIN disk
  PROVE  ToSet(disk[n]) \subseteq Pieces(disk') \/ (n \in DOMAIN disk' /\ disk'[n] # disk[n])
<1>1. CASE n \in DOMAIN disk'
  <2>1. CASE disk'[n] = disk[n]
    <3>1. ToSet(disk'[n]) \subseteq Pieces(disk')
      BY <1>1 DEF Pieces
    <3>2. QED
      BY <2>1, <3>1
  <2>2. CASE disk'[n] # disk[n]
    BY <1>1, <2>2
  <2>3. QED
    BY <2>1, <2>2
<1>2. CASE Merge /\ n \in ToSet(job.done)
  <2>. DEFINE name == MergedName(job.film, Len(job.done))
  <2>1. LoopDone /\ disk' = Without(Write(name, Concat(job.done)), ToSet(job.done))
    BY <1>2 DEF Merge, WithMerged
  <2>2. PICK i \in DOMAIN job.done : n = job.done[i]
    BY <1>2 DEF ToSet
  <2>3. /\ disk[n] = <<Concat(job.done)[i]>>
        /\ i \in DOMAIN Concat(job.done)
    BY <2>1, <2>2, ReadyToMerge DEF IInv, RenderedAsMarked
  <2>4. name \in DOMAIN disk' /\ disk'[name] = Concat(job.done)
    <3>1. name \notin ToSet(job.done)
      BY <2>1, MergedApart DEF IInv, OnlyLastOpen
    <3>2. QED
      BY <2>1, <3>1 DEF Without, Write
  <2>5. ToSet(disk[n]) = {Concat(job.done)[i]}
    BY <2>3 DEF ToSet
  <2>6. Concat(job.done)[i] \in ToSet(disk'[name])
    BY <2>3, <2>4 DEF ToSet
  <2>7. ToSet(disk'[name]) \subseteq Pieces(disk')
    BY <2>4 DEF Pieces
  <2>8. QED
    BY <2>5, <2>6, <2>7
<1>3. CASE n \notin DOMAIN disk' /\ ~(Merge /\ n \in ToSet(job.done))
  <2>1. ASSUME NEW name, NEW pieces, disk' = Write(name, pieces) PROVE FALSE
    BY <1>3, <2>1 DEF Write
  <2>2. disk' # disk
    BY <1>3
  <2>3. ~Merge
    BY <1>3 DEF Merge, Without, WithMerged, Write
  <2>4. ~RenderCut /\ ~RenderFails /\ ~MergeFails
    BY <2>1, <2>2 DEF RenderCut, RenderFails, MergeFails, AfterFailedMerge, WithMerged
  <2>5. ASSUME \/ \E k \in user.keys : Press(k)
               \/ \E f \in Files \cup {NoFile} : Move(f)
               \/ Marking \/ StartRender \/ ReadName \/ GiveUp \/ Prepare \/ (\E t \in Times : PrepareStream(t))
               \/ Finish \/ UNCHANGED vars
        PROVE disk' = disk
    BY <2>5 DEF Press, Move, Marking, SetStart, SetEnd, SetStartOfFile, SetEndOfFile, ToggleMode, Clear, RefuseRender,
       Handle, StartRender, ReadName, GiveUp, Prepare, PrepareStream, Finish, vars
  <2>6. QED
    BY <2>2, <2>3, <2>4, <2>5 DEF Next, Script
<1>4. QED
  BY <1>1, <1>2, <1>3

-----------------------------------------------------------------------------
\* The inductive invariant: what the list, the rendering in progress and the
\* disk have to do with each other, in every state of every run.
THEOREM InductiveInvariant == Spec => []IInv
<1>1. Init => IInv
  <2>1. ASSUME Init PROVE OnlyLastOpen /\ OneFileUnlessPending /\ EachCutItsOwnFile /\ MergedInOrder /\ LoopGoesOn
    BY <2>1, TypeInit DEF Init, OnlyLastOpen, OneFileUnlessPending, EachCutItsOwnFile, MergedInOrder, LoopGoesOn, Looping, NoJob
  <2>2. QED
    BY <2>1 DEF IInv, RenderedAsMarked
<1>2. IInv /\ [Next]_vars => IInv'
  BY OnlyLastOpenStep, OneFileStep, OwnFileStep, MergedInOrderStep, LoopGoesOnStep
  DEF IInv, RenderedAsMarked, OnlyLastOpen
<1>3. QED
  BY <1>1, <1>2, PTL DEF Spec

\* Only the newest cut of the list may be open, and none is while a rendering
\* goes through it: cut_render's look at the last cut speaks for all of them.
THEOREM OnlyLastOpenHolds == Spec => []OnlyLastOpen
<1>1. IInv => OnlyLastOpen
  BY DEF IInv
<1>2. QED
  BY <1>1, InductiveInvariant, PTL

\* The script cuts, reads and names the file its marks are of, unless an
\* end-file event is still waiting for it.
THEOREM OneFileUnlessPendingHolds == Spec => []OneFileUnlessPending
<1>1. IInv => OneFileUnlessPending
  BY DEF IInv
<1>2. QED
  BY <1>1, InductiveInvariant, PTL

\* Each cut rendered is in a file of its own and shows what was marked, and a
\* merged file shows its cuts in the order of the film.
THEOREM RenderedAsMarkedHolds == Spec => []RenderedAsMarked
<1>1. IInv => RenderedAsMarked
  BY DEF IInv
<1>2. QED
  BY <1>1, InductiveInvariant, PTL

\* Merging, failing to merge and deleting the single cuts lose no piece of film.
THEOREM KeepsPiecesHolds == Spec => KeepsPieces
<1>. DEFINE Keeps ==
       \A n \in DOMAIN disk :
         \/ ToSet(disk[n]) \subseteq Pieces(disk')
         \/ n \in DOMAIN disk' /\ disk'[n] # disk[n]
<1>1. IInv /\ [Next]_vars => Keeps
  BY KeepsPiecesStep
<1>2. IInv /\ [Next]_vars => [Keeps]_vars
  BY <1>1
<1>3. QED
  BY <1>2, InductiveInvariant, PTL DEF Spec, KeepsPieces
=============================================================================
