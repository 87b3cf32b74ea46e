---------------------------- MODULE LosslessCut ----------------------------
(***************************************************************************)
(* private_mpv/scripts/mpv-lossless-cut.lua: mark cuts while a film plays, *)
(* render them with ffmpeg, merge them on request.                         *)
(*                                                                         *)
(* Two parties.  The player goes from file to file and queues key presses  *)
(* and "end-file" events for the script; the script takes them one at a    *)
(* time, and while it renders (ffmpeg is waited for) the queue grows and   *)
(* the player moves on.  What a handler reads of the player is what the    *)
(* player does when the handler runs, not when the key was pressed.        *)
(*                                                                         *)
(* Abstracted: paths and file names are records of what the code formats   *)
(* into them, the contents of a rendered file is the sequence of the       *)
(* pieces of film it shows, the two render modes (copy, exact) write the   *)
(* same files, modification times are left out.                            *)
(***************************************************************************)
EXTENDS Integers, Sequences, FiniteSets, SequencesExt

CONSTANTS
    Files,        \* what can be played
    Streams,      \* those of them that are not files on disk
    NoFile,       \* nothing is playing
    NoTime,       \* Lua's nil where a time is expected
    Length,       \* the duration of a file; positions are 0..Length
    Users         \* the users to consider, records of
                  \*   keys     the keys the user may press
                  \*   presses  bound: key presses
                  \*   waiting  bound: presses and events waiting for the script
                  \*   moves    bound: how often the player changes files

Keys == {"start", "end", "sof", "eof", "toggle", "clear", "render"}

ASSUME CutAssumption ==
    /\ Streams \subseteq Files /\ NoFile \notin Files
    /\ Length \in Nat /\ NoTime \notin Nat
    /\ Users \subseteq [keys : SUBSET Keys, presses : Nat, waiting : Nat, moves : Nat]

\* For TLC: one user who changes films and clears the list while renderings wait
\* in the queue, and one who marks two cuts of what plays in any order and renders
\* them, merged or not, once or again.
Restless ==
    [keys |-> Keys \ {"toggle"}, presses |-> 4, waiting |-> 3, moves |-> 2]
Merger ==
    [keys |-> {"start", "end", "toggle", "render"}, presses |-> 6, waiting |-> 1, moves |-> 0]
SampleUsers == {Restless, Merger}

Times == 0 .. Length
NoJob == [phase |-> "none"]

VARIABLES
    user,         \* who presses the keys, all the time
    playing,      \* what mpv plays (properties "path", "filename", ...)
    queue,        \* events the script has not handled yet
    cuts,         \* the script's list; of: the file playing when start was set
    mode,         \* options.multi_cut_mode
    job,          \* the run of cut_render in progress
    disk,         \* rendered files: name -> the pieces of film in it
    dump,         \* cache-dump.mkv: "none", "partial" or "whole"
    alive,        \* FALSE once a Lua error has ended the script
    pressed,      \* keys pressed so far (bound)
    moves         \* changes of file so far (bound)

vars == <<user, playing, queue, cuts, mode, job, disk, dump, alive, pressed, moves>>

(***************************************************************************)
(* Names of the files written.                                             *)
(***************************************************************************)
\* to_hms shows a tenth of a second; a unit of Times is half of that.
Hms(t) == (t + 1) \div 2

\* Mutant: the number is left out.
CutName_NoNumber(film, i, n, c) ==
    [film |-> film, cut |-> 0, from |-> Hms(c.start), to |-> Hms(c.end)]

\* "(cut) film (from - to).ext", with the number of the cut if there are more.
CutName(film, i, n, c) ==
    [film |-> film, cut |-> IF n = 1 THEN 0 ELSE i, from |-> Hms(c.start), to |-> Hms(c.end)]

\* "(n merged cuts) film.ext"
MergedName(film, n) == [film |-> film, merged |-> n]

Write(name, pieces) == [n \in DOMAIN disk \cup {name} |-> IF n = name THEN pieces ELSE disk[n]]

\* The files of a list one after the other; each holds the one piece that was
\* rendered into it.
Concat(names) == [i \in DOMAIN names |-> Head(disk[names[i]])]

(***************************************************************************)
(* The list of cuts.                                                       *)
(***************************************************************************)
Complete(c) == c.end # NoTime
AllComplete(cs) == \A i \in DOMAIN cs : Complete(cs[i])

\* Mutant: the last cut is not looked at.
StartedAt_Always(t) == Append(cuts, [start |-> t, end |-> NoTime, of |-> playing])

\* cut_set_start: a new cut, unless the last one still waits for its end.
StartedAt(t) ==
    LET c == [start |-> t, end |-> NoTime, of |-> playing]
    IN  IF cuts = <<>> \/ Complete(Last(cuts)) THEN Append(cuts, c)
        ELSE [cuts EXCEPT ![Len(cuts)] = c]

\* Mutant: an end past the end of the film.
EndedAt_Late(t) == [cuts EXCEPT ![Len(cuts)].end = IF t = NoTime THEN NoTime ELSE t + 1]
EndedAt(t) == [cuts EXCEPT ![Len(cuts)].end = t]

InOrder(cs) == \A i, j \in DOMAIN cs : i < j => cs[i].start <= cs[j].start

\* table.sort by start_time; it is not stable.
Sorted(cs) ==
    {s \in {[i \in DOMAIN cs |-> cs[p[i]]] :
              p \in {q \in [DOMAIN cs -> DOMAIN cs] : IsInjective(q)}} : InOrder(s)}

-----------------------------------------------------------------------------
Init ==
    /\ user \in Users
    /\ playing \in Files \cup {NoFile} /\ queue = <<>>
    /\ cuts = <<>> /\ mode = "separate" /\ job = NoJob
    /\ disk = [n \in {} |-> <<>>] /\ dump = "none" /\ alive = TRUE
    /\ pressed = 0 /\ moves = 0

(***************************************************************************)
(* The player and its user.                                                *)
(***************************************************************************)
Press(k) ==
    /\ alive /\ pressed < user.presses /\ Len(queue) < user.waiting
    /\ queue' = Append(queue, k) /\ pressed' = pressed + 1
    /\ UNCHANGED <<user, playing, cuts, mode, job, disk, dump, alive, moves>>

\* The file ends or is left for another one; from idle no file ends.
Move(f) ==
    /\ alive /\ moves < user.moves /\ f # playing /\ Len(queue) < user.waiting
    /\ playing' = f /\ moves' = moves + 1
    /\ queue' = IF playing = NoFile THEN queue ELSE Append(queue, "end-file")
    /\ UNCHANGED <<user, cuts, mode, job, disk, dump, alive, pressed>>

(***************************************************************************)
(* The script's handlers: one at a time, none while cut_render runs.       *)
(***************************************************************************)
Handle(k) ==
    /\ alive /\ job = NoJob /\ queue # <<>> /\ Head(queue) = k
    /\ queue' = Tail(queue)
    /\ UNCHANGED <<user, playing, disk, dump, pressed, moves>>

SetStart(t) ==
    /\ Handle("start")
    /\ cuts' = IF playing = NoFile THEN cuts ELSE StartedAt(t)
    /\ UNCHANGED <<mode, job, alive>>

SetStartOfFile ==
    /\ Handle("sof")
    /\ cuts' = StartedAt(0)
    /\ UNCHANGED <<mode, job, alive>>

SetEnd(t) ==
    /\ Handle("end")
    /\ cuts' = IF playing = NoFile \/ cuts = <<>> THEN cuts ELSE EndedAt(t)
    /\ UNCHANGED <<mode, job, alive>>

\* Without a duration end_time becomes nil, and the log line's "%.2fs" ends
\* the script.
SetEndOfFile ==
    /\ Handle("eof")
    /\ LET duration == IF playing \in Files \ Streams THEN Length ELSE NoTime
       IN  /\ cuts' = IF cuts = <<>> THEN cuts ELSE EndedAt(duration)
           /\ alive' = (cuts = <<>> \/ duration # NoTime)
    /\ UNCHANGED <<mode, job>>

ToggleMode ==
    /\ Handle("toggle")
    /\ mode' = IF mode = "separate" THEN "merge" ELSE "separate"
    /\ UNCHANGED <<cuts, job, alive>>

\* Mutant: the list is kept.
Cleared_Not == cuts
Cleared == <<>>

Clear ==
    /\ \E k \in {"clear", "end-file"} : Handle(k)
    /\ cuts' = Cleared
    /\ UNCHANGED <<mode, job, alive>>

(***************************************************************************)
(* cut_render.                                                             *)
(***************************************************************************)
\* The guard, and the property "path": nil when nothing plays, which
\* file_info does not take.
Renderable == cuts # <<>> /\ Complete(Last(cuts))

RefuseRender ==
    /\ ~Renderable /\ Handle("render")
    /\ UNCHANGED <<cuts, mode, job, alive>>

StartRender ==
    /\ Renderable /\ Handle("render")
    /\ IF playing = NoFile
       THEN alive' = FALSE /\ job' = job
       ELSE alive' = alive /\ job' = [phase |-> "path", path |-> playing]
    /\ UNCHANGED <<cuts, mode>>

\* "filename" (or "media-title") is read after "path".
ReadName ==
    /\ alive /\ job.phase = "path"
    /\ IF playing = NoFile
       THEN alive' = FALSE /\ job' = NoJob
       ELSE alive' = alive /\ job' = [phase |-> "named", path |-> job.path, film |-> playing]
    /\ UNCHANGED <<user, playing, queue, cuts, mode, disk, dump, pressed, moves>>

\* What the loop starts from: the input ffmpeg reads, the time of its first
\* frame, and what the code takes off a start time.
Rendering(input, origin, offset) ==
    [phase |-> "cuts", path |-> job.path, film |-> job.film, input |-> input,
     origin |-> origin, offset |-> offset, at |-> 1, done |-> <<>>]

GiveUp ==
    /\ alive /\ job.phase = "named"
    /\ job' = NoJob
    /\ dump' \in IF job.path \in Streams THEN {dump, "partial"} ELSE {dump}
    /\ UNCHANGED <<user, playing, queue, cuts, mode, disk, alive, pressed, moves>>

Prepare ==
    /\ alive /\ job.phase = "named" /\ job.path \notin Streams
    /\ job' = Rendering(job.path, 0, 0)
    /\ cuts' \in Sorted(cuts)
    /\ UNCHANGED <<user, playing, queue, mode, disk, dump, alive, pressed, moves>>

\* dump_cache writes what the player has cached, from time t, of what it
\* plays by then.  The code takes t off every start time.
PrepareStream(t) ==
    /\ alive /\ job.phase = "named" /\ job.path \in Streams /\ playing # NoFile
    /\ job' = Rendering(playing, t, t)
    /\ dump' = "whole"
    /\ cuts' \in Sorted(cuts)
    /\ UNCHANGED <<user, playing, queue, mode, disk, alive, pressed, moves>>

\* ffmpeg -ss start - offset -t end - start: before the first frame there is
\* nothing to show.
Piece(c) ==
    LET at == c.start - job.offset
    IN  [film |-> job.input, from |-> job.origin + (IF at < 0 THEN 0 ELSE at),
         length |-> c.end - c.start]

ThisName == CutName(job.film, job.at, Len(cuts), cuts[job.at])

InLoop == alive /\ job.phase = "cuts" /\ job.at <= Len(cuts)

NextCut == [job EXCEPT !.at = @ + 1]

RenderCut ==
    /\ InLoop
    /\ IF Complete(cuts[job.at])
       THEN /\ disk' = Write(ThisName, <<Piece(cuts[job.at])>>)
            /\ job' = [NextCut EXCEPT !.done = Append(@, ThisName)]
       ELSE disk' = disk /\ job' = NextCut
    /\ UNCHANGED <<user, playing, queue, cuts, mode, dump, alive, pressed, moves>>

\* ffmpeg -y fails before or after it has truncated its output.
RenderFails ==
    /\ InLoop /\ Complete(cuts[job.at])
    /\ disk' \in {disk, Write(ThisName, <<>>)}
    /\ job' = NextCut
    /\ UNCHANGED <<user, playing, queue, cuts, mode, dump, alive, pressed, moves>>

\* Mutant: one more than there are cuts.
LoopDone_OffByOne == alive /\ job.phase = "cuts" /\ job.at > Len(cuts) + 1
LoopDone == alive /\ job.phase = "cuts" /\ job.at > Len(cuts)
ToMerge == Len(job.done) > 1 /\ mode = "merge"

WithMerged(pieces) == Write(MergedName(job.film, Len(job.done)), pieces)

Without(d, names) == [n \in DOMAIN d \ names |-> d[n]]

Merged == [phase |-> "merged", path |-> job.path, done |-> job.done]

\* merge_cuts: the single cuts go when the merged file is there.
Merge ==
    /\ LoopDone /\ ToMerge
    /\ disk' = Without(WithMerged(Concat(job.done)), ToSet(job.done))
    /\ job' = Merged
    /\ UNCHANGED <<user, playing, queue, cuts, mode, dump, alive, pressed, moves>>

\* Mutant: the single cuts go although the merge failed.
AfterFailedMerge_Removes == {Without(disk, ToSet(job.done))}
AfterFailedMerge == {disk, WithMerged(<<>>)}

MergeFails ==
    /\ LoopDone /\ ToMerge
    /\ disk' \in AfterFailedMerge
    /\ job' = Merged
    /\ UNCHANGED <<user, playing, queue, cuts, mode, dump, alive, pressed, moves>>

\* delete_file(cache-dump.mkv), if the input was a stream.
DumpAfter == IF job.path \in Streams THEN "none" ELSE dump

Finish ==
    /\ (LoopDone /\ ~ToMerge) \/ (alive /\ job.phase = "merged")
    /\ dump' = DumpAfter
    /\ job' = NoJob
    /\ UNCHANGED <<user, playing, queue, cuts, mode, disk, alive, pressed, moves>>

-----------------------------------------------------------------------------
Marking ==
    \/ \E t \in Times : SetStart(t) \/ SetEnd(t)
    \/ SetStartOfFile \/ SetEndOfFile \/ ToggleMode \/ Clear \/ RefuseRender

Script ==
    \/ Marking \/ StartRender \/ ReadName
    \/ GiveUp \/ Prepare \/ (\E t \in Times : PrepareStream(t))
    \/ RenderCut \/ RenderFails \/ Merge \/ MergeFails \/ Finish

Next ==
    \/ \E k \in user.keys : Press(k)
    \/ \E f \in Files \cup {NoFile} : Move(f)
    \/ Script

\* The script's thread runs whenever it has something to do, and ffmpeg ends.
Spec == Init /\ [][Next]_vars /\ WF_vars(Script)

-----------------------------------------------------------------------------
(***************************************************************************)
(* Properties.                                                             *)
(***************************************************************************)
Looping == job.phase = "cuts"
Pending == \E i \in DOMAIN queue : queue[i] = "end-file"
Pieces(d) == UNION {ToSet(d[n]) : n \in DOMAIN d}

Cut == [start : Times, end : Times \cup {NoTime}, of : Files \cup {NoFile}]
Name == [film : Files, cut : Nat, from : Nat, to : Nat]
PathJob == [phase : {"path"}, path : Files]
NamedJob == [phase : {"named"}, path : Files, film : Files]
LoopJob ==
    [phase : {"cuts"}, path : Files, film : Files, input : Files, origin : Times,
     offset : Times, at : Nat \ {0}, done : Seq(Name)]
MergedJob == [phase : {"merged"}, path : Files, done : Seq(Name)]
Job == {NoJob} \cup PathJob \cup NamedJob \cup LoopJob \cup MergedJob

\* Type invariant: what each variable of the script and the player can hold.
TypeOK ==
    /\ playing \in Files \cup {NoFile}
    /\ user \in Users
    /\ queue \in Seq(Keys \cup {"end-file"}) /\ Len(queue) <= user.waiting
    /\ cuts \in Seq(Cut) /\ job \in Job
    /\ mode \in {"separate", "merge"} /\ dump \in {"none", "partial", "whole"}
    /\ alive \in BOOLEAN /\ pressed \in 0 .. user.presses /\ moves \in 0 .. user.moves

\* Only the newest cut may wait for its end, through sorting, clearing and
\* re-marking: the guard of cut_render looks at the last cut alone (361) and
\* means all of them, so a rendering never skips one (425).
OnlyLastOpen ==
    /\ TypeOK
    /\ \A i \in DOMAIN cuts : i < Len(cuts) => Complete(cuts[i])
    /\ job # NoJob => AllComplete(cuts)

\* The cuts are of the file that plays, and a rendering reads, names and cuts
\* one and the same file, unless an end-file the script has not handled yet
\* is waiting: cuts of one file meet another only through that delay.
OneFileUnlessPending ==
    Pending \/ ~alive
    \/ /\ \A i \in DOMAIN cuts : cuts[i].of \in {playing, NoFile}
       /\ job.phase \in {"path", "named", "cuts"} => job.path = playing
       /\ job.phase \in {"named", "cuts"} => job.film = playing
       /\ Looping => job.input = playing

\* What the time marked by a cut is in the film ffmpeg reads.
Shown(c) ==
    [film |-> job.input, from |-> IF c.start < job.origin THEN job.origin ELSE c.start,
     length |-> c.end - c.start]

\* The rendered files are those of the cuts at these places, one after the other.
InPlace(place) ==
    /\ \A i, j \in DOMAIN place : i < j => place[i] < place[j]
    /\ \A i \in DOMAIN place :
         /\ place[i] < job.at
         /\ job.done[i] = CutName(job.film, place[i], Len(cuts), cuts[place[i]])
         /\ job.done[i] \in DOMAIN disk
         /\ disk[job.done[i]] = <<Shown(cuts[place[i]])>>

\* While a rendering runs, each cut it has rendered is in a file of its own,
\* under its own name, and shows the time the user marked (or, of a stream,
\* what of it the cache still has): no two cuts of one rendering share a name,
\* although names show times rounded to a tenth of a second.
EachCutItsOwnFile ==
    Looping => \E place \in [DOMAIN job.done -> 1 .. Len(cuts)] : InPlace(place)

\* A merged file shows its cuts in the order of the film, whatever the order
\* they were marked in.
MergedInOrder ==
    \A n \in DOMAIN disk : "merged" \in DOMAIN n =>
        \A i, j \in DOMAIN disk[n] : i < j => disk[n][i].from <= disk[n][j].from

\* What is on disk after a rendering is what was marked, single cuts and merges.
RenderedAsMarked == EachCutItsOwnFile /\ MergedInOrder

\* The inductive invariant behind RenderedAsMarked: the loop goes through the
\* sorted list, and what it takes off the start times it has put on before.
LoopGoesOn ==
    Looping => InOrder(cuts) /\ job.origin = job.offset

IInv == OnlyLastOpen /\ OneFileUnlessPending /\ RenderedAsMarked /\ LoopGoesOn

\* A piece of film that is on disk stays there, in its own file or in the
\* merged one: it goes only when its file is written anew (ffmpeg -y), never
\* because a merge failed or left one of its cuts out.
KeepsPieces ==
    [][\A n \in DOMAIN disk :
         \/ ToSet(disk[n]) \subseteq Pieces(disk')
         \/ n \in DOMAIN disk' /\ disk'[n] # disk[n]]_vars

\* Every rendering ends, with each cut rendered or reported, the script goes
\* back to its queue, and a whole cache dump is not left behind.
RenderEnds == job # NoJob ~> (job = NoJob /\ dump # "whole")

=============================================================================
