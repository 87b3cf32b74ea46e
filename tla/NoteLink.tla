------------------------------ MODULE NoteLink ------------------------------
(***************************************************************************)
(* note-link (scripts/executable_notify.sh): moves a file into the notes   *)
(* directory and leaves a symbolic link behind, with an EXIT trap that     *)
(* rolls back.  One step per command that looks at or changes the file     *)
(* system; any number of invocations on the same file interleave, a        *)
(* command may fail, signals arrive between commands, and an editor may    *)
(* save the file again under its old name.                                 *)
(*                                                                         *)
(* A path holds Absent, a file with some content, or a link to one of the  *)
(* names under the notes directory.  The steps of main before the search   *)
(* for a name only read; what they refuse is not in the initial states.    *)
(***************************************************************************)
EXTENDS Naturals

CONSTANTS
  Procs,        \* invocations of the script on the same file
  LastName,     \* bound: the names tried are 0 .. LastName (9999 in the script)
  Settings      \* the circumstances to consider, records of
                \*   callers  the invocations that are made
                \*   sameFs   TRUE: mv renames; FALSE: mv copies, then unlinks
                \*   faults   the commands that may fail for reasons of their own
                \*   editor   TRUE: an editor may save the file under its old name

Names == 0 .. LastName

ASSUME NoteLinkAssumption ==
  /\ LastName \in Nat
  /\ Settings \subseteq [callers : SUBSET Procs, sameFs : BOOLEAN,
                          faults : SUBSET {"mv", "ln", "rm", "printf"}, editor : BOOLEAN]

VARIABLES
  setting,  \* the circumstances, which stay as they are
  src,      \* what the path given to the script holds
  dst,      \* what each name in dest_dir holds
  pc,       \* where each invocation is
  i,        \* the index of the name it tries; its rollback_dst once active
  active,   \* rollback_active
  stage,    \* history: "none", "reserved" once its file is there, "settled" once
            \* the rollback is disarmed
  overstep, \* history: some rollback, or the second half of a mv, went on although
            \* the paths were not as it supposes
  botched   \* history: a command of some rollback failed or was cut short

vars == <<setting, src, dst, pc, i, active, stage, overstep, botched>>

Absent == [kind |-> "absent", what |-> 0]
File(c) == [kind |-> "file", what |-> c]
Link(d) == [kind |-> "link", what |-> d]
Contents == {"note", "empty", "other", "new"}
Objects == {Absent} \cup {File(c) : c \in Contents} \cup {Link(d) : d \in Names}

Stopped == {"done", "failed", "killed"}
Working == {"search", "create", "mark", "move", "unlink", "link", "settle", "untrap"}
Cleaning == {"cleanup", "unlinked", "restore", "giveback", "erase", "discard"}

Init ==
  /\ setting \in Settings
  /\ src = File("note")
  /\ dst \in [Names -> {Absent, File("other")}]
  /\ pc = [p \in Procs |-> "check"]
  /\ i = [p \in Procs |-> 0]
  /\ active = [p \in Procs |-> FALSE]
  /\ stage = [p \in Procs |-> "none"]
  /\ overstep = FALSE /\ botched = FALSE

Goto(p, from, to) == pc[p] = from /\ pc' = [pc EXCEPT ![p] = to]
Unmoved == UNCHANGED <<src, dst>>
Kept(p) == UNCHANGED <<setting, i, active, stage, overstep, botched>>

-----------------------------------------------------------------------------
(* main                                                                    *)

\* The argument is a regular file and not a link.
Check(p) ==
  /\ p \in setting.callers
  /\ Goto(p, "check", IF src.kind = "file" THEN "search" ELSE "failed")
  /\ Unmoved /\ Kept(p)

\* (Mutant of TryNext: the search runs past its last name.)
TryNext_Beyond(p) ==
  /\ dst[i[p]] # Absent /\ Goto(p, "search", "search")
  /\ i' = [i EXCEPT ![p] = @ + 1]
  /\ Unmoved /\ UNCHANGED <<setting, active, stage, overstep, botched>>

\* A name that is taken is passed over; after the last one the script dies.
TryNext(p) ==
  /\ dst[i[p]] # Absent
  /\ Goto(p, "search", IF i[p] = LastName THEN "failed" ELSE "search")
  /\ i' = IF i[p] = LastName THEN i ELSE [i EXCEPT ![p] = @ + 1]
  /\ Unmoved /\ UNCHANGED <<setting, active, stage, overstep, botched>>

FoundFree(p) ==
  /\ dst[i[p]] = Absent /\ Goto(p, "search", "create")
  /\ Unmoved /\ Kept(p)

\* set -C: the redirection creates the file or fails.
Free(p) == dst[i[p]] = Absent

Reserve(p) ==
  /\ IF Free(p)
       THEN /\ Goto(p, "create", "mark")
            /\ dst' = [dst EXCEPT ![i[p]] = File("empty")]
            /\ stage' = [stage EXCEPT ![p] = "reserved"]
       ELSE /\ Goto(p, "create", "failed")
            /\ UNCHANGED <<dst, stage>>
  /\ UNCHANGED <<setting, src, i, active, overstep, botched>>

\* rollback_src, rollback_dst and rollback_active are set.
Mark(p) ==
  /\ Goto(p, "mark", "move")
  /\ active' = [active EXCEPT ![p] = TRUE]
  /\ Unmoved /\ UNCHANGED <<setting, i, stage, overstep, botched>>

\* mv "$src" "$dst", which replaces the reserved file.
Move(p) ==
  /\ src # Absent
  /\ Goto(p, "move", IF setting.sameFs THEN "link" ELSE "unlink")
  /\ dst' = [dst EXCEPT ![i[p]] = src]
  /\ src' = IF setting.sameFs THEN Absent ELSE src
  /\ Kept(p)

\* The second half of a mv between file systems removes what the path holds by
\* now, which need not be what it has copied.
MoveUnlink(p) ==
  /\ src # Absent
  /\ Goto(p, "unlink", "link")
  /\ src' = Absent
  /\ overstep' = (overstep \/ src # dst[i[p]])
  /\ UNCHANGED <<setting, dst, i, active, stage, botched>>

\* Either half may fail; nothing is undone then.
MoveFails(p) ==
  /\ src = Absent \/ "mv" \in setting.faults
  /\ pc[p] \in {"move", "unlink"} /\ pc' = [pc EXCEPT ![p] = "cleanup"]
  /\ Unmoved /\ Kept(p)

\* ln -s "$dst" "$src", which does not replace anything.
MakeLink(p) ==
  /\ src = Absent
  /\ Goto(p, "link", "settle")
  /\ src' = Link(i[p]) /\ UNCHANGED dst /\ Kept(p)

\* (Mutant of MakeLinkFails: the script goes on.)
MakeLinkFails_GoesOn(p) ==
  /\ src # Absent \/ "ln" \in setting.faults
  /\ Goto(p, "link", "settle") /\ Unmoved /\ Kept(p)

MakeLinkFails(p) ==
  /\ src # Absent \/ "ln" \in setting.faults
  /\ Goto(p, "link", "cleanup")
  /\ Unmoved /\ Kept(p)

\* rollback_active=0: from here on nothing is undone, whatever the exit status.
Settle(p) ==
  /\ Goto(p, "settle", "untrap")
  /\ active' = [active EXCEPT ![p] = FALSE]
  /\ stage' = [stage EXCEPT ![p] = "settled"]
  /\ Unmoved /\ UNCHANGED <<setting, i, overstep, botched>>

\* trap - EXIT INT TERM: from here on a signal kills.
Untrap(p) == Goto(p, "untrap", "report") /\ Unmoved /\ Kept(p)

\* The last command tells what was done; if it fails (a closed standard output, a
\* full disk behind it), set -e ends the script with status 1 and no trap.
Report(p) == Goto(p, "report", "done") /\ Unmoved /\ Kept(p)

ReportFails(p) ==
  /\ "printf" \in setting.faults
  /\ Goto(p, "report", "failed") /\ Unmoved /\ Kept(p)

\* INT or TERM before the traps are removed: exit 130 or 143, and the EXIT trap.
Interrupted(p) ==
  /\ pc[p] \in Working \ {"unlink"}
  /\ pc' = [pc EXCEPT ![p] = "cleanup"] /\ Unmoved /\ Kept(p)

\* KILL at any time, INT or TERM once main or cleanup has reset the traps.
Killed(p) ==
  /\ pc[p] \in Working \cup Cleaning \cup {"report"}
  /\ pc' = [pc EXCEPT ![p] = "killed"] /\ botched' = TRUE
  /\ Unmoved /\ UNCHANGED <<setting, i, active, stage, overstep>>

-----------------------------------------------------------------------------
(* cleanup                                                                 *)

\* (Mutant of RollsBack: the trap acts although nothing is reserved.)
RollsBack_Always(p) == TRUE

\* The exit status is not 0 and rollback_active is set.
RollsBack(p) == active[p]

\* The first test: the link that main has made is to be removed.
Cleanup(p) ==
  /\ Goto(p, "cleanup", IF ~RollsBack(p) THEN "failed"
                        ELSE IF src = Link(i[p]) THEN "unlinked" ELSE "restore")
  /\ Unmoved /\ Kept(p)

\* rm "$rollback_src" removes what the path holds by now.
RemoveLink(p) ==
  /\ \/ /\ src # Absent /\ src' = Absent /\ UNCHANGED botched
     \/ /\ src = Absent \/ "rm" \in setting.faults
        /\ botched' = TRUE /\ UNCHANGED src
  /\ overstep' = (overstep \/ src # Link(i[p]))
  /\ Goto(p, "unlinked", "restore")
  /\ UNCHANGED <<setting, dst, i, active, stage>>

\* (Mutant of PathTaken: the test takes the reserved name for the path.)
PathTaken_Destination(p) == dst[i[p]] # Absent

\* The second test: whether the file must be brought back.
PathTaken(p) == src # Absent

Decide(p) ==
  /\ Goto(p, "restore", IF PathTaken(p) THEN "discard" ELSE "giveback")
  /\ overstep' = (overstep \/ (PathTaken(p) /\ dst[i[p]] # File("empty")))
  /\ Unmoved /\ UNCHANGED <<setting, i, active, stage, botched>>

\* mv "$rollback_dst" "$rollback_src", over whatever the path holds by now.
GiveBack(p) ==
  /\ dst[i[p]] # Absent
  /\ Goto(p, "giveback", IF setting.sameFs THEN "failed" ELSE "erase")
  /\ src' = dst[i[p]]
  /\ dst' = IF setting.sameFs THEN [dst EXCEPT ![i[p]] = Absent] ELSE dst
  /\ overstep' = (overstep \/ src # Absent)
  /\ UNCHANGED <<setting, i, active, stage, botched>>

\* Its second half between file systems.
GiveBackUnlink(p) ==
  /\ Goto(p, "erase", "failed")
  /\ dst' = [dst EXCEPT ![i[p]] = Absent]
  /\ overstep' = (overstep \/ src # dst[i[p]])
  /\ UNCHANGED <<setting, src, i, active, stage, botched>>

GiveBackFails(p) ==
  /\ dst[i[p]] = Absent \/ "mv" \in setting.faults
  /\ pc[p] \in {"giveback", "erase"} /\ pc' = [pc EXCEPT ![p] = "failed"]
  /\ botched' = TRUE /\ Unmoved /\ UNCHANGED <<setting, i, active, stage, overstep>>

\* rm -f "$rollback_dst".
Discard(p) ==
  /\ Goto(p, "discard", "failed")
  /\ dst' = [dst EXCEPT ![i[p]] = Absent]
  /\ UNCHANGED src /\ Kept(p)

DiscardFails(p) ==
  /\ "rm" \in setting.faults /\ Goto(p, "discard", "failed")
  /\ botched' = TRUE /\ Unmoved /\ UNCHANGED <<setting, i, active, stage, overstep>>

-----------------------------------------------------------------------------
\* An editor that still has the file open saves it at its path, where it has
\* gone or become a link.
Save ==
  /\ setting.editor /\ src.kind # "file"
  /\ src' = File("new")
  /\ UNCHANGED <<setting, dst, pc, i, active, stage, overstep, botched>>

Ending(p) == Settle(p) \/ Untrap(p) \/ Report(p) \/ ReportFails(p)
Main(p) ==
  \/ Check(p) \/ TryNext(p) \/ FoundFree(p) \/ Reserve(p) \/ Mark(p)
  \/ Move(p) \/ MoveUnlink(p) \/ MoveFails(p)
  \/ MakeLink(p) \/ MakeLinkFails(p) \/ Ending(p)
Rollback(p) ==
  \/ Cleanup(p) \/ RemoveLink(p) \/ Decide(p)
  \/ GiveBack(p) \/ GiveBackUnlink(p) \/ GiveBackFails(p) \/ Discard(p) \/ DiscardFails(p)

Next ==
  \/ \E p \in Procs : Main(p) \/ Rollback(p) \/ Interrupted(p) \/ Killed(p)
  \/ Save

Spec == Init /\ [][Next]_vars

-----------------------------------------------------------------------------
(* Properties                                                              *)

TypeOK ==
  /\ setting \in Settings
  /\ src \in Objects /\ dst \in [Names -> Objects]
  /\ pc \in [Procs -> {"check", "report"} \cup Working \cup Cleaning \cup Stopped]
  /\ i \in [Procs -> Names] /\ active \in [Procs -> BOOLEAN]
  /\ stage \in [Procs -> {"none", "reserved", "settled"}] /\ overstep \in BOOLEAN /\ botched \in BOOLEAN

\* One invocation that has the file to itself, and an rm that works.
Alone ==
  /\ \E p \in Procs : setting.callers = {p}
  /\ ~setting.editor /\ "rm" \notin setting.faults

Holders(c) == {d \in Names : dst[d] = File(c)}
NoteExists == src = File("note") \/ Holders("note") # {}

\* An invocation that is alone, interrupted or killed anywhere, with a mv or an
\* ln that fails, never loses the file: its content is at its old path or in the
\* notes.  With several invocations on one file, an editor, and an rm that fails,
\* the content is lost only by a rollback, which removes a destination that is no
\* longer the empty file it had reserved, removes a path that was its link when it
\* looked, or brings a file back over a path that was free when it looked; or by a
\* mv between file systems, which removes another object than it has copied.
NoteSafe == TypeOK /\ (NoteExists \/ (overstep /\ ~Alone))

\* An invocation that is alone ends with the work done or undone, never halfway,
\* provided that the rollback was not itself cut short.  Success means that the old
\* path leads to the file.  Failure means that everything is as before: the file at
\* its path, and no reserved name, unless the signal fell between its creation and
\* rollback_active=1.  Only a failure after rollback_active=0, by a signal before
\* the traps are removed or by the printf, comes with everything done.
DoneOrUndone ==
  Alone =>
    \A p \in Procs :
      /\ pc[p] = "done" => src = Link(i[p]) /\ dst[i[p]] = File("note")
      /\ pc[p] = "failed" /\ ~botched =>
           IF stage[p] = "settled"
           THEN src = Link(i[p]) /\ dst[i[p]] = File("note")
           ELSE /\ src = File("note")
                /\ stage[p] = "reserved" =>
                     dst[i[p]] = IF active[p] THEN Absent ELSE File("empty")

\* Nothing that was in the notes before is ever replaced or removed.
OthersKept == [][\A d \in Names : dst[d] = File("other") => dst'[d] = dst[d]]_vars

-----------------------------------------------------------------------------
\* The inductive invariant behind the three.  A name belongs to one invocation
\* from the creation of its file to the end of the rollback, and what it holds
\* was never in the notes before.
Holding(p) ==
  \/ pc[p] \in {"mark", "move", "unlink", "link", "settle"}
  \/ pc[p] \in Cleaning /\ active[p]

Owned ==
  /\ src # File("other")
  /\ \A p \in Procs :
       /\ Holding(p) => dst[i[p]] \notin {Absent, File("other")}
       /\ pc[p] \in {"mark", "move"} => dst[i[p]] = File("empty")
       /\ pc[p] = "discard" => overstep \/ dst[i[p]] = File("empty")
       /\ pc[p] \in Cleaning \ {"cleanup"} => active[p]
       /\ active[p] => pc[p] \notin {"check", "search", "create", "mark", "untrap", "report"}
       /\ pc[p] = "check" \/ p \in setting.callers
  /\ \A p, q \in Procs : Holding(p) /\ Holding(q) /\ i[p] = i[q] => p = q

\* What an invocation that is alone finds wherever it is.
Untouched(p) == src = File("note") /\ (stage[p] = "reserved" => dst[i[p]] = File("empty"))
Copied(p) == src = File("note") /\ dst[i[p]] = File("note")
Moved(p) == src = Absent /\ dst[i[p]] = File("note")
Linked(p) == src = Link(i[p]) /\ dst[i[p]] = File("note")
Restored(p) == src = File("note") /\ dst[i[p]] = Absent

Whereabouts(p) ==
  /\ active[p] => stage[p] = "reserved"
  /\ pc[p] \in {"check", "search", "create"} => stage[p] = "none"
  /\ pc[p] \in {"check", "search", "create", "mark", "move"} => Untouched(p)
  /\ pc[p] \in {"mark", "move"} => stage[p] = "reserved"
  /\ pc[p] \in {"move", "unlink", "link", "settle"} => active[p]
  /\ pc[p] \in {"unlink", "erase"} => Copied(p)
  /\ pc[p] \in {"link", "giveback"} => Moved(p)
  /\ pc[p] \in {"settle", "untrap", "report", "done", "unlinked"} => Linked(p)
  /\ pc[p] \in {"untrap", "report"} => stage[p] = "settled"
  /\ pc[p] = "cleanup" =>
       IF stage[p] = "settled" THEN Linked(p)
       ELSE Untouched(p) \/ (active[p] /\ (Copied(p) \/ Moved(p) \/ Linked(p)))
  /\ pc[p] = "restore" => Untouched(p) \/ Copied(p) \/ Moved(p)
  /\ pc[p] = "discard" => Untouched(p) \/ Copied(p)
  /\ pc[p] = "failed" =>
       IF stage[p] = "settled" THEN Linked(p)
       ELSE IF ~active[p] THEN Untouched(p)
       ELSE Restored(p) \/ (botched /\ (Untouched(p) \/ Copied(p) \/ Moved(p)))

AloneAsExpected ==
  Alone => NoteExists /\ \A p \in setting.callers : Whereabouts(p)

IInv == TypeOK /\ Owned /\ (NoteExists \/ overstep) /\ AloneAsExpected
=============================================================================
