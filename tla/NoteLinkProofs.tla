--------------------------- MODULE NoteLinkProofs ---------------------------
(***************************************************************************)
(* Proofs about NoteLink, for any number of invocations, names and         *)
(* circumstances.  Owned is about all of them, Whereabouts about the one   *)
(* that is alone; the steps of each action are taken in the order of the   *)
(* script.                                                                 *)
(***************************************************************************)
EXTENDS NoteLink, TLAPS

\* What a path can hold is told apart.
LEMMA ObjectFacts ==
  /\ Absent \in Objects /\ Absent.kind # "file"
  /\ \A c \in Contents : File(c) \in Objects /\ File(c).kind = "file" /\ File(c) # Absent
  /\ \A d \in Names : Link(d) \in Objects /\ Link(d).kind # "file" /\ Link(d) # Absent
  /\ \A c, e \in Contents : File(c) = File(e) => c = e
  /\ \A c \in Contents, d \in Names : File(c) # Link(d)
  BY DEF Absent, File, Link, Objects

\* An invocation in pc only moves as its action says.
LEMMA TypeStep ==
  ASSUME TypeOK, [Next]_vars PROVE TypeOK'
<1>. USE ObjectFacts, NoteLinkAssumption
     DEF TypeOK, Goto, Unmoved, Kept, Working, Cleaning, Stopped
<1>1. ASSUME NEW p \in Procs, Check(p) \/ FoundFree(p) PROVE TypeOK'
  BY <1>1 DEF Check, FoundFree
<1>2. ASSUME NEW p \in Procs, TryNext(p) PROVE TypeOK'
  BY <1>2 DEF TryNext, Names
<1>3. ASSUME NEW p \in Procs, Reserve(p) PROVE TypeOK'
  <2>1. CASE Free(p)
    <3>1. File("empty") \in Objects
      BY DEF Contents
    <3>2. dst' = [dst EXCEPT ![i[p]] = File("empty")] /\ stage' = [stage EXCEPT ![p] = "reserved"]
      BY <1>3, <2>1 DEF Reserve
    <3>3. pc' = [pc EXCEPT ![p] = "mark"] /\ UNCHANGED <<setting, src, i, active, overstep, botched>>
      BY <1>3, <2>1 DEF Reserve
    <3>4. QED
      BY <3>1, <3>2, <3>3
  <2>2. CASE ~Free(p)
    BY <1>3, <2>2 DEF Reserve
  <2>3. QED
    BY <2>1, <2>2
<1>4. ASSUME NEW p \in Procs, Mark(p) \/ Ending(p) PROVE TypeOK'
  <2>1. CASE Mark(p)
    BY <2>1 DEF Mark
  <2>2. CASE Settle(p)
    BY <2>2 DEF Settle
  <2>3. CASE Untrap(p) \/ Report(p) \/ ReportFails(p)
    BY <2>3 DEF Untrap, Report, ReportFails
  <2>4. QED
    BY <1>4, <2>1, <2>2, <2>3 DEF Ending
<1>5. ASSUME NEW p \in Procs, Move(p) PROVE TypeOK'
  BY <1>5 DEF Move
<1>6. ASSUME NEW p \in Procs, MoveUnlink(p) PROVE TypeOK'
  <2>1. overstep' \in BOOLEAN
    BY <1>6, Zenon DEF MoveUnlink
  <2>2. QED
    BY <1>6, <2>1 DEF MoveUnlink
<1>7. ASSUME NEW p \in Procs, MoveFails(p) \/ MakeLinkFails(p) PROVE TypeOK'
  BY <1>7 DEF MoveFails, MakeLinkFails
<1>8. ASSUME NEW p \in Procs, MakeLink(p) PROVE TypeOK'
  BY <1>8 DEF MakeLink
<1>9. ASSUME NEW p \in Procs, Interrupted(p) \/ Killed(p) PROVE TypeOK'
  BY <1>9 DEF Interrupted, Killed
<1>10. ASSUME NEW p \in Procs, Cleanup(p) PROVE TypeOK'
  BY <1>10 DEF Cleanup
<1>11. ASSUME NEW p \in Procs, RemoveLink(p) PROVE TypeOK'
  <2>1. overstep' \in BOOLEAN
    BY <1>11, Zenon DEF RemoveLink
  <2>2. QED
    BY <1>11, <2>1 DEF RemoveLink
<1>12. ASSUME NEW p \in Procs, Decide(p) PROVE TypeOK'
  <2>1. overstep' \in BOOLEAN
    BY <1>12, Zenon DEF Decide
  <2>2. QED
    BY <1>12, <2>1 DEF Decide
<1>13. ASSUME NEW p \in Procs, GiveBack(p) PROVE TypeOK'
  <2>1. overstep' \in BOOLEAN
    BY <1>13, Zenon DEF GiveBack
  <2>2. QED
    BY <1>13, <2>1 DEF GiveBack
<1>14. ASSUME NEW p \in Procs, GiveBackUnlink(p) PROVE TypeOK'
  <2>1. overstep' \in BOOLEAN
    BY <1>14, Zenon DEF GiveBackUnlink
  <2>2. QED
    BY <1>14, <2>1 DEF GiveBackUnlink
<1>15. ASSUME NEW p \in Procs, GiveBackFails(p) \/ DiscardFails(p) PROVE TypeOK'
  BY <1>15 DEF GiveBackFails, DiscardFails
<1>16. ASSUME NEW p \in Procs, Discard(p) PROVE TypeOK'
  BY <1>16 DEF Discard
<1>17. CASE Save
  BY <1>17 DEF Save, Contents
<1>18. CASE UNCHANGED vars
  BY <1>18 DEF vars
<1>19. QED
  BY <1>1, <1>2, <1>3, <1>4, <1>5, <1>6, <1>7, <1>8, <1>9, <1>10, <1>11, <1>12,
     <1>13, <1>14, <1>15, <1>16, <1>17, <1>18
  DEF Next, Main, Rollback

\* set -C: a name that an invocation has reserved is its own until its rollback
\* has given it up, whatever the others do.
LEMMA OwnedStep ==
  ASSUME TypeOK, Owned, [Next]_vars PROVE Owned'
<1>. USE ObjectFacts DEF TypeOK, Owned, Holding, Goto, Unmoved, Kept, Working, Cleaning, Contents
<1>1. ASSUME NEW p \in Procs, Check(p) \/ FoundFree(p) PROVE Owned'
  BY <1>1 DEF Check, FoundFree
<1>2. ASSUME NEW p \in Procs, TryNext(p) PROVE Owned'
  BY <1>2 DEF TryNext, Names
<1>3. ASSUME NEW p \in Procs, Reserve(p) PROVE Owned'
  BY <1>3 DEF Reserve, Free
<1>4. ASSUME NEW p \in Procs, Mark(p) \/ Ending(p) PROVE Owned'
  BY <1>4 DEF Mark, Ending, Settle, Untrap, Report, ReportFails
<1>5. ASSUME NEW p \in Procs, Move(p) PROVE Owned'
  BY <1>5 DEF Move
<1>6. ASSUME NEW p \in Procs, MoveUnlink(p) PROVE Owned'
  BY <1>6 DEF MoveUnlink
<1>7. ASSUME NEW p \in Procs, MoveFails(p) \/ MakeLinkFails(p) PROVE Owned'
  BY <1>7 DEF MoveFails, MakeLinkFails
<1>8. ASSUME NEW p \in Procs, MakeLink(p) PROVE Owned'
  BY <1>8 DEF MakeLink
<1>9. ASSUME NEW p \in Procs, Interrupted(p) \/ Killed(p) PROVE Owned'
  BY <1>9 DEF Interrupted, Killed
<1>10. ASSUME NEW p \in Procs, Cleanup(p) PROVE Owned'
  BY <1>10 DEF Cleanup, RollsBack
<1>11. ASSUME NEW p \in Procs, RemoveLink(p) PROVE Owned'
  BY <1>11 DEF RemoveLink
<1>12. ASSUME NEW p \in Procs, Decide(p) PROVE Owned'
  BY <1>12 DEF Decide
<1>13. ASSUME NEW p \in Procs, GiveBack(p) PROVE Owned'
  BY <1>13 DEF GiveBack
<1>14. ASSUME NEW p \in Procs, GiveBackUnlink(p) PROVE Owned'
  BY <1>14 DEF GiveBackUnlink
<1>15. ASSUME NEW p \in Procs, GiveBackFails(p) \/ DiscardFails(p) PROVE Owned'
  BY <1>15 DEF GiveBackFails, DiscardFails
<1>16. ASSUME NEW p \in Procs, Discard(p) PROVE Owned'
  BY <1>16 DEF Discard
<1>17. CASE Save
  BY <1>17 DEF Save
<1>18. CASE UNCHANGED vars
  BY <1>18 DEF vars
<1>19. QED
  BY <1>1, <1>2, <1>3, <1>4, <1>5, <1>6, <1>7, <1>8, <1>9, <1>10, <1>11, <1>12,
     <1>13, <1>14, <1>15, <1>16, <1>17, <1>18
  DEF Next, Main, Rollback

\* The content is lost only by a step that acts on a stale view of the paths.
LEMMA NoteStep ==
  ASSUME TypeOK, Owned, TypeOK', [Next]_vars, NoteExists \/ overstep
  PROVE  NoteExists' \/ overstep'
<1>. DEFINE Note == src = File("note") \/ \E d \in Names : dst[d] = File("note")
<1>1. (NoteExists <=> Note) /\ (NoteExists' <=> Note')
  BY DEF NoteExists, Holders
<1>2. SUFFICES ASSUME Note \/ overstep PROVE Note' \/ overstep'
  BY <1>1
<1>3. overstep => overstep'
  BY DEF Next, Main, Rollback, Check, TryNext, FoundFree, Reserve, Mark, Move,
         MoveUnlink, MoveFails, MakeLink, MakeLinkFails, Ending, Settle, Untrap, Report, ReportFails, Interrupted, Killed,
         Cleanup, RemoveLink, Decide, GiveBack, GiveBackUnlink, GiveBackFails,
         Discard, DiscardFails, Save, vars, Kept
<1>4. SUFFICES ASSUME Note PROVE Note' \/ overstep'
  BY <1>2, <1>3
<1>. USE <1>4, ObjectFacts DEF TypeOK, Owned, Holding, Goto, Unmoved, Kept, Working, Cleaning, Contents
<1>5. CASE Unmoved
  BY <1>5
<1>6. ASSUME NEW p \in Procs, Reserve(p) PROVE Note'
  BY <1>6 DEF Reserve, Free
<1>7. ASSUME NEW p \in Procs, Move(p) PROVE Note'
  BY <1>7 DEF Move
<1>8. ASSUME NEW p \in Procs, MoveUnlink(p) PROVE Note' \/ overstep'
  BY <1>8 DEF MoveUnlink
<1>9. ASSUME NEW p \in Procs, MakeLink(p) PROVE Note'
  BY <1>9 DEF MakeLink
<1>10. ASSUME NEW p \in Procs, RemoveLink(p) PROVE Note' \/ overstep'
  BY <1>10 DEF RemoveLink
<1>11. ASSUME NEW p \in Procs, GiveBack(p) PROVE Note' \/ overstep'
  BY <1>11 DEF GiveBack
<1>12. ASSUME NEW p \in Procs, GiveBackUnlink(p) PROVE Note' \/ overstep'
  BY <1>12 DEF GiveBackUnlink
<1>13. ASSUME NEW p \in Procs, Discard(p) PROVE Note' \/ overstep'
  BY <1>13 DEF Discard
<1>14. CASE Save
  BY <1>14 DEF Save
<1>15. QED
  BY <1>5, <1>6, <1>7, <1>8, <1>9, <1>10, <1>11, <1>12, <1>13, <1>14
  DEF Next, Main, Rollback, Check, TryNext, FoundFree, Mark, MoveFails, MakeLinkFails,
      Ending, Settle, Untrap, Report, ReportFails, Interrupted, Killed, Cleanup, Decide, GiveBackFails, DiscardFails, vars

\* Only the caller of an invocation that is alone moves, and it finds what it
\* expects at every command.
LEMMA AloneStep ==
  ASSUME TypeOK, Owned, AloneAsExpected, TypeOK', [Next]_vars
  PROVE  AloneAsExpected'
<1>1. setting' = setting
  BY DEF Next, Main, Rollback, Check, TryNext, FoundFree, Reserve, Mark, Move,
         MoveUnlink, MoveFails, MakeLink, MakeLinkFails, Ending, Settle, Untrap, Report, ReportFails, Interrupted, Killed,
         Cleanup, RemoveLink, Decide, GiveBack, GiveBackUnlink, GiveBackFails,
         Discard, DiscardFails, Save, vars, Kept
<1>. SUFFICES ASSUME Alone, NEW a \in Procs, setting.callers = {a}
              PROVE  NoteExists' /\ Whereabouts(a)'
  BY <1>1 DEF AloneAsExpected, Alone
<1>2. NoteExists /\ Whereabouts(a) /\ ~setting.editor /\ "rm" \notin setting.faults
  BY DEF AloneAsExpected, Alone
<1>3. /\ NoteExists <=> (src = File("note") \/ \E d \in Names : dst[d] = File("note"))
      /\ NoteExists' <=> (src' = File("note") \/ \E d \in Names : dst'[d] = File("note"))
  BY DEF NoteExists, Holders
<1>4. \A p \in Procs : p # a => pc[p] = "check" /\ p \notin setting.callers
  BY DEF Owned
<1>. USE <1>2, <1>3, ObjectFacts
     DEF TypeOK, Owned, Holding, Goto, Unmoved, Kept, Working, Cleaning, Contents, Whereabouts,
         Untouched, Copied, Moved, Linked, Restored
<1>5. ASSUME Check(a) \/ FoundFree(a) PROVE NoteExists' /\ Whereabouts(a)'
  BY <1>5 DEF Check, FoundFree
<1>6. ASSUME TryNext(a) PROVE NoteExists' /\ Whereabouts(a)'
  BY <1>6 DEF TryNext
<1>7. ASSUME Reserve(a) PROVE NoteExists' /\ Whereabouts(a)'
  BY <1>7 DEF Reserve, Free
<1>8. ASSUME Mark(a) \/ Ending(a) PROVE NoteExists' /\ Whereabouts(a)'
  BY <1>8 DEF Mark, Ending, Settle, Untrap, Report, ReportFails
<1>9. ASSUME Move(a) PROVE NoteExists' /\ Whereabouts(a)'
  BY <1>9 DEF Move
<1>10. ASSUME MoveUnlink(a) PROVE NoteExists' /\ Whereabouts(a)'
  BY <1>10 DEF MoveUnlink
<1>11. ASSUME MoveFails(a) \/ MakeLinkFails(a) PROVE NoteExists' /\ Whereabouts(a)'
  BY <1>11 DEF MoveFails, MakeLinkFails
<1>12. ASSUME MakeLink(a) PROVE NoteExists' /\ Whereabouts(a)'
  BY <1>12 DEF MakeLink
<1>13. ASSUME Interrupted(a) \/ Killed(a) PROVE NoteExists' /\ Whereabouts(a)'
  BY <1>13 DEF Interrupted, Killed
<1>14. ASSUME Cleanup(a) PROVE NoteExists' /\ Whereabouts(a)'
  BY <1>14 DEF Cleanup, RollsBack
<1>15. ASSUME RemoveLink(a) PROVE NoteExists' /\ Whereabouts(a)'
  BY <1>15 DEF RemoveLink
<1>16. ASSUME Decide(a) PROVE NoteExists' /\ Whereabouts(a)'
  BY <1>16 DEF Decide, PathTaken
<1>17. ASSUME GiveBack(a) PROVE NoteExists' /\ Whereabouts(a)'
  BY <1>17 DEF GiveBack
<1>18. ASSUME GiveBackUnlink(a) PROVE NoteExists' /\ Whereabouts(a)'
  BY <1>18 DEF GiveBackUnlink
<1>19. ASSUME GiveBackFails(a) \/ DiscardFails(a) PROVE NoteExists' /\ Whereabouts(a)'
  BY <1>19 DEF GiveBackFails, DiscardFails
<1>20. ASSUME Discard(a) PROVE NoteExists' /\ Whereabouts(a)'
  BY <1>20 DEF Discard
<1>21. CASE UNCHANGED vars
  BY <1>21 DEF vars
<1>22. ~Save
  BY DEF Save
<1>23. ASSUME NEW p \in Procs, Main(p) \/ Rollback(p) \/ Interrupted(p) \/ Killed(p)
       PROVE  p = a
  BY <1>4, <1>23
  DEF Main, Rollback, Check, TryNext, FoundFree, Reserve, Mark, Move,
      MoveUnlink, MoveFails, MakeLink, MakeLinkFails, Ending, Settle, Untrap, Report, ReportFails, Interrupted, Killed,
      Cleanup, RemoveLink, Decide, GiveBack, GiveBackUnlink, GiveBackFails,
      Discard, DiscardFails
<1>24. ASSUME Main(a) PROVE NoteExists' /\ Whereabouts(a)'
  <2>. HIDE <1>2, <1>3 DEF Whereabouts, TypeOK, Owned, Holding
  <2>. QED
    BY <1>24, <1>5, <1>6, <1>7, <1>8, <1>9, <1>10, <1>11, <1>12 DEF Main
<1>25. ASSUME Rollback(a) PROVE NoteExists' /\ Whereabouts(a)'
  <2>. HIDE <1>2, <1>3 DEF Whereabouts, TypeOK, Owned, Holding
  <2>. QED
    BY <1>25, <1>14, <1>15, <1>16, <1>17, <1>18, <1>19, <1>20 DEF Rollback
<1>26. QED
  <2>. HIDE <1>2, <1>3 DEF Whereabouts, TypeOK, Owned, Holding
  <2>. QED
    BY <1>13, <1>21, <1>22, <1>23, <1>24, <1>25 DEF Next

LEMMA InitIInv == Init => IInv
<1>. SUFFICES ASSUME Init PROVE IInv
  OBVIOUS
<1>. USE ObjectFacts DEF Init, Contents
<1>1. TypeOK
  <2>1. src \in Objects /\ dst \in [Names -> Objects]
    OBVIOUS
  <2>2. overstep \in BOOLEAN /\ botched \in BOOLEAN
    BY Zenon
  <2>3. i \in [Procs -> Names]
    BY NoteLinkAssumption DEF Names
  <2>4. QED
    BY <2>1, <2>2, <2>3 DEF TypeOK
<1>2. Owned
  BY DEF Owned, Holding, Working, Cleaning
<1>3. NoteExists /\ \A p \in Procs : Whereabouts(p)
  BY DEF NoteExists, Whereabouts, Untouched
<1>4. setting.callers \subseteq Procs
  BY NoteLinkAssumption
<1>5. QED
  BY <1>1, <1>2, <1>3, <1>4 DEF IInv, AloneAsExpected

\* The inductive invariant, for any number of invocations and names.
THEOREM InductiveInvariant == Spec => []IInv
<1>1. IInv /\ [Next]_vars => IInv'
  BY TypeStep, OwnedStep, NoteStep, AloneStep DEF IInv
<1>2. QED
  BY <1>1, InitIInv, PTL DEF Spec

\* The content of the file is somewhere, unless several invocations, an editor or
\* an rm that fails made a rollback, or a mv between file systems, act on a stale
\* view of the paths.
THEOREM NoteSafeHolds == Spec => []NoteSafe
<1>1. IInv => NoteSafe
  BY DEF IInv, AloneAsExpected, NoteSafe
<1>2. QED
  BY <1>1, InductiveInvariant, PTL

\* An invocation that is alone ends as its exit status says.
THEOREM DoneOrUndoneHolds == Spec => []DoneOrUndone
<1>1. IInv => DoneOrUndone
  <2>. SUFFICES ASSUME IInv, Alone, NEW p \in Procs
                PROVE  /\ pc[p] = "done" => src = Link(i[p]) /\ dst[i[p]] = File("note")
                       /\ pc[p] = "failed" /\ ~botched =>
                            IF stage[p] = "settled"
                            THEN src = Link(i[p]) /\ dst[i[p]] = File("note")
                            ELSE /\ src = File("note")
                                 /\ stage[p] = "reserved" =>
                                      dst[i[p]] = IF active[p] THEN Absent ELSE File("empty")
    BY DEF DoneOrUndone
  <2>1. pc[p] = "check" \/ Whereabouts(p)
    BY DEF IInv, Owned, AloneAsExpected
  <2>2. QED
    BY <2>1 DEF Whereabouts, Linked, Untouched, Restored
<1>2. QED
  BY <1>1, InductiveInvariant, PTL

\* No step touches what was in the notes before.
THEOREM OthersKeptHolds == Spec => OthersKept
<1>1. ASSUME IInv, [Next]_vars
      PROVE  [\A d \in Names : dst[d] = File("other") => dst'[d] = dst[d]]_vars
  <2>. SUFFICES ASSUME NEW d \in Names, dst[d] = File("other") PROVE dst'[d] = dst[d]
    OBVIOUS
  <2>. USE <1>1, ObjectFacts
       DEF IInv, TypeOK, Owned, Holding, Goto, Unmoved, Kept, Cleaning, Contents
  <2>1. ASSUME NEW p \in Procs, Reserve(p) PROVE dst'[d] = dst[d]
    BY <2>1 DEF Reserve, Free
  <2>2. ASSUME NEW p \in Procs, Move(p) PROVE dst'[d] = dst[d]
    BY <2>2 DEF Move
  <2>3. ASSUME NEW p \in Procs, GiveBack(p) \/ GiveBackUnlink(p) \/ Discard(p)
        PROVE  dst'[d] = dst[d]
    BY <2>3 DEF GiveBack, GiveBackUnlink, Discard
  <2>4. CASE dst' = dst
    BY <2>4
  <2>5. QED
    BY <2>1, <2>2, <2>3, <2>4
    DEF Next, Main, Rollback, Check, TryNext, FoundFree, Mark, MoveUnlink, MoveFails,
        MakeLink, MakeLinkFails, Ending, Settle, Untrap, Report, ReportFails, Interrupted, Killed, Cleanup, RemoveLink, Decide,
        GiveBackFails, DiscardFails, Save, vars
<1>2. QED
  BY <1>1, InductiveInvariant, PTL DEF Spec, OthersKept
=============================================================================
