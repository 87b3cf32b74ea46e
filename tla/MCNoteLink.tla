----------------------------- MODULE MCNoteLink -----------------------------
(* Instances of NoteLink for TLC, with the notes on the same file system or *)
(* on another: one invocation that is alone; two invocations on one file,   *)
(* with an editor that saves it and an rm that may fail as well.            *)
EXTENDS NoteLink

CONSTANTS p1, p2

Single(same) ==
  [callers |-> {p1}, sameFs |-> same, faults |-> {"mv", "ln", "printf"}, editor |-> FALSE]
Crowd(same) ==
  [callers |-> {p1, p2}, sameFs |-> same, faults |-> {"mv", "ln", "rm"}, editor |-> TRUE]

MCProcs == {p1, p2}
MCSettings == {Single(TRUE), Single(FALSE), Crowd(TRUE), Crowd(FALSE)}
=============================================================================
