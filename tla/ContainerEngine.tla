-------------------------- MODULE ContainerEngine --------------------------
(***************************************************************************)
(* podman and docker as cexec and drun use them: named containers that run *)
(* "sleep infinity", each with what it was created with.  External.  Any   *)
(* command may also fail for a reason of its own: the engine does not      *)
(* answer, the image is missing, a mount or a network is refused, it       *)
(* cannot be executed at all.                                              *)
(***************************************************************************)
EXTENDS Naturals

VARIABLE boxes    \* name -> [with : what it was created with, up : it runs]

Exists(name) == name \in DOMAIN boxes
Up(name) == Exists(name) /\ boxes[name].up

\* run -d --name: refused if the name is taken, running or not.  One that fails
\* after it has created the container leaves it there, not running.
Created(name, with, up) ==
    [n \in DOMAIN boxes \cup {name} |-> IF n = name THEN [with |-> with, up |-> up] ELSE boxes[n]]

Started(name) == [boxes EXCEPT ![name].up = TRUE]
Stopped(name) == [boxes EXCEPT ![name].up = FALSE]
Removed(name) == [n \in DOMAIN boxes \ {name} |-> boxes[n]]
=============================================================================
