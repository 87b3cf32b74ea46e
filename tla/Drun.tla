-------------------------------- MODULE Drun --------------------------------
(***************************************************************************)
(* private_dot_local/scripts/executable_drun.sh: run a command in a        *)
(* container with the current directory mounted, in one made for it        *)
(* (run_ephemeral), or in one that is kept, found by its name, started     *)
(* again when it stopped and created when it is missing (run_persistent).  *)
(*                                                                         *)
(* Calls run side by side and share the kept containers.  The script runs  *)
(* under set -e: a docker command that fails ends it.                      *)
(*                                                                         *)
(* Abstracted: terminals, extra mounts, environment and users; a directory *)
(* matters by itself and by its base name.                                 *)
(***************************************************************************)
EXTENDS ContainerEngine

CONSTANTS
    Calls,        \* invocations of drun
    Dirs,         \* directories it is called in ($PWD)
    BaseName,     \* ${PWD##*/} of each, special characters replaced
    NoName,       \* no -n
    Given,        \* names given with -n
    NoNetwork,    \* no --network and no DRUN_NETWORK
    Networks,     \* networks asked for
    Bridge,       \* docker's network for a container that asks for none
    MaxStops      \* bound: containers stopped by something else

\* What the constants must satisfy; assumed where they get their values.
DrunAssumption ==
    /\ BaseName \in [Dirs -> STRING] /\ NoName \notin Given
    /\ NoNetwork \notin Networks /\ MaxStops \in Nat /\ "nobody" \notin Calls

VARIABLES
    pc, asked,    \* where each call is, and what it was asked for
    ret,          \* "ran", "removed", "none to remove" or "failed"
    ranIn,        \* what the container its command ran in was created with
    tmp,          \* temporary files each call has made and not removed
    touched,      \* someone else changed its container while it ran (history)
    faulted,      \* a docker command of it failed for a reason of its own (history)
    stops         \* containers stopped so far (bound)

vars == <<boxes, pc, asked, ret, ranIn, tmp, touched, faulted, stops>>

\* Mutant: the name is the directory's path.
Name_Path(c) == IF asked[c].name # NoName THEN asked[c].name ELSE asked[c].dir

\* -n, or "drun-" and the directory's base name.
Name(c) == IF asked[c].name # NoName THEN asked[c].name ELSE BaseName[asked[c].dir]

\* build_common_args: docker decides about the network if nothing is said.
With(c) ==
    [dir |-> asked[c].dir,
     network |-> IF asked[c].network = NoNetwork THEN Bridge ELSE asked[c].network]

-----------------------------------------------------------------------------
Nothing == [dir |-> "", network |-> ""]
Unasked == [dir |-> "", name |-> NoName, network |-> NoNetwork]

Init ==
    /\ boxes = [n \in {} |-> Nothing]
    /\ pc = [c \in Calls |-> "idle"]
    /\ asked = [c \in Calls |-> Unasked]
    /\ ret = [c \in Calls |-> "none"] /\ ranIn = [c \in Calls |-> Nothing]
    /\ tmp = [c \in Calls |-> {}]
    /\ touched = [c \in Calls |-> FALSE] /\ faulted = [c \in Calls |-> FALSE]
    /\ stops = 0

Running(c) == pc[c] \notin {"idle", "done"}

Touch(name, by) ==
    touched' = [c \in Calls |-> touched[c] \/ (c # by /\ Running(c) /\ Name(c) = name)]

Goto(c, where) == pc' = [pc EXCEPT ![c] = where]
Fault(c) == faulted' = [faulted EXCEPT ![c] = TRUE]
End(c, how) == ret' = [ret EXCEPT ![c] = how] /\ Goto(c, "done")

Invoke(c) ==
    /\ pc[c] = "idle"
    /\ \E d \in Dirs, n \in Given \cup {NoName}, net \in Networks \cup {NoNetwork} :
         asked' = [asked EXCEPT ![c] = [dir |-> d, name |-> n, network |-> net]]
    /\ \E where \in {"files", "run --rm", "ps", "rm"} : Goto(c, where)
    /\ UNCHANGED <<boxes, ret, ranIn, tmp, touched, faulted, stops>>

(***************************************************************************)
(* run_ephemeral.  Unless the user is root, passwd and group files are     *)
(* made first, in a subshell: its "_args+=" is lost with it, and the       *)
(* container is run without them.                                          *)
(***************************************************************************)
SetupUserFiles(c) ==
    /\ pc[c] = "files"
    /\ tmp' = [tmp EXCEPT ![c] = {"passwd", "group"}]
    /\ Goto(c, "run --rm")
    /\ UNCHANGED <<boxes, asked, ret, ranIn, touched, faulted, stops>>

\* rm -f "$tmp_files" names one file, "<passwd> <group>", which is not there.
RemoveUserFiles(c) == tmp' = [tmp EXCEPT ![c] = @ \ {"passwd group"}]

RunEphemeral(c) ==
    /\ pc[c] = "run --rm"
    /\ ranIn' = [ranIn EXCEPT ![c] = With(c)]
    /\ \/ End(c, "ran") /\ RemoveUserFiles(c)
       \/ End(c, "failed") /\ UNCHANGED tmp
    /\ UNCHANGED <<boxes, asked, touched, faulted, stops>>

(***************************************************************************)
(* run_persistent and ensure_container_running.                            *)
(***************************************************************************)
Ps(c) ==
    /\ pc[c] = "ps"
    /\ Goto(c, IF Up(Name(c)) THEN "exec" ELSE "ps -a")
    /\ UNCHANGED <<boxes, asked, ret, ranIn, tmp, touched, faulted, stops>>

\* A docker ps that fails finds nothing, as the pipeline is the test of an if.
PsFails(c) ==
    /\ pc[c] \in {"ps", "ps -a"}
    /\ Fault(c) /\ Goto(c, IF pc[c] = "ps" THEN "ps -a" ELSE "run")
    /\ UNCHANGED <<boxes, asked, ret, ranIn, tmp, touched, stops>>

\* Mutant: a container that has stopped is not looked for.
AfterPsAll_Run(name) == "run"
AfterPsAll(name) == IF Exists(name) THEN "start" ELSE "run"

PsAll(c) ==
    /\ pc[c] = "ps -a"
    /\ Goto(c, AfterPsAll(Name(c)))
    /\ UNCHANGED <<boxes, asked, ret, ranIn, tmp, touched, faulted, stops>>

\* docker start is content with a container that runs already.
DockerStart(c) ==
    /\ pc[c] = "start"
    /\ IF Exists(Name(c))
       THEN boxes' = Started(Name(c)) /\ Touch(Name(c), c) /\ Goto(c, "exec") /\ ret' = ret
       ELSE End(c, "failed") /\ UNCHANGED <<boxes, touched>>
    /\ UNCHANGED <<asked, ranIn, tmp, faulted, stops>>

DockerRun(c) ==
    /\ pc[c] = "run"
    /\ IF Exists(Name(c))
       THEN End(c, "failed") /\ UNCHANGED <<boxes, touched>>
       ELSE /\ boxes' = Created(Name(c), With(c), TRUE) /\ Touch(Name(c), c)
            /\ Goto(c, "exec") /\ ret' = ret
    /\ UNCHANGED <<asked, ranIn, tmp, faulted, stops>>

DockerExec(c) ==
    /\ pc[c] = "exec"
    /\ IF Up(Name(c))
       THEN ranIn' = [ranIn EXCEPT ![c] = boxes[Name(c)].with] /\ End(c, "ran")
       ELSE ranIn' = ranIn /\ End(c, "failed")
    /\ UNCHANGED <<boxes, asked, tmp, touched, faulted, stops>>

\* docker start, run -d or exec fails for another reason, and the script with it;
\* docker run may leave the container it has created.
PersistentFails(c) ==
    /\ pc[c] \in {"start", "run", "exec"}
    /\ Fault(c) /\ End(c, "failed")
    /\ \/ UNCHANGED <<boxes, touched>>
       \/ /\ pc[c] = "run" /\ ~Exists(Name(c))
          /\ boxes' = Created(Name(c), With(c), FALSE) /\ Touch(Name(c), c)
    /\ UNCHANGED <<asked, ranIn, tmp, stops>>

(***************************************************************************)
(* remove_persistent.                                                      *)
(***************************************************************************)
\* Mutant: only a container that runs is seen.
ToRemove_Running(name) == Up(name)
ToRemove(name) == Exists(name)

LookForRemoval(c) ==
    /\ pc[c] = "rm"
    /\ IF ToRemove(Name(c)) THEN Goto(c, "rm -f") /\ ret' = ret ELSE End(c, "none to remove")
    /\ UNCHANGED <<boxes, asked, ranIn, tmp, touched, faulted, stops>>

\* docker rm -f of a container that is gone is no error.
Remove(c) ==
    /\ pc[c] = "rm -f"
    /\ boxes' = Removed(Name(c)) /\ Touch(Name(c), c)
    /\ End(c, "removed")
    /\ UNCHANGED <<asked, ranIn, tmp, faulted, stops>>

\* A docker ps that fails finds nothing to remove; a docker rm that fails ends
\* the script.
RemovalFails(c) ==
    /\ pc[c] \in {"rm", "rm -f"}
    /\ Fault(c) /\ End(c, IF pc[c] = "rm" THEN "none to remove" ELSE "failed")
    /\ UNCHANGED <<boxes, asked, ranIn, tmp, touched, stops>>

-----------------------------------------------------------------------------
Stop(name) ==
    /\ stops < MaxStops /\ stops' = stops + 1
    /\ Up(name) /\ boxes' = Stopped(name) /\ Touch(name, "nobody")
    /\ UNCHANGED <<pc, asked, ret, ranIn, tmp, faulted>>

Step(c) ==
    \/ SetupUserFiles(c) \/ RunEphemeral(c)
    \/ Ps(c) \/ PsAll(c) \/ PsFails(c)
    \/ DockerStart(c) \/ DockerRun(c) \/ DockerExec(c) \/ PersistentFails(c)
    \/ LookForRemoval(c) \/ Remove(c) \/ RemovalFails(c)

Next == (\E c \in Calls : Invoke(c) \/ Step(c)) \/ (\E name \in DOMAIN boxes : Stop(name))

Spec == Init /\ [][Next]_vars

-----------------------------------------------------------------------------
(* Properties                                                              *)

\* What a call comes to, when nobody else changes its container between its
\* docker commands, and docker does what it is told.  Whatever state the container
\* is in, missing, stopped, running or left behind by a docker run that failed, a
\* call with -p gets it running and runs its command there; after --rm-persistent
\* there is no container of that name, running or stopped.
OutcomeExplained(c) ==
    ~touched[c] /\ ~faulted'[c] =>
      /\ pc[c] \in {"ps", "ps -a", "start", "run", "exec"} => ret'[c] # "failed"
      /\ pc[c] \in {"rm", "rm -f"} /\ pc'[c] = "done" => Name(c) \notin DOMAIN boxes'

DrunOutcomeExplained == [][\A c \in Calls : OutcomeExplained(c)]_vars

\* A container is always mounted from a directory that exists.
Mounted == [dir : Dirs, network : Networks \cup {Bridge}]

TypeOK ==
    /\ boxes \in [DOMAIN boxes -> [with : Mounted, up : BOOLEAN]]
    /\ DOMAIN boxes \subseteq Given \cup {BaseName[d] : d \in Dirs}
    /\ pc \in [Calls -> {"idle", "files", "run --rm", "ps", "ps -a", "start", "run", "exec",
                         "rm", "rm -f", "done"}]
    /\ DOMAIN asked = Calls
    /\ \A c \in Calls : pc[c] # "idle" =>
         asked[c] \in [dir : Dirs, name : Given \cup {NoName}, network : Networks \cup {NoNetwork}]
    /\ ret \in [Calls -> {"none", "ran", "removed", "none to remove", "failed"}]
    /\ ranIn \in [Calls -> {Nothing} \cup Mounted]
    /\ tmp \in [Calls -> SUBSET {"passwd", "group"}]
    /\ touched \in [Calls -> BOOLEAN] /\ faulted \in [Calls -> BOOLEAN]
    /\ stops \in 0 .. MaxStops

\* The inductive invariant behind it: what a call that nobody disturbs knows.
Undisturbed ==
    \A c \in Calls : ~touched[c] /\ ~faulted[c] =>
      /\ pc[c] = "ps -a" => ~Up(Name(c))
      /\ pc[c] \in {"start", "rm -f"} => Exists(Name(c))
      /\ pc[c] = "run" => ~Exists(Name(c))
      /\ pc[c] = "exec" => Up(Name(c))

Unanswered == \A c \in Calls : pc[c] # "done" => ret[c] = "none"

IInv == TypeOK /\ Undisturbed /\ Unanswered
=============================================================================
