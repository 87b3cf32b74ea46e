------------------------------- MODULE Cexec -------------------------------
(***************************************************************************)
(* dot_examples/c/devc/cexec.c: run a command in a container that fits the *)
(* project.  The kind of project is detected from the files of its root;   *)
(* unless asked for an ephemeral container the command is run in the one   *)
(* named by -n (dev-main by default), which is started if it does not run. *)
(*                                                                         *)
(* Calls of cexec run side by side and share the containers; a container   *)
(* can stop between calls (a reboot), and nobody but its user removes it.  *)
(*                                                                         *)
(* Abstracted: the text of the podman commands, the two cache mounts, the  *)
(* user mapping; a path is the sequence of its names, a file that is a     *)
(* project marker is a name in the directory's set of entries.             *)
(***************************************************************************)
EXTENDS ContainerEngine, Sequences, FiniteSetsExt

CONSTANTS
    Calls,        \* invocations of cexec
    Dirs,         \* directories it may be called in, as paths
    Entries,      \* what is in each directory
    Names,        \* container names given with -n
    NoImage,      \* no -i
    Images,       \* images given with -i
    MaxStops      \* bound: containers stopped

\* What the constants must satisfy; assumed where they get their values.
CexecAssumption ==
    /\ \A d \in Dirs : d \in Seq(STRING)
    /\ DOMAIN Entries = Dirs /\ \A d \in Dirs : Entries[d] \subseteq STRING
    /\ NoImage \notin Images /\ MaxStops \in Nat /\ "nobody" \notin Calls

VARIABLES
    pc,           \* where each call is
    config,       \* what it was asked for: cwd, name, image, keep_container
    ret,          \* how it ended: "ran", "no run", "no start" or "no exec"
    ranIn,        \* what the container its command ran in was created with
    seenUp,       \* is_container_running's answer
    touched,      \* someone else changed its container while it ran (history)
    faulted,      \* a podman command of it failed for a reason of its own (history)
    stops         \* containers stopped so far (bound)

vars == <<boxes, pc, config, ret, ranIn, seenUp, touched, faulted, stops>>

(***************************************************************************)
(* The project.                                                            *)
(***************************************************************************)
Markers == {".git", "Makefile", "CMakeLists.txt", "configure.ac"}

Has(dir, names) == dir \in Dirs /\ Entries[dir] \cap names # {}

Upto(dir, i) == SubSeq(dir, 1, i)

\* From the directory upwards, the first with a marker; else where we are.
FindProjectRoot(start) ==
    LET marked == {i \in 0 .. Len(start) : Has(Upto(start, i), Markers)}
    IN  IF marked = {} THEN start ELSE Upto(start, Max(marked))

\* A Makefile is read for traces of C++; "Makefile++" stands for one that has them.
DetectProjectType(root) ==
    CASE Has(root, {"CMakeLists.txt"}) -> "cmake"
      [] ~Has(root, {"CMakeLists.txt"}) /\ Has(root, {"configure.ac", "configure.in"}) -> "autotools"
      [] ~Has(root, {"CMakeLists.txt", "configure.ac", "configure.in"}) /\ Has(root, {"Makefile"}) ->
            IF Has(root, {"Makefile++"}) THEN "cpp" ELSE "c"
      [] OTHER ->
            IF Has(root, {".cpp", ".cc", ".cxx"}) THEN "cpp"
            ELSE IF Has(root, {".c"}) THEN "c" ELSE "unknown"

ProjectImage(cwd) == DetectProjectType(FindProjectRoot(cwd))

\* What podman run is told: the image, and the directory mounted.
With(c) ==
    [image |-> IF config[c].image = NoImage THEN ProjectImage(config[c].cwd) ELSE config[c].image,
     root |-> FindProjectRoot(config[c].cwd)]

Inside(dir, root) == Len(root) <= Len(dir) /\ Upto(dir, Len(root)) = root

-----------------------------------------------------------------------------
Idle == [cwd |-> <<>>, name |-> "", image |-> NoImage, keep |-> FALSE]
Nothing == [image |-> NoImage, root |-> <<>>]

Init ==
    /\ boxes = [n \in {} |-> Nothing]
    /\ pc = [c \in Calls |-> "idle"]
    /\ config = [c \in Calls |-> Idle]
    /\ ret = [c \in Calls |-> "none"]
    /\ ranIn = [c \in Calls |-> Nothing]
    /\ seenUp = [c \in Calls |-> FALSE]
    /\ touched = [c \in Calls |-> FALSE]
    /\ faulted = [c \in Calls |-> FALSE]
    /\ stops = 0

Running(c) == pc[c] \notin {"idle", "done"}

\* The calls that use the container, other than by itself.
Touch(name, by) ==
    touched' = [c \in Calls |-> touched[c] \/ (c # by /\ Running(c) /\ config[c].name = name)]

Goto(c, where) == pc' = [pc EXCEPT ![c] = where]

Fault(c) == faulted' = [faulted EXCEPT ![c] = TRUE]

End(c, how) == ret' = [ret EXCEPT ![c] = how] /\ Goto(c, "done")

Invoke(c) ==
    /\ pc[c] = "idle"
    /\ \E cwd \in Dirs, name \in Names, image \in Images \cup {NoImage}, keep \in BOOLEAN :
         /\ config' = [config EXCEPT ![c] = [cwd |-> cwd, name |-> name, image |-> image, keep |-> keep]]
         /\ Goto(c, IF keep THEN "check" ELSE "ephemeral")
    /\ UNCHANGED <<boxes, ret, ranIn, seenUp, touched, faulted, stops>>

\* podman run --rm: a container of its own, gone afterwards.
RunEphemeral(c) ==
    /\ pc[c] = "ephemeral"
    /\ ranIn' = [ranIn EXCEPT ![c] = With(c)]
    /\ End(c, "ran")
    /\ UNCHANGED <<boxes, config, seenUp, touched, faulted, stops>>

\* Its status, or that of system(3), is cexec's.
RunEphemeralFails(c) ==
    /\ pc[c] = "ephemeral"
    /\ Fault(c) /\ End(c, "no run")
    /\ UNCHANGED <<boxes, config, ranIn, seenUp, touched, stops>>

\* Mutant: a container that exists is taken for one that runs.
AfterCheck_Exists(name) == IF Exists(name) THEN "exec" ELSE "start"

AfterCheck(name) == IF Up(name) THEN "exec" ELSE "start"

IsContainerRunning(c) ==
    /\ pc[c] = "check"
    /\ seenUp' = [seenUp EXCEPT ![c] = Up(config[c].name)]
    /\ Goto(c, AfterCheck(config[c].name))
    /\ UNCHANGED <<boxes, config, ret, ranIn, touched, faulted, stops>>

\* Whatever goes wrong with "podman ps | grep" is taken for "not running".
LookFails(c) ==
    /\ pc[c] = "check"
    /\ seenUp' = [seenUp EXCEPT ![c] = FALSE]
    /\ Fault(c) /\ Goto(c, "start")
    /\ UNCHANGED <<boxes, config, ret, ranIn, touched, stops>>

StartContainer(c) ==
    /\ pc[c] = "start"
    /\ IF Exists(config[c].name)
       THEN End(c, "no start") /\ UNCHANGED <<boxes, touched>>
       ELSE /\ boxes' = Created(config[c].name, With(c), TRUE)
            /\ Touch(config[c].name, c)
            /\ Goto(c, "exec") /\ ret' = ret
    /\ UNCHANGED <<config, ranIn, seenUp, faulted, stops>>

\* Any other failure of podman run: cexec ends, and the container may be there.
StartFails(c) ==
    /\ pc[c] = "start"
    /\ Fault(c) /\ End(c, "no start")
    /\ \/ UNCHANGED <<boxes, touched>>
       \/ /\ ~Exists(config[c].name)
          /\ boxes' = Created(config[c].name, With(c), FALSE)
          /\ Touch(config[c].name, c)
    /\ UNCHANGED <<config, ranIn, seenUp, stops>>

\* podman exec -w cwd: the container runs and knows the directory.
Executes(c) == Up(config[c].name) /\ Inside(config[c].cwd, boxes[config[c].name].with.root)

ExecInContainer(c) ==
    /\ pc[c] = "exec"
    /\ IF Executes(c)
       THEN ranIn' = [ranIn EXCEPT ![c] = boxes[config[c].name].with] /\ End(c, "ran")
       ELSE ranIn' = ranIn /\ End(c, "no exec")
    /\ UNCHANGED <<boxes, config, seenUp, touched, faulted, stops>>

\* fork, execvp or podman exec fails.
ExecFails(c) ==
    /\ pc[c] = "exec"
    /\ Fault(c) /\ End(c, "no exec")
    /\ UNCHANGED <<boxes, config, ranIn, seenUp, touched, stops>>

\* The engine stops a container, or its user removes it.
Stop(name) ==
    /\ stops < MaxStops /\ stops' = stops + 1
    /\ Exists(name)
    /\ boxes' \in {Removed(name)} \cup (IF Up(name) THEN {Stopped(name)} ELSE {})
    /\ Touch(name, "nobody")
    /\ UNCHANGED <<pc, config, ret, ranIn, seenUp, faulted>>

Step(c) ==
    \/ RunEphemeral(c) \/ RunEphemeralFails(c)
    \/ IsContainerRunning(c) \/ LookFails(c)
    \/ StartContainer(c) \/ StartFails(c)
    \/ ExecInContainer(c) \/ ExecFails(c)

Next == (\E c \in Calls : Invoke(c) \/ Step(c)) \/ (\E name \in Names : Stop(name))

Spec == Init /\ [][Next]_vars

-----------------------------------------------------------------------------
(* Properties                                                              *)

\* What a call comes to, when nobody else changes its container meanwhile.
\* It runs its command in another image, or over another mount, than its own
\* project's only in a container that it found running (whereas the usage text
\* promises "a project-appropriate container").  While podman does what it is
\* told, a call fails in two ways only: its command is refused by a container that
\* it found running and that does not hold the caller's directory; or it cannot
\* start its container as one of that name exists and has stopped, which no call
\* mends.  Between the look (podman ps) and the start (podman run --name) another
\* call may come.
OutcomeExplained(c) ==
    ret'[c] # ret[c] /\ ~touched[c] =>
      /\ ret'[c] = "ran" /\ ranIn'[c] # With(c) => seenUp[c]
      /\ ret'[c] # "ran" /\ ~faulted'[c] =>
           \/ /\ ret'[c] = "no exec" /\ seenUp[c] /\ Up(config[c].name)
              /\ ~Inside(config[c].cwd, boxes[config[c].name].with.root)
           \/ ret'[c] = "no start" /\ Exists(config[c].name) /\ ~Up(config[c].name)

CexecOutcomeExplained == [][\A c \in Calls : OutcomeExplained(c)]_vars

\* A container is always mounted from a directory that exists.
Mounted == [image : Images \cup {"cmake", "autotools", "cpp", "c", "unknown"}, root : Dirs]

TypeOK ==
    /\ boxes \in [DOMAIN boxes -> [with : Mounted, up : BOOLEAN]] /\ DOMAIN boxes \subseteq Names
    /\ pc \in [Calls -> {"idle", "ephemeral", "check", "start", "exec", "done"}]
    /\ DOMAIN config = Calls
    /\ \A c \in Calls : pc[c] # "idle" =>
         config[c] \in [cwd : Dirs, name : Names, image : Images \cup {NoImage}, keep : BOOLEAN]
    /\ ret \in [Calls -> {"none", "ran", "no run", "no start", "no exec"}]
    /\ ranIn \in [Calls -> {Nothing} \cup Mounted]
    /\ seenUp \in [Calls -> BOOLEAN] /\ touched \in [Calls -> BOOLEAN]
    /\ faulted \in [Calls -> BOOLEAN]
    /\ stops \in 0 .. MaxStops

\* The inductive invariant behind it: what a call that nobody disturbs knows.
Undisturbed ==
    \A c \in Calls : ~touched[c] =>
      /\ pc[c] = "start" => ~seenUp[c] /\ (Up(config[c].name) => faulted[c])
      /\ pc[c] = "exec" =>
           /\ Up(config[c].name)
           /\ ~seenUp[c] => boxes[config[c].name].with = With(c)

IInv == TypeOK /\ Undisturbed
=============================================================================
