------------------------------ MODULE MpvFiles ------------------------------
(***************************************************************************)
(* The mpv scripts keeper.lua, which adds what plays to a list of          *)
(* bookmarks, and rename.lua, which renames it, with several players over  *)
(* one directory and one list.  A handler looks first and acts then, and   *)
(* another player's handler may come between.  A path is a pair of a stem  *)
(* and an extension; what a file holds is a film.                          *)
(***************************************************************************)
EXTENDS Naturals, Sequences, SequencesExt

CONSTANTS
  Players, Stems, Extensions,
  Films,      \* the paths at which there is a film in the beginning
  Nothing,    \* no film, path or prompt
  Stream,     \* what is not a local file
  MaxKeys     \* bound: keys pressed in all players together

VARIABLES
  disk,       \* what each path holds
  keepers,    \* the lines of keepers.m3u
  path, film, \* mpv's property, and what it has opened
  prompt,     \* the path, and the film, for which the rename prompt was opened
  act,        \* what a handler is about to do
  keys,
  given, raced   \* history: names that a rename gave; two looked before either acted

vars == <<disk, keepers, path, film, prompt, act, keys, given, raced>>

Paths == Stems \X Extensions
Local == Paths

\* What the constants must satisfy; assumed where they get their values.
MpvFilesAssumption ==
  Films \subseteq Paths /\ Nothing \notin Paths /\ Stream \notin Paths /\ MaxKeys \in Nat

Idle == [do |-> "nothing"]

Init ==
  /\ disk = [q \in Paths |-> IF q \in Films THEN q ELSE Nothing]
  /\ keepers = <<>>
  /\ path \in [Players -> Films] /\ film = path
  /\ prompt = [p \in Players |-> Nothing] /\ act = [p \in Players |-> Idle]
  /\ keys = 0 /\ given = {} /\ raced = {}

\* A handler starts: those of one player wait for one another.
Pressed(p) == act[p] = Idle /\ keys < MaxKeys /\ keys' = keys + 1

\* Somebody else is about to do the same to q.
Meets(p, does, q) ==
  \E o \in Players \ {p} : act[o].do = does /\ act[o].to = q
Race(p, does, q) == raced' = IF Meets(p, does, q) THEN raced \cup {q} ELSE raced

\* The player goes on to another film, or a stream.
Play(p) ==
  /\ Pressed(p)
  /\ \E q \in {r \in Paths : disk[r] # Nothing} \cup {Stream} :
       path' = [path EXCEPT ![p] = q] /\ film' = [film EXCEPT ![p] = IF q = Stream THEN q ELSE disk[q]]
  /\ UNCHANGED <<disk, keepers, prompt, act, given, raced>>

-----------------------------------------------------------------------------
(* keeper.lua                                                              *)

IsBookmarked(q) == q \in ToSet(keepers)

Bookmark(p) ==
  /\ Pressed(p)
  /\ path[p] \in Local /\ ~IsBookmarked(path[p])
  /\ act' = [act EXCEPT ![p] = [do |-> "append", to |-> path[p]]]
  /\ Race(p, "append", path[p])
  /\ UNCHANGED <<disk, keepers, path, film, prompt, given>>

AppendLine(p) ==
  /\ act[p].do = "append"
  /\ keepers' = Append(keepers, act[p].to)
  /\ act' = [act EXCEPT ![p] = Idle]
  /\ UNCHANGED <<disk, path, film, prompt, keys, given, raced>>

-----------------------------------------------------------------------------
(* rename.lua                                                              *)

RenameCurrent(p) ==
  /\ Pressed(p)
  /\ path[p] \in Local
  /\ prompt' = [prompt EXCEPT ![p] = [from |-> path[p], film |-> film[p]]]
  /\ UNCHANGED <<disk, keepers, path, film, act, given, raced>>

\* split_extension: the new name keeps the extension.
NewPath(from, stem) == <<stem, from[2]>>

\* (Mutant of Free: the name is not looked for.)
Free_Unchecked(from, to) == to # from

\* Where the name is the old one, or taken, the prompt is closed and that is all.
Free(from, to) == to # from /\ disk[to] = Nothing

Submit(p, stem) ==
  /\ Pressed(p)
  /\ prompt[p] # Nothing
  /\ prompt' = [prompt EXCEPT ![p] = Nothing]
  /\ LET from == prompt[p].from
         to == NewPath(from, stem)
     IN  IF Free(from, to)
         THEN /\ act' = [act EXCEPT ![p] = [do |-> "rename", from |-> from, to |-> to, film |-> prompt[p].film]]
              /\ Race(p, "rename", to)
         ELSE UNCHANGED <<act, raced>>
  /\ UNCHANGED <<disk, keepers, path, film, given>>

\* os.rename; mpv goes on with the old path as its property.
Rename(p) ==
  /\ act[p].do = "rename"
  /\ act' = [act EXCEPT ![p] = Idle]
  /\ IF disk[act[p].from] = Nothing THEN UNCHANGED <<disk, given>>
     ELSE /\ disk' = [disk EXCEPT ![act[p].to] = disk[act[p].from], ![act[p].from] = Nothing]
          /\ given' = given \cup {act[p].to}
  /\ UNCHANGED <<keepers, path, film, prompt, keys, raced>>

Next ==
  \E p \in Players :
    \/ Play(p) \/ Bookmark(p) \/ AppendLine(p) \/ RenameCurrent(p) \/ Rename(p)
    \/ \E stem \in Stems : Submit(p, stem)

Spec == Init /\ [][Next]_vars

-----------------------------------------------------------------------------
(* Properties                                                              *)

\* What a player knows of a path is still so, or the path has been given away.
Known(q, f) == disk[q] \in {f, Nothing} \/ q \in given

\* A film is lost only under a name for which two players looked before
\* either took it, a path is bookmarked twice only likewise, and a rename
\* meets another film than the one it was asked for only at a path that a
\* rename gave away: mpv does not learn of renames, and the prompt keeps
\* the path, not the film.
FilmsKept ==
  /\ \A f \in Films : (\E q \in Paths : disk[q] = f) \/ raced # {}
  /\ \A i, j \in DOMAIN keepers : i # j /\ keepers[i] = keepers[j] => keepers[i] \in raced
  /\ \A p \in Players : act[p].do = "rename" => Known(act[p].from, act[p].film)

\* The inductive invariant behind it: what was known when the prompt was opened
\* or the film, and what a handler has seen that is about to act.
TypeOK ==
  /\ disk \in [Paths -> Films \cup {Nothing}] /\ keepers \in Seq(Paths)
  /\ path \in [Players -> Paths \cup {Stream}] /\ film \in [Players -> Films \cup {Stream}]
  /\ prompt \in [Players -> [from : Paths, film : Films \cup {Stream}] \cup {Nothing}]
  /\ act \in [Players ->
       {Idle} \cup [do : {"append"}, to : Paths]
       \cup [do : {"rename"}, from : Paths, to : Paths, film : Films \cup {Stream}]]
  /\ keys \in 0 .. MaxKeys /\ given \subseteq Paths /\ raced \subseteq Paths

Remembered ==
  \A p \in Players :
    /\ path[p] \in Paths => Known(path[p], film[p])
    /\ prompt[p] # Nothing => Known(prompt[p].from, prompt[p].film)

Seen ==
  \A p \in Players :
    /\ act[p].do = "rename" =>
         act[p].to # act[p].from /\ (disk[act[p].to] = Nothing \/ act[p].to \in raced)
    /\ act[p].do = "append" => act[p].to \notin ToSet(keepers) \/ act[p].to \in raced
    /\ \A o \in Players \ {p} :
         act[p].do # "nothing" /\ act[o].do = act[p].do /\ act[o].to = act[p].to
           => act[p].to \in raced

IInv == TypeOK /\ FilmsKept /\ Remembered /\ Seen
=============================================================================
