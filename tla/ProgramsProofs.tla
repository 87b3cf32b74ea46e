--------------------------- MODULE ProgramsProofs ---------------------------
(***************************************************************************)
(* Proofs about the small programs: the mpv scripts' files (MpvFiles), the *)
(* id map (SfMap, which implements IdMap), cexec (Cexec), drun (Drun), cpy *)
(* (Cpy) and the ldap cache (LdapCache), for all values of the constants   *)
(* that satisfy ProgramsAssumption; and about two pure ones, the text that *)
(* hex writes (HexTools) and the order of uuids (Uuid).                    *)
(***************************************************************************)
EXTENDS Programs, Integers, Sequences, FiniteSets, FiniteSetTheorems, SequenceTheorems,
        WellFoundedInduction, TLAPS

-----------------------------------------------------------------------------
(* Numbers                                                                 *)

Less == {ss \in Nat \X Nat : ss[1] < ss[2]}

\* The numbers have no endless descent,
LEMMA LessWellFounded == IsWellFoundedOn(Less, Nat)
BY NatLessThanWellFounded, Zenon DEF OpToRel, Less

\* so a set of them has a least.
LEMMA LeastOf ==
  ASSUME NEW T \in SUBSET Nat, T # {}
  PROVE  \E m \in T : \A n \in T : m <= n
<1>1. PICK x \in T : \A y \in T : ~ (<<y, x>> \in Less)
  BY LessWellFounded, WFMin, Zenon
<1>2. \A y \in T : ~(y < x)
  BY <1>1 DEF Less
<1>3. QED
  BY <1>2

\* A set of numbers up to a bound has a greatest.
LEMMA GreatestOf ==
  ASSUME NEW n \in Nat, NEW T \in SUBSET (0 .. n), T # {}
  PROVE  \E m \in T : \A k \in T : m >= k
<1> DEFINE U == {k \in 0 .. n : n - k \in T}
<1>1. U \in SUBSET Nat  OBVIOUS
<1>2. PICK x \in T : x \in 0 .. n  OBVIOUS
<1>3. n - x \in U  BY <1>2
<1>4. PICK m \in U : \A k \in U : m <= k  BY <1>1, <1>3, LeastOf
<1>5. ASSUME NEW k \in T PROVE n - m >= k
  <2>1. k \in 0 .. n /\ n - k \in U  OBVIOUS
  <2>2. m \in 0 .. n /\ m <= n - k  BY <1>4, <2>1
  <2>3. QED  BY <2>1, <2>2
<1>6. n - m \in T  BY <1>4
<1>7. QED  BY <1>5, <1>6

\* What holds of 0 and goes from each number to the next holds up to n.
LEMMA Steps ==
  ASSUME NEW n \in Nat, NEW S, 0 \in S, \A k \in 1 .. n : k - 1 \in S => k \in S
  PROVE  0 .. n \subseteq S
<1> DEFINE T == {k \in 0 .. n : k \notin S}
<1> SUFFICES ASSUME T # {} PROVE FALSE  OBVIOUS
<1>1. PICK m \in T : \A k \in T : m <= k
  <2>1. T \in SUBSET Nat  OBVIOUS
  <2>2. QED  BY <2>1, LeastOf, Zenon
<1>2. m \in 1 .. n  BY <1>1
<1>3. m - 1 \in 0 .. n /\ m - 1 \notin T  BY <1>1, <1>2
<1>4. QED  BY <1>1, <1>2, <1>3

\* Steps from one value to the next, taken one after another,
StepsIn(step, n, T) == step \in [1 .. n -> [T -> T]]
Iterates(g, step, base, n, T) ==
  g \in [0 .. n -> T] /\ g[0] = base /\ \A k \in 1 .. n : g[k] = step[k][g[k - 1]]

\* lead from any first value to a last one.
LEMMA Iterated ==
  ASSUME NEW n \in Nat, NEW T, NEW base \in T, NEW step, StepsIn(step, n, T)
  PROVE  \E g : Iterates(g, step, base, n, T)
<1> USE DEF StepsIn
<1> DEFINE Upto(g, m) == g[0] = base /\ \A k \in 1 .. m : g[k] = step[k][g[k - 1]]
           S == {m \in 0 .. n : \E g \in [0 .. n -> T] : Upto(g, m)}
<1>1. 0 \in S
  <2> DEFINE g == [k \in 0 .. n |-> base]
  <2>1. g \in [0 .. n -> T] /\ 0 \in 0 .. n  OBVIOUS
  <2>2. Upto(g, 0)  OBVIOUS
  <2>3. QED  BY <2>1, <2>2
<1>2. ASSUME NEW m \in 1 .. n, m - 1 \in S PROVE m \in S
  <2>1. PICK g \in [0 .. n -> T] : Upto(g, m - 1)  BY <1>2
  <2>2. m - 1 \in 0 .. n /\ g[m - 1] \in T  OBVIOUS
  <2>3. step[m][g[m - 1]] \in T  BY <2>2
  <2> DEFINE h == [g EXCEPT ![m] = step[m][g[m - 1]]]
  <2>4. h \in [0 .. n -> T]  BY <2>3
  <2>5. \A k \in 0 .. n : k # m => h[k] = g[k]  OBVIOUS
  <2>6. h[m] = step[m][g[m - 1]]  OBVIOUS
  <2>7. Upto(h, m)
    <3>1. h[0] = base  BY <2>1, <2>5
    <3>2. ASSUME NEW k \in 1 .. m PROVE h[k] = step[k][h[k - 1]]
      <4>1. k - 1 \in 0 .. n /\ k - 1 # m /\ k \in 0 .. n  OBVIOUS
      <4>2. h[k - 1] = g[k - 1]  BY <4>1, <2>5
      <4>3. CASE k = m  BY <4>2, <4>3, <2>6
      <4>4. CASE k # m
        <5>1. k \in 1 .. m - 1  BY <4>4
        <5>2. g[k] = step[k][g[k - 1]]  BY <5>1, <2>1
        <5>3. h[k] = g[k]  BY <4>1, <4>4, <2>5
        <5>4. QED  BY <5>2, <5>3, <4>2
      <4>5. QED  BY <4>3, <4>4
    <3>3. QED  BY <3>1, <3>2
  <2>8. m \in 0 .. n  OBVIOUS
  <2>9. QED  BY <2>4, <2>7, <2>8
<1>3. 0 .. n \subseteq S
  <2> HIDE DEF S
  <2>1. QED  BY <1>1, <1>2, Steps
<1>4. n \in S  BY <1>3
<1>5. QED  BY <1>4 DEF Iterates

-----------------------------------------------------------------------------
(* The mpv scripts: MpvFiles                                               *)

\* The invariant holds before the first key is pressed.
LEMMA FilesInit == ASSUME P!MpvFilesAssumption, P!Init PROVE P!IInv
<1> USE DEF P!MpvFilesAssumption, P!Init, P!Paths, P!Idle
<1>1. P!TypeOK  BY DEF P!TypeOK
<1>2. P!FilmsKept  BY DEF P!FilmsKept, P!Known
<1>3. P!Remembered  BY DEF P!Remembered, P!Known
<1>4. P!Seen  BY DEF P!Seen
<1>5. QED  BY <1>1, <1>2, <1>3, <1>4 DEF P!IInv

\* A lookup that starts with nothing of the disk or the list changed.
LEMMA PlayInductive ==
  ASSUME P!MpvFilesAssumption, P!IInv, NEW p \in Players, P!Play(p)
  PROVE  P!IInv'
<1> USE DEF P!MpvFilesAssumption, P!IInv
<1>1. PICK q \in {r \in P!Paths : disk[r] # NoFilm} \cup {Stream} :
        path' = [path EXCEPT ![p] = q] /\ film' = [film EXCEPT ![p] = IF q = Stream THEN q ELSE disk[q]]
  BY DEF P!Play
<1>2. /\ UNCHANGED <<disk, keepers, prompt, act, given, raced>>
      /\ keys < MaxKeys /\ keys' = keys + 1
  BY DEF P!Play, P!Pressed
<1>3. P!TypeOK'  BY <1>1, <1>2 DEF P!TypeOK
<1>4. P!FilmsKept'  BY <1>2 DEF P!FilmsKept, P!Known
<1>5. P!Remembered'  BY <1>1, <1>2 DEF P!Remembered, P!Known, P!TypeOK
<1>6. P!Seen'  BY <1>2 DEF P!Seen
<1>7. QED  BY <1>3, <1>4, <1>5, <1>6

\* A path that is not in the list is to be appended.
LEMMA BookmarkInductive ==
  ASSUME P!MpvFilesAssumption, P!IInv, NEW p \in Players, P!Bookmark(p)
  PROVE  P!IInv'
<1> USE DEF P!MpvFilesAssumption, P!IInv
<1>1. /\ UNCHANGED <<disk, keepers, path, film, prompt, given>>
      /\ keys < MaxKeys /\ keys' = keys + 1
      /\ path[p] \in P!Paths /\ path[p] \notin P!ToSet(keepers)
      /\ act' = [act EXCEPT ![p] = [do |-> "append", to |-> path[p]]]
      /\ P!Race(p, "append", path[p])
  BY DEF P!Bookmark, P!Pressed, P!Local, P!IsBookmarked
<1>2. raced' \subseteq P!Paths /\ raced \subseteq raced'
  BY <1>1 DEF P!Race, P!TypeOK
<1>3. P!TypeOK'  BY <1>1, <1>2 DEF P!TypeOK
<1>4. P!FilmsKept'
  BY <1>1, <1>2 DEF P!FilmsKept, P!Known, P!TypeOK
<1>5. P!Remembered'  BY <1>1 DEF P!Remembered, P!Known
<1>6. P!Seen'
  <2> SUFFICES ASSUME NEW r \in Players
               PROVE  /\ act'[r].do = "rename" =>
                           act'[r].to # act'[r].from /\ (disk'[act'[r].to] = NoFilm \/ act'[r].to \in raced')
                      /\ act'[r].do = "append" => act'[r].to \notin P!ToSet(keepers') \/ act'[r].to \in raced'
                      /\ \A o \in Players \ {r} :
                           act'[r].do # "nothing" /\ act'[o].do = act'[r].do /\ act'[o].to = act'[r].to
                             => act'[r].to \in raced'
    BY DEF P!Seen
  <2>1. act'[p] = [do |-> "append", to |-> path[p]] /\ \A o \in Players \ {p} : act'[o] = act[o]
    BY <1>1 DEF P!TypeOK
  <2>2. \A o \in Players \ {p} : act[o].do = "append" /\ act[o].to = path[p] => path[p] \in raced'
    BY <1>1 DEF P!Race, P!Meets
  <2>3. CASE r = p  BY <1>1, <2>1, <2>2, <2>3
  <2>4. CASE r # p  BY <1>1, <1>2, <2>1, <2>2, <2>4 DEF P!Seen
  <2>5. QED  BY <2>3, <2>4
<1>7. QED  BY <1>3, <1>4, <1>5, <1>6

\* A path is appended that another player may have appended since.
LEMMA AppendLineInductive ==
  ASSUME P!MpvFilesAssumption, P!IInv, NEW p \in Players, P!AppendLine(p)
  PROVE  P!IInv'
<1> USE DEF P!MpvFilesAssumption, P!IInv
<1>1. /\ UNCHANGED <<disk, path, film, prompt, keys, given, raced>>
      /\ act[p].do = "append" /\ keepers' = Append(keepers, act[p].to)
      /\ act' = [act EXCEPT ![p] = P!Idle]
  BY DEF P!AppendLine
<1>2. act[p].to \in P!Paths /\ keepers \in Seq(P!Paths)
  BY <1>1 DEF P!TypeOK, P!Idle
<1>3. P!TypeOK'  BY <1>1, <1>2 DEF P!TypeOK
<1>4. P!ToSet(keepers') = P!ToSet(keepers) \cup {act[p].to}
  BY <1>1, <1>2 DEF P!ToSet
<1>5. act[p].to \notin P!ToSet(keepers) \/ act[p].to \in raced
  BY <1>1 DEF P!Seen
<1>6. P!FilmsKept'
  <2>1. \A f \in Films : (\E q \in P!Paths : disk'[q] = f) \/ raced' # {}
    BY <1>1 DEF P!FilmsKept
  <2>2. \A i, j \in DOMAIN keepers' : i # j /\ keepers'[i] = keepers'[j] => keepers'[i] \in raced'
    BY <1>1, <1>2, <1>5 DEF P!FilmsKept, P!ToSet
  <2>3. \A o \in Players : (act[o].do = "rename" => P!Known(act[o].from, act[o].film))'
    <3> SUFFICES ASSUME NEW o \in Players, act'[o].do = "rename"
                 PROVE  act'[o] = act[o]
      BY <1>1 DEF P!FilmsKept, P!Known
    <3>1. QED  BY <1>1 DEF P!TypeOK, P!Idle
  <2>4. QED  BY <2>1, <2>2, <2>3 DEF P!FilmsKept, P!Known
<1>7. P!Remembered'  BY <1>1 DEF P!Remembered, P!Known
<1>8. P!Seen'
  <2>1. act'[p] = [do |-> "nothing"] /\ \A o \in Players \ {p} : act'[o] = act[o]
    BY <1>1 DEF P!TypeOK, P!Idle
  <2>2. \A o \in Players \ {p} : act[o].do = "append" /\ act[o].to = act[p].to => act[o].to \in raced
    BY <1>1 DEF P!Seen
  <2>3. QED  BY <1>1, <1>4, <2>1, <2>2 DEF P!Seen
<1>9. QED  BY <1>3, <1>6, <1>7, <1>8

\* The prompt for the name remembers the path and the film that is played.
LEMMA RenameCurrentInductive ==
  ASSUME P!MpvFilesAssumption, P!IInv, NEW p \in Players, P!RenameCurrent(p)
  PROVE  P!IInv'
<1> USE DEF P!MpvFilesAssumption, P!IInv
<1>1. /\ UNCHANGED <<disk, keepers, path, film, act, given, raced>>
      /\ keys < MaxKeys /\ keys' = keys + 1 /\ path[p] \in P!Paths
      /\ prompt' = [prompt EXCEPT ![p] = [from |-> path[p], film |-> film[p]]]
  BY DEF P!RenameCurrent, P!Pressed, P!Local
<1>2. P!TypeOK'  BY <1>1 DEF P!TypeOK
<1>3. P!FilmsKept'  BY <1>1 DEF P!FilmsKept, P!Known
<1>4. P!Remembered'  BY <1>1 DEF P!Remembered, P!Known, P!TypeOK
<1>5. P!Seen'  BY <1>1 DEF P!Seen
<1>6. QED  BY <1>2, <1>3, <1>4, <1>5

\* A name that is free is to be renamed to.
LEMMA SubmitInductive ==
  ASSUME P!MpvFilesAssumption, P!IInv, NEW p \in Players, NEW stem \in Stems, P!Submit(p, stem)
  PROVE  P!IInv'
<1> USE DEF P!MpvFilesAssumption, P!IInv
<1> DEFINE from == prompt[p].from
           to == P!NewPath(from, stem)
<1>1. /\ UNCHANGED <<disk, keepers, path, film, given>>
      /\ keys < MaxKeys /\ keys' = keys + 1 /\ prompt[p] # NoFilm
      /\ prompt' = [prompt EXCEPT ![p] = NoFilm]
  BY DEF P!Submit, P!Pressed
<1>2. from \in P!Paths /\ prompt[p].film \in Films \cup {Stream} /\ P!Known(from, prompt[p].film)
  BY <1>1 DEF P!TypeOK, P!Remembered
<1>3. to \in P!Paths  BY <1>2 DEF P!Paths, P!NewPath
<1>4. P!Remembered'  BY <1>1 DEF P!Remembered, P!Known, P!TypeOK
<1>5. CASE P!Free(from, to)
  <2>1. /\ act' = [act EXCEPT ![p] = [do |-> "rename", from |-> from, to |-> to, film |-> prompt[p].film]]
        /\ P!Race(p, "rename", to)
    BY <1>5 DEF P!Submit
  <2>2. to # from /\ disk[to] = NoFilm  BY <1>5 DEF P!Free
  <2> HIDE DEF to, from
  <2>3. raced' \subseteq P!Paths /\ raced \subseteq raced'
    BY <1>3, <2>1 DEF P!Race, P!TypeOK
  <2>4. P!TypeOK'  BY <1>1, <1>2, <1>3, <2>1, <2>3 DEF P!TypeOK
  <2>5. P!FilmsKept'
    BY <1>1, <1>2, <2>1, <2>3 DEF P!FilmsKept, P!Known, P!TypeOK
  <2>6. P!Seen'
    BY <1>1, <2>1, <2>2, <2>3 DEF P!Seen, P!TypeOK, P!Race, P!Meets
  <2>7. QED  BY <1>4, <2>4, <2>5, <2>6
<1>6. CASE ~P!Free(from, to)
  <2>1. UNCHANGED <<act, raced>>  BY <1>6 DEF P!Submit
  <2>2. P!TypeOK'  BY <1>1, <2>1 DEF P!TypeOK
  <2>3. P!FilmsKept'  BY <1>1, <2>1 DEF P!FilmsKept, P!Known
  <2>4. P!Seen'  BY <1>1, <2>1 DEF P!Seen
  <2>5. QED  BY <1>4, <2>2, <2>3, <2>4
<1>7. QED  BY <1>5, <1>6

\* The file is renamed, over one that has got the name meanwhile, if there is one;
\* then both players had looked.
LEMMA RenameInductive ==
  ASSUME P!MpvFilesAssumption, P!IInv, NEW p \in Players, P!Rename(p)
  PROVE  P!IInv'
<1> USE DEF P!MpvFilesAssumption, P!IInv
<1> DEFINE from == act[p].from
           to == act[p].to
<1>1. /\ UNCHANGED <<keepers, path, film, prompt, keys, raced>>
      /\ act[p].do = "rename" /\ act' = [act EXCEPT ![p] = P!Idle]
  BY DEF P!Rename
<1>2. from \in P!Paths /\ to \in P!Paths
  BY <1>1 DEF P!TypeOK, P!Idle
<1>3. to # from /\ (disk[to] = NoFilm \/ to \in raced)
  BY <1>1 DEF P!Seen
<1>4. CASE disk[from] = NoFilm
  <2>1. UNCHANGED <<disk, given>>  BY <1>4 DEF P!Rename
  <2>2. P!TypeOK'  BY <1>1, <2>1 DEF P!TypeOK
  <2>3. P!FilmsKept'  BY <1>1, <2>1 DEF P!FilmsKept, P!Known, P!TypeOK, P!Idle
  <2>4. P!Remembered'  BY <1>1, <2>1 DEF P!Remembered, P!Known
  <2>5. P!Seen'  BY <1>1, <2>1 DEF P!Seen, P!TypeOK, P!Idle
  <2>6. QED  BY <2>2, <2>3, <2>4, <2>5
<1>5. CASE disk[from] # NoFilm
  <2>1. /\ disk' = [disk EXCEPT ![to] = disk[from], ![from] = NoFilm]
        /\ given' = given \cup {to}
    BY <1>5 DEF P!Rename
  <2> HIDE DEF to, from
  <2>2. \A q \in P!Paths : disk'[q] = IF q = from THEN NoFilm ELSE IF q = to THEN disk[from] ELSE disk[q]
    BY <1>2, <1>3, <2>1 DEF P!TypeOK
  <2>3. P!TypeOK'  BY <1>1, <1>2, <2>1 DEF P!TypeOK
  <2>4. \A q \in P!Paths, f \in Films \cup {Stream} : P!Known(q, f) => P!Known(q, f)'
    BY <2>1, <2>2 DEF P!Known
  <2>5. P!FilmsKept'
    <3>1. \A f \in Films : (\E q \in P!Paths : disk'[q] = f) \/ raced' # {}
      <4> SUFFICES ASSUME NEW f \in Films, raced = {} PROVE \E q \in P!Paths : disk'[q] = f
        BY <1>1
      <4>1. PICK q \in P!Paths : disk[q] = f  BY DEF P!FilmsKept
      <4>2. disk[to] = NoFilm  BY <1>3
      <4>3. f # NoFilm  OBVIOUS
      <4>4. QED  BY <1>2, <1>3, <2>2, <4>1, <4>2, <4>3
    <3>2. \A i, j \in DOMAIN keepers' : i # j /\ keepers'[i] = keepers'[j] => keepers'[i] \in raced'
      BY <1>1 DEF P!FilmsKept
    <3>3. \A o \in Players : act'[o].do = "rename" => P!Known(act[o].from, act[o].film)' /\ act'[o] = act[o]
      BY <1>1, <2>4 DEF P!FilmsKept, P!TypeOK, P!Idle
    <3>4. QED  BY <3>1, <3>2, <3>3 DEF P!FilmsKept, P!Known
  <2>6. P!Remembered'
    BY <1>1, <2>4 DEF P!Remembered, P!TypeOK, P!Known
  <2>7. P!Seen'
    <3>1. act'[p] = [do |-> "nothing"] /\ \A o \in Players \ {p} : act'[o] = act[o]
      BY <1>1 DEF P!TypeOK, P!Idle
    <3>2. \A o \in Players \ {p} : act[o].do = "rename" /\ act[o].to = to => act[o].to \in raced
      BY <1>1 DEF P!Seen, to
    <3>3. \A o \in Players \ {p} : act[o].do = "rename" => act[o].to \in P!Paths
      BY DEF P!TypeOK, P!Idle
    <3>4. QED  BY <1>1, <1>3, <2>2, <3>1, <3>2, <3>3 DEF P!Seen
  <2>8. QED  BY <2>3, <2>5, <2>6, <2>7
<1>6. QED  BY <1>4, <1>5

\* A film is lost and a path bookmarked twice only where two players looked before
\* either acted, and another film is renamed only at a path that a rename gave
\* away, whatever the files, the players and the order of what their scripts do.
THEOREM FilmsNeverLost == P!Spec => []FilmsKept
<1> SUFFICES ASSUME P!MpvFilesAssumption PROVE P!Spec => []FilmsKept
  BY ProgramsAssumption
<1>1. P!Init => P!IInv  BY FilesInit
<1>2. P!IInv /\ [P!Next]_(P!vars) => P!IInv'
  <2> SUFFICES ASSUME P!IInv, [P!Next]_(P!vars) PROVE P!IInv'  OBVIOUS
  <2>1. CASE P!Next
    BY <2>1, PlayInductive, BookmarkInductive, AppendLineInductive, RenameCurrentInductive,
       SubmitInductive, RenameInductive DEF P!Next
  <2>2. CASE UNCHANGED P!vars
    BY <2>2 DEF P!vars, P!IInv, P!TypeOK, P!FilmsKept, P!Known, P!Remembered, P!Seen
  <2>3. QED  BY <2>1, <2>2
<1>3. P!IInv => FilmsKept  BY DEF P!IInv, FilmsKept
<1>4. QED  BY <1>1, <1>2, <1>3, PTL DEF P!Spec

-----------------------------------------------------------------------------
(* The id map: SfMap                                                       *)

\* A remainder is the only number below the divisor that fits.
LEMMA RemainderUnique ==
  ASSUME NEW c \in Nat \ {0}, NEW q \in Int, NEW r \in 0 .. c - 1, NEW a \in Int, a = (c * q) + r
  PROVE  a % c = r
BY SMTT(20)

\* The distance is counted round the end of the table.
LEMMA Around ==
  ASSUME NEW n \in Nat \ {0}, NEW i \in 0 .. n - 1, NEW h \in 0 .. n - 1
  PROVE  (i - h) % n = IF i >= h THEN i - h ELSE (i - h) + n
<1>1. CASE i >= h
  <2>1. (i - h) \in 0 .. n - 1 /\ i - h = (n * 0) + (i - h)  BY <1>1
  <2>2. (i - h) % n = i - h  BY <2>1, RemainderUnique
  <2>3. QED  BY <1>1, <2>2
<1>2. CASE i < h
  <2>1. (i - h) + n \in 0 .. n - 1 /\ i - h = (n * (-1)) + ((i - h) + n)  BY <1>2, SMTT(20)
  <2>2. (i - h) % n = (i - h) + n  BY <2>1, RemainderUnique
  <2>3. QED  BY <1>2, <2>2
<1>3. QED  BY <1>1, <1>2

\* The probes of a key visit every slot at a distance of its own.
LEMMA Distances ==
  ASSUME M!SfMapAssumption, NEW key \in Nat
  PROVE  /\ \A i \in M!Index : M!Distance(i, key) \in Nat
         /\ \A i, j \in M!Index : i # j => M!Distance(i, key) # M!Distance(j, key)
<1>1. MCap \in Nat \ {0}  BY DEF M!SfMapAssumption
<1>2. M!Hash(key) \in 0 .. MCap - 1
  <2>1. key % MCap \in Nat /\ Factor \in Nat  BY <1>1 DEF M!SfMapAssumption
  <2>2. (key % MCap) * Factor \in Nat  BY <2>1, SMTT(20)
  <2>3. QED  BY <1>1, <2>2 DEF M!Hash
<1>3. \A i \in M!Index : M!Distance(i, key)
        = IF i >= M!Hash(key) THEN i - M!Hash(key) ELSE (i - M!Hash(key)) + MCap
  BY <1>1, <1>2, Around DEF M!Distance, M!Index
<1>4. QED
  BY <1>1, <1>2, <1>3 DEF M!Index

\* The search stops at some slot, unless every slot is in use.
LEMMA StopsSomewhere ==
  ASSUME M!SfMapAssumption, M!TypeOK, NEW key \in Keys, M!StopsAt(key) = {}
  PROVE  \A i \in M!Index : slot[i].k # 0
<1>1. SUFFICES ASSUME NEW i \in M!Index, slot[i].k = 0 PROVE FALSE  OBVIOUS
<1> DEFINE T == {M!Distance(j, key) : j \in {o \in M!Index : M!Stops(o, key)}}
<1>2. key \in Nat  BY DEF M!SfMapAssumption
<1>3. T \in SUBSET Nat  BY <1>2, Distances
<1>4. T # {}  BY <1>1 DEF M!Stops
<1>5. PICK m \in T : \A n \in T : m <= n  BY <1>3, <1>4, LeastOf
<1>6. PICK j \in M!Index : M!Stops(j, key) /\ m = M!Distance(j, key)  OBVIOUS
<1>7. j \in M!StopsAt(key)  BY <1>5, <1>6 DEF M!StopsAt
<1>8. QED  BY <1>7

\* Where it stops, the key is, or it is nowhere.
LEMMA StopFinds ==
  ASSUME M!SfMapAssumption, M!IInv, NEW key \in Keys, NEW i \in M!StopsAt(key)
  PROVE  /\ i \in M!Index /\ slot[i].k \in {0, key}
         /\ \A j \in M!Index : M!Distance(j, key) < M!Distance(i, key) => slot[j].k \notin {0, key}
         /\ \A j \in M!Index : slot[j].k = key => j = i
<1>1. key \in Nat \ {0}  BY DEF M!SfMapAssumption
<1>2. i \in M!Index /\ slot[i].k \in {0, key}  BY DEF M!StopsAt, M!Stops
<1>3. \A j \in M!Index : slot[j].k \in {0, key} => M!Distance(i, key) <= M!Distance(j, key)
  BY DEF M!StopsAt, M!Stops
<1>4. /\ \A j \in M!Index : M!Distance(j, key) \in Nat
      /\ \A j \in M!Index : j # i => M!Distance(j, key) # M!Distance(i, key)
  BY <1>1, <1>2, Distances
<1>5. \A j \in M!Index : M!Distance(j, key) < M!Distance(i, key) => slot[j].k \notin {0, key}
  BY <1>2, <1>3, <1>4
<1>6. ASSUME NEW j \in M!Index, slot[j].k = key PROVE j = i
  <2>1. SUFFICES ASSUME j # i PROVE FALSE  OBVIOUS
  <2>2. M!Distance(i, key) < M!Distance(j, key)  BY <1>2, <1>3, <1>4, <1>6, <2>1
  <2>3. QED  BY <1>1, <1>2, <1>6, <2>2 DEF M!IInv, M!Chained
<1>7. QED  BY <1>2, <1>5, <1>6

\* No two slots hold the same key.
LEMMA KeysUnique ==
  ASSUME M!SfMapAssumption, M!IInv, NEW i \in M!Index, NEW j \in M!Index,
         slot[i].k # 0, slot[i].k = slot[j].k
  PROVE  i = j
<1>1. slot[i].k \in Nat  BY DEF M!SfMapAssumption, M!IInv, M!TypeOK
<1> DEFINE key == slot[i].k
<1>2. M!Distance(i, key) \in Nat /\ M!Distance(j, key) \in Nat
      /\ (i # j => M!Distance(i, key) # M!Distance(j, key))
  BY <1>1, Distances
<1>3. ~(M!Distance(j, key) < M!Distance(i, key)) /\ ~(M!Distance(i, key) < M!Distance(j, key))
  BY DEF M!IInv, M!Chained
<1> HIDE DEF key
<1>4. QED  BY <1>2, <1>3

-----------------------------------------------------------------------------
\* The invariant holds of the empty table.
LEMMA MapInit == ASSUME M!SfMapAssumption, M!Init PROVE M!IInv
<1>1. M!TypeOK
  <2>1. hung \in BOOLEAN /\ reassigned \in BOOLEAN  BY Zenon DEF M!Init
  <2>2. 0 \in 0 .. IdMod - 1 /\ M!NotFound \in 0 .. IdMod - 1  BY DEF M!SfMapAssumption, M!NotFound
  <2>3. QED  BY <2>1, <2>2 DEF M!Init, M!TypeOK
<1>2. M!HangsOnlyWhenAllUsed  BY DEF M!Init, M!HangsOnlyWhenAllUsed
<1>3. M!Chained /\ M!UsedBehind  BY DEF M!Init, M!Chained, M!UsedBehind
<1>4. QED  BY <1>1, <1>2, <1>3 DEF M!IInv

\* A call that finds nowhere to stop.
LEMMA HangInductive ==
  ASSUME M!SfMapAssumption, M!IInv, NEW key \in Keys, M!Hang(key)
  PROVE  M!IInv'
<1>1. hung' = TRUE /\ UNCHANGED <<slot, next_id, mapRet, reassigned>>
  BY DEF M!Hang
<1>2. \A i \in M!Index : slot[i].k # 0
  BY StopsSomewhere DEF M!Hang, M!IInv
<1>3. M!TypeOK'  BY <1>1 DEF M!IInv, M!TypeOK
<1>4. M!HangsOnlyWhenAllUsed'  BY <1>1, <1>2 DEF M!HangsOnlyWhenAllUsed
<1>5. M!Chained' /\ M!UsedBehind'  BY <1>1 DEF M!IInv, M!Chained, M!UsedBehind, M!Distance, M!Hash
<1>6. QED  BY <1>3, <1>4, <1>5 DEF M!IInv

\* A step that changes only what is returned.
LEMMA LookInductive ==
  ASSUME M!SfMapAssumption, M!IInv, UNCHANGED <<slot, next_id, hung, reassigned>>, mapRet' \in 0 .. IdMod - 1
  PROVE  M!IInv'
BY DEF M!IInv, M!TypeOK, M!HangsOnlyWhenAllUsed, M!Chained, M!UsedBehind, M!Distance, M!Hash

\* What is written where the search stopped leaves every key where it is found.
LEMMA WriteKeepsChains ==
  ASSUME M!SfMapAssumption, M!IInv, NEW key \in Keys, NEW i \in M!StopsAt(key), NEW w,
         slot' = [slot EXCEPT ![i] = [k |-> key, v |-> w]]
  PROVE  M!Chained'
<1>1. /\ i \in M!Index /\ slot[i].k \in {0, key}
      /\ \A j \in M!Index : M!Distance(j, key) < M!Distance(i, key) => slot[j].k \notin {0, key}
      /\ \A j \in M!Index : slot[j].k = key => j = i
  BY StopFinds
<1>2. key # 0  BY DEF M!SfMapAssumption
<1>3. slot'[i].k = key /\ \A j \in M!Index \ {i} : slot'[j] = slot[j]
  BY <1>1 DEF M!IInv, M!TypeOK
<1>4. SUFFICES ASSUME NEW a \in M!Index, NEW b \in M!Index, slot'[a].k # 0,
                      M!Distance(b, slot'[a].k) < M!Distance(a, slot'[a].k)
               PROVE  slot'[b].k \notin {0, slot'[a].k}
  BY DEF M!Chained, M!Distance, M!Hash
<1>5. CASE a = i
  <2>1. b # i
    <3>1. M!Distance(i, key) \in Nat  BY <1>1, Distances DEF M!SfMapAssumption
    <3>2. QED  BY <1>3, <1>4, <1>5, <3>1
  <2>2. QED  BY <1>1, <1>3, <1>4, <1>5, <2>1
<1>6. CASE a # i /\ b # i
  BY <1>3, <1>4, <1>6 DEF M!IInv, M!Chained
<1>7. CASE a # i /\ b = i
  BY <1>1, <1>2, <1>3, <1>4, <1>7
<1>8. QED  BY <1>5, <1>6, <1>7

\* A key that is not there gets the next id in the slot the search stopped at.
LEMMA CreateInductive ==
  ASSUME M!SfMapAssumption, M!IInv, NEW key \in Keys, NEW i \in M!StopsAt(key),
         slot[i].k = 0, M!Create(key, i), UNCHANGED <<hung, reassigned>>, ~hung
  PROVE  M!IInv'
<1>1. i \in M!Index  BY StopFinds
<1>2. CASE M!Full
  BY <1>2, LookInductive DEF M!Create, M!NotFound, M!SfMapAssumption
<1>3. CASE ~M!Full
  <2>1. /\ mapRet' = next_id /\ next_id' = (next_id + 1) % IdMod
        /\ slot' = [slot EXCEPT ![i] = [k |-> key, v |-> next_id]]
    BY <1>3 DEF M!Create
  <2>2. next_id' = next_id + 1 /\ next_id \in 0 .. IdMod - 1 /\ next_id + 1 \in 0 .. IdMod - 1
    BY <1>3, <2>1 DEF M!Full, M!IInv, M!TypeOK, M!SfMapAssumption
  <2>3. M!TypeOK'  BY <1>1, <2>1, <2>2 DEF M!IInv, M!TypeOK
  <2>4. M!HangsOnlyWhenAllUsed'  BY DEF M!HangsOnlyWhenAllUsed
  <2>5. M!Chained'  BY <2>1, WriteKeepsChains
  <2>6. M!UsedBehind'
    BY <1>1, <2>1, <2>2 DEF M!IInv, M!TypeOK, M!UsedBehind
  <2>7. QED  BY <2>3, <2>4, <2>5, <2>6 DEF M!IInv
<1>4. QED  BY <1>2, <1>3

\* A put writes the slot the search stopped at.
LEMMA PutInductive ==
  ASSUME M!SfMapAssumption, M!IInv, NEW key \in Keys, NEW value \in Values, NEW i \in M!StopsAt(key), ~hung,
         slot' = [slot EXCEPT ![i] = [k |-> key, v |-> value]],
         next_id' = M!NextAfterPut(slot[i].k = 0, value), mapRet' = 1,
         reassigned' = (reassigned \/ value >= next_id'), UNCHANGED hung
  PROVE  M!IInv'
<1>1. i \in M!Index  BY StopFinds
<1>2. value \in 0 .. IdMod - 1 /\ next_id \in 0 .. IdMod - 1 /\ IdMod \in Nat /\ IdMod > 1
  BY DEF M!SfMapAssumption, M!IInv, M!TypeOK
<1>3. next_id' = IF slot[i].k = 0 /\ value >= next_id THEN (IF value + 1 = IdMod THEN 0 ELSE value + 1) ELSE next_id
  <2>1. (value + 1) % IdMod = IF value + 1 = IdMod THEN 0 ELSE value + 1
    <3>1. CASE value + 1 = IdMod
      <4>1. value + 1 = (IdMod * 1) + 0  BY <1>2, <3>1
      <4>2. QED  BY <1>2, <3>1, <4>1, RemainderUnique
    <3>2. CASE value + 1 # IdMod  BY <1>2, <3>2
    <3>3. QED  BY <3>1, <3>2
  <2>2. QED  BY <2>1 DEF M!NextAfterPut
<1>4. next_id' \in 0 .. IdMod - 1  BY <1>2, <1>3
<1>5. reassigned' \in BOOLEAN  BY Zenon
<1>6. M!TypeOK'
  BY <1>1, <1>2, <1>4, <1>5 DEF M!IInv, M!TypeOK
<1>7. M!HangsOnlyWhenAllUsed'  BY DEF M!HangsOnlyWhenAllUsed
<1>8. M!Chained'  BY WriteKeepsChains
<1>9. M!UsedBehind'
  <2>1. SUFFICES ASSUME ~reassigned, value < next_id', NEW j \in M!Index, slot'[j].k # 0
                 PROVE  slot'[j].v < next_id'
    <3>1. reassigned \/ value >= next_id' => reassigned'  BY Zenon
    <3>2. QED  BY <1>2, <1>4, <3>1 DEF M!UsedBehind
  <2>2. next_id <= next_id'  BY <1>2, <1>3, <2>1
  <2>3. CASE j = i  BY <1>1, <2>1, <2>3 DEF M!IInv, M!TypeOK
  <2>4. CASE j # i
    <3>1. slot'[j] = slot[j] /\ slot[j].v \in 0 .. IdMod - 1  BY <1>1, <2>4 DEF M!IInv, M!TypeOK
    <3>2. QED  BY <1>2, <1>4, <2>1, <2>2, <3>1 DEF M!IInv, M!UsedBehind
  <2>5. QED  BY <2>3, <2>4
<1>10. QED  BY <1>6, <1>7, <1>8, <1>9 DEF M!IInv

\* Every step keeps the invariant.
LEMMA MapStep == ASSUME M!SfMapAssumption, M!IInv, [M!Next]_(M!vars) PROVE M!IInv'
<1>1. CASE UNCHANGED M!vars
  BY <1>1, LookInductive DEF M!vars, M!IInv, M!TypeOK
<1>2. ASSUME NEW key \in Keys, M!Get(key) PROVE M!IInv'
  <2>1. CASE M!Hang(key)  BY <2>1, HangInductive
  <2>2. ASSUME NEW i \in M!StopsAt(key),
               mapRet' = IF slot[i].k = key THEN slot[i].v ELSE M!NotFound,
               UNCHANGED <<slot, next_id, hung, reassigned>>
        PROVE  M!IInv'
    <3>1. mapRet' \in 0 .. IdMod - 1
      BY <2>2, StopFinds DEF M!IInv, M!TypeOK, M!NotFound, M!SfMapAssumption
    <3>2. QED  BY <2>2, <3>1, LookInductive
  <2>3. QED  BY <1>2, <2>1, <2>2 DEF M!Get
<1>3. ASSUME NEW key \in Keys, M!GetOrCreate(key) PROVE M!IInv'
  <2>1. CASE M!Hang(key)  BY <2>1, HangInductive
  <2>2. ASSUME NEW i \in M!StopsAt(key), ~hung, UNCHANGED <<hung, reassigned>>,
               IF slot[i].k = key THEN mapRet' = slot[i].v /\ UNCHANGED <<slot, next_id>>
               ELSE M!Create(key, i)
        PROVE  M!IInv'
    <3>1. CASE slot[i].k = key
      <4>1. mapRet' \in 0 .. IdMod - 1  BY <2>2, <3>1, StopFinds DEF M!IInv, M!TypeOK
      <4>2. QED  BY <2>2, <3>1, <4>1, LookInductive
    <3>2. CASE slot[i].k # key
      <4>1. slot[i].k = 0  BY <3>2, StopFinds
      <4>2. QED  BY <2>2, <3>2, <4>1, CreateInductive
    <3>3. QED  BY <3>1, <3>2
  <2>3. QED  BY <1>3, <2>1, <2>2 DEF M!GetOrCreate
<1>4. ASSUME NEW key \in Keys, NEW value \in Values, M!Put(key, value) PROVE M!IInv'
  <2>1. CASE M!Hang(key)  BY <2>1, HangInductive
  <2>2. CASE ~M!Hang(key)
    <3>1. PICK i \in M!StopsAt(key) :
            /\ slot' = [slot EXCEPT ![i] = [k |-> key, v |-> value]]
            /\ next_id' = M!NextAfterPut(slot[i].k = 0, value) /\ mapRet' = 1
            /\ reassigned' = (reassigned \/ value >= next_id') /\ UNCHANGED hung
      BY <1>4, <2>2, Zenon DEF M!Put
    <3>2. ~hung  BY <1>4, Zenon DEF M!Put
    <3>3. QED  BY <3>1, <3>2, PutInductive
  <2>3. QED  BY <2>1, <2>2
<1>5. QED  BY <1>1, <1>2, <1>3, <1>4 DEF M!Next

\* sf_map_get_or_create takes an id that is not in use.
LEMMA CreateFresh ==
  ASSUME M!SfMapAssumption, M!IInv, NEW key \in Keys, M!GetOrCreate(key), slot' # slot
  PROVE  mapRet' \notin M!Used \/ reassigned
<1>1. PICK i \in M!StopsAt(key) : M!Create(key, i)
  BY DEF M!GetOrCreate, M!Hang
<1>2. mapRet' = next_id  BY <1>1 DEF M!Create
<1>3. QED  BY <1>2 DEF M!IInv, M!UsedBehind, M!Used, M!TypeOK

-----------------------------------------------------------------------------
\* Where a key is, what it is mapped to is.
Mapped == \A i \in M!Index : slot[i].k # 0 => slot[i].k \in M!Stored /\ M!Contents[slot[i].k] = slot[i].v

\* The map that the table stands for has what its slots have.
LEMMA ContentsAt == M!SfMapAssumption => (M!IInv => Mapped)
<1> SUFFICES ASSUME M!SfMapAssumption, M!IInv, NEW i \in M!Index, slot[i].k # 0
             PROVE  slot[i].k \in M!Stored /\ M!Contents[slot[i].k] = slot[i].v
  BY DEF Mapped
<1> DEFINE key == slot[i].k
           c == CHOOSE j \in M!Index : slot[j].k = key
<1>1. c \in M!Index /\ slot[c].k = key  BY Zenon
<1>2. c = i  BY <1>1, KeysUnique
<1>3. key \in M!Stored  BY DEF M!Stored
<1>4. M!Contents[key] = slot[c].v  BY <1>3 DEF M!Contents
<1>5. QED  BY <1>2, <1>3, <1>4

\* The same after a step.
LEMMA ContentsNext == M!SfMapAssumption => (M!IInv => Mapped)'
<1> SUFFICES ASSUME M!SfMapAssumption PROVE (M!IInv => Mapped)'  OBVIOUS
<1>1. M!IInv => Mapped  BY ContentsAt
<1>2. QED  BY <1>1, PTL

\* Where the search for a key stops, its value is, or it has none.
LEMMA FoundAt ==
  ASSUME M!SfMapAssumption, M!IInv, NEW key \in Keys, NEW i \in M!StopsAt(key)
  PROVE  /\ DOMAIN M!Contents = M!Stored
         /\ slot[i].k = key => key \in M!Stored /\ M!Contents[key] = slot[i].v
         /\ slot[i].k # key => key \notin M!Stored
<1>1. i \in M!Index /\ key # 0  BY StopFinds DEF M!SfMapAssumption
<1>2. slot[i].k = key => key \in M!Stored /\ M!Contents[key] = slot[i].v
  BY <1>1, ContentsAt DEF Mapped
<1>3. slot[i].k # key => key \notin M!Stored
  BY StopFinds DEF M!Stored
<1>4. QED  BY <1>2, <1>3 DEF M!Contents

\* What is written there is what the key is mapped to, and nothing else changes.
LEMMA WriteMaps ==
  ASSUME M!SfMapAssumption, M!IInv, M!IInv', NEW key \in Keys, NEW i \in M!StopsAt(key), NEW w,
         slot' = [slot EXCEPT ![i] = [k |-> key, v |-> w]]
  PROVE  M!Contents' = M!Map!With(key, w)
<1>1. i \in M!Index /\ slot[i].k \in {0, key} /\ key # 0
  BY StopFinds DEF M!SfMapAssumption
<1>2. slot'[i] = [k |-> key, v |-> w] /\ \A j \in M!Index \ {i} : slot'[j] = slot[j]
  BY <1>1 DEF M!IInv, M!TypeOK
<1>3. M!Stored' = M!Stored \cup {key}
  BY <1>1, <1>2 DEF M!Stored
<1>4. \A j \in M!Index : slot'[j].k # 0 => M!Contents'[slot'[j].k] = slot'[j].v
  BY ContentsNext DEF Mapped
<1>5. \A x \in M!Stored \cup {key} : M!Contents'[x] = IF x = key THEN w ELSE M!Contents[x]
  <2> SUFFICES ASSUME NEW x \in M!Stored \cup {key}
               PROVE  M!Contents'[x] = IF x = key THEN w ELSE M!Contents[x]
    OBVIOUS
  <2>1. CASE x = key  BY <1>1, <1>2, <1>4, <2>1
  <2>2. CASE x # key
    <3>1. PICK j \in M!Index : slot[j].k = x /\ x # 0  BY <2>2 DEF M!Stored
    <3>2. j # i /\ slot'[j] = slot[j]  BY <1>1, <1>2, <2>2, <3>1
    <3>3. M!Contents[x] = slot[j].v  BY <3>1, ContentsAt DEF Mapped
    <3>4. M!Contents'[x] = slot[j].v  BY <1>4, <3>1, <3>2
    <3>5. QED  BY <2>2, <3>3, <3>4
  <2>3. QED  BY <2>1, <2>2
<1>6. M!Contents' = [x \in M!Stored' |-> M!Contents'[x]]  BY DEF M!Contents
<1>7. DOMAIN M!Contents = M!Stored  BY DEF M!Contents
<1>8. QED  BY <1>3, <1>5, <1>6, <1>7 DEF M!Map!With

\* Every call is one of the map's, or never returns and changes nothing.
LEMMA MapSteps ==
  ASSUME M!SfMapAssumption, M!IInv, M!IInv', [M!Next]_(M!vars)
  PROVE  [M!Map!Next]_<<M!Contents, mapRet>>
<1>1. ASSUME UNCHANGED <<slot, mapRet>> PROVE UNCHANGED <<M!Contents, mapRet>>
  BY <1>1 DEF M!Contents, M!Stored
<1>2. CASE UNCHANGED M!vars  BY <1>1, <1>2 DEF M!vars
<1>3. ASSUME NEW key \in Keys, M!Hang(key) PROVE UNCHANGED <<M!Contents, mapRet>>
  BY <1>1, <1>3 DEF M!Hang
<1>4. ASSUME NEW key \in Keys, M!Get(key), ~M!Hang(key) PROVE M!Map!Next
  <2>1. PICK i \in M!StopsAt(key) :
          /\ mapRet' = IF slot[i].k = key THEN slot[i].v ELSE M!NotFound
          /\ UNCHANGED slot
    BY <1>4 DEF M!Get
  <2>2. M!Contents' = M!Contents  BY <2>1 DEF M!Contents, M!Stored
  <2>3. mapRet' = M!Map!Found(key)  BY <2>1, FoundAt DEF M!Map!Found
  <2>4. QED  BY <2>2, <2>3 DEF M!Map!Get, M!Map!Next
<1>5. ASSUME NEW key \in Keys, M!GetOrCreate(key), ~M!Hang(key) PROVE M!Map!Next
  <2>1. PICK i \in M!StopsAt(key) :
          IF slot[i].k = key THEN mapRet' = slot[i].v /\ UNCHANGED <<slot, next_id>>
          ELSE M!Create(key, i)
    BY <1>5 DEF M!GetOrCreate
  <2>2. CASE slot[i].k = key
    <3>1. mapRet' = M!Contents[key] /\ key \in DOMAIN M!Contents  BY <2>1, <2>2, FoundAt
    <3>2. M!Contents' = M!Contents  BY <2>1, <2>2 DEF M!Contents, M!Stored
    <3>3. QED  BY <3>1, <3>2 DEF M!Map!GetOrCreate, M!Map!Next
  <2>3. CASE slot[i].k # key /\ M!Full
    <3>1. key \notin DOMAIN M!Contents  BY <2>3, FoundAt
    <3>2. mapRet' = M!NotFound /\ M!Contents' = M!Contents
      BY <2>1, <2>3 DEF M!Create, M!Contents, M!Stored
    <3>3. QED  BY <3>1, <3>2 DEF M!Map!GetOrCreate, M!Map!Next
  <2>4. CASE slot[i].k # key /\ ~M!Full
    <3>1. key \notin DOMAIN M!Contents  BY <2>4, FoundAt
    <3>2. mapRet' = next_id /\ slot' = [slot EXCEPT ![i] = [k |-> key, v |-> next_id]]
      BY <2>1, <2>4 DEF M!Create
    <3>3. mapRet' \in 0 .. IdMod - 1  BY <3>2 DEF M!IInv, M!TypeOK
    <3>4. M!Contents' = M!Map!With(key, next_id)  BY <3>2, WriteMaps
    <3>5. M!Contents' = M!Map!With(key, mapRet')
      BY <3>2, <3>4 DEF M!Map!With
    <3>6. QED  BY <3>1, <3>3, <3>5 DEF M!Map!GetOrCreate, M!Map!Next
  <2>5. QED  BY <2>2, <2>3, <2>4
<1>6. ASSUME NEW key \in Keys, NEW value \in Values, M!Put(key, value), ~M!Hang(key) PROVE M!Map!Next
  <2>1. PICK i \in M!StopsAt(key) : slot' = [slot EXCEPT ![i] = [k |-> key, v |-> value]] /\ mapRet' = 1
    BY <1>6, Zenon DEF M!Put
  <2>2. M!Contents' = M!Map!With(key, value)  BY <2>1, WriteMaps
  <2>3. value \in 0 .. IdMod - 1  BY DEF M!SfMapAssumption
  <2>4. QED  BY <2>1, <2>2, <2>3 DEF M!Map!Put, M!Map!Next
<1>7. QED
  <2>1. ASSUME M!Next PROVE M!Map!Next \/ UNCHANGED <<M!Contents, mapRet>>
    BY <1>3, <1>4, <1>5, <1>6, <2>1 DEF M!Next
  <2>2. QED  BY <1>2, <2>1

\* A call fails to return only when every slot is in use: the slots behind a key's
\* hash are in use up to its own, whichever keys collide.
THEOREM MapInvariant == M!Spec => []HangsOnlyWhenAllUsed
<1> SUFFICES ASSUME M!SfMapAssumption PROVE M!Spec => []HangsOnlyWhenAllUsed
  BY ProgramsAssumption
<1>1. M!Init => M!IInv  BY MapInit
<1>2. M!IInv /\ [M!Next]_(M!vars) => M!IInv'  BY MapStep
<1>3. M!IInv => HangsOnlyWhenAllUsed  BY DEF M!IInv, HangsOnlyWhenAllUsed
<1>4. QED  BY <1>1, <1>2, <1>3, PTL DEF M!Spec

\* The table implements the map: a lookup finds what was stored last, a put changes
\* one key, and an id that is created is not yet there, for every size of the
\* table, every hash and all keys.
THEOREM MapKept == M!Spec => IdMapKept
<1> SUFFICES ASSUME M!SfMapAssumption PROVE M!Spec => IdMapKept  BY ProgramsAssumption
<1>1. M!Init => M!IInv  BY MapInit
<1>2. M!IInv /\ [M!Next]_(M!vars) => M!IInv'  BY MapStep
<1>3. M!Init => M!Map!Init
  <2> SUFFICES ASSUME M!Init PROVE M!Map!Init  OBVIOUS
  <2>1. M!Stored = {}  BY DEF M!Init, M!Stored
  <2>2. M!Contents = [k \in {} |-> M!NotFound]  BY <2>1 DEF M!Contents
  <2>3. QED  BY <2>2 DEF M!Init, M!Map!Init
<1>4. M!IInv /\ M!IInv' /\ [M!Next]_(M!vars) => [M!Map!Next]_<<M!Contents, mapRet>>
  BY MapSteps
<1>5. M!IInv /\ [M!Next]_(M!vars) =>
        [slot' # slot /\ (\E key \in Keys : M!GetOrCreate(key)) => mapRet' \notin M!Used \/ reassigned]_(M!vars)
  BY CreateFresh
<1>6. QED
  BY <1>1, <1>2, <1>3, <1>4, <1>5, PTL
  DEF M!Spec, IdMapKept, M!IdMapKept, M!ImplementsMap, M!CreatesFreshIds, M!Map!Spec

-----------------------------------------------------------------------------
(* cexec: Cexec                                                            *)

\* The same of the greatest that find_project_root takes.
LEMMA MaxOf ==
  ASSUME NEW n \in Nat, NEW T \in SUBSET (0 .. n), T # {}
  PROVE  C!Max(T) \in T
BY GreatestOf, Zenon DEF C!Max

\* The root that find_project_root finds is the directory or above it.
LEMMA RootAbove ==
  ASSUME C!CexecAssumption, NEW dir \in Dirs
  PROVE  C!FindProjectRoot(dir) \in Dirs /\ C!Inside(dir, C!FindProjectRoot(dir))
<1> DEFINE marked == {i \in 0 .. Len(dir) : C!Has(C!Upto(dir, i), C!Markers)}
<1>1. dir \in Seq(STRING) /\ Len(dir) \in Nat  BY DEF C!CexecAssumption
<1>2. CASE marked = {}
  <2>1. C!FindProjectRoot(dir) = dir  BY <1>2 DEF C!FindProjectRoot
  <2>2. C!Upto(dir, Len(dir)) = dir  BY <1>1 DEF C!Upto
  <2>3. QED  BY <1>1, <2>1, <2>2 DEF C!Inside
<1>3. CASE marked # {}
  <2>1. marked \in SUBSET (0 .. Len(dir))  OBVIOUS
  <2>2. PICK m : m = C!Max(marked)  OBVIOUS
  <2>3. m \in marked  BY <1>1, <1>3, <2>1, <2>2, MaxOf
  <2>4. C!FindProjectRoot(dir) = C!Upto(dir, m)  BY <1>3, <2>2 DEF C!FindProjectRoot
  <2>5. C!Upto(dir, m) \in Dirs  BY <2>3 DEF C!Has
  <2>6. m \in 0 .. Len(dir)  BY <2>3
  <2>7. Len(C!Upto(dir, m)) = m  BY <1>1, <2>6 DEF C!Upto
  <2>8. QED  BY <2>4, <2>5, <2>6, <2>7 DEF C!Inside
<1>4. QED  BY <1>2, <1>3

\* What a call of cexec mounts is a root above its directory.
LEMMA WithType ==
  ASSUME C!CexecAssumption, C!TypeOK, NEW c \in Calls, pc[c] # "idle"
  PROVE  /\ C!With(c) \in C!Mounted
         /\ C!Inside(config[c].cwd, C!With(c).root)
<1>1. config[c].cwd \in Dirs /\ config[c].image \in Images \cup {NoImage}
  BY DEF C!TypeOK
<1>2. PICK root : root = C!FindProjectRoot(config[c].cwd)  OBVIOUS
<1>3. root \in Dirs /\ C!Inside(config[c].cwd, root)  BY <1>1, <1>2, RootAbove
<1>4. C!ProjectImage(config[c].cwd) \in {"cmake", "autotools", "cpp", "c", "unknown"}
  <2>1. C!ProjectImage(config[c].cwd) = C!DetectProjectType(root)  BY <1>2 DEF C!ProjectImage
  <2>2. C!DetectProjectType(root) \in {"cmake", "autotools", "cpp", "c", "unknown"}
    BY Zenon DEF C!DetectProjectType
  <2>3. QED  BY <2>1, <2>2
<1>5. QED  BY <1>1, <1>2, <1>3, <1>4 DEF C!With, C!Mounted

-----------------------------------------------------------------------------
\* The invariant holds while no call has begun.
LEMMA CexecInit == ASSUME C!CexecAssumption, C!Init PROVE C!IInv
<1>1. C!TypeOK
  <2>1. seenUp \in [Calls -> BOOLEAN] /\ touched \in [Calls -> BOOLEAN] /\ faulted \in [Calls -> BOOLEAN]
    BY Zenon DEF C!Init
  <2>2. QED  BY <2>1 DEF C!Init, C!TypeOK, C!CexecAssumption
<1>2. C!Undisturbed  BY DEF C!Init, C!Undisturbed
<1>3. QED  BY <1>1, <1>2 DEF C!IInv

\* What touched says after a container has changed.
LEMMA TouchType ==
  ASSUME C!TypeOK, NEW name, NEW by, C!Touch(name, by)
  PROVE  /\ touched' \in [Calls -> BOOLEAN]
         /\ \A c \in Calls : touched[c] => touched'[c]
         /\ \A c \in Calls : c # by /\ C!Running(c) /\ config[c].name = name => touched'[c]
<1>1. touched' = [c \in Calls |-> touched[c] \/ (c # by /\ C!Running(c) /\ config[c].name = name)]
  BY DEF C!Touch
<1>2. touched' \in [Calls -> BOOLEAN]  BY <1>1, Zenon DEF C!TypeOK
<1>3. \A c \in Calls : touched'[c] <=> touched[c] \/ (c # by /\ C!Running(c) /\ config[c].name = name)
  BY <1>1, Zenon
<1>4. QED  BY <1>2, <1>3, Zenon

\* A call begins: it has its own options, and nothing has changed for it yet.
LEMMA InvokeInductive ==
  ASSUME C!CexecAssumption, C!IInv, NEW c \in Calls, C!Invoke(c) PROVE C!IInv'
<1>1. PICK r \in [cwd : Dirs, name : BoxNames, image : Images \cup {NoImage}, keep : BOOLEAN] :
        /\ config' = [config EXCEPT ![c] = r]
        /\ pc' = [pc EXCEPT ![c] = IF r.keep THEN "check" ELSE "ephemeral"]
  <2>1. PICK cwd \in Dirs, name \in BoxNames, image \in Images \cup {NoImage}, keep \in BOOLEAN :
          /\ config' = [config EXCEPT ![c] = [cwd |-> cwd, name |-> name, image |-> image, keep |-> keep]]
          /\ pc' = [pc EXCEPT ![c] = IF keep THEN "check" ELSE "ephemeral"]
    BY DEF C!Invoke, C!Goto
  <2> DEFINE r == [cwd |-> cwd, name |-> name, image |-> image, keep |-> keep]
  <2>2. r \in [cwd : Dirs, name : BoxNames, image : Images \cup {NoImage}, keep : BOOLEAN]  OBVIOUS
  <2>3. r.keep = keep  OBVIOUS
  <2>4. QED  BY <2>1, <2>2, <2>3, Zenon
<1>2. UNCHANGED <<boxes, ret, ranIn, seenUp, touched, faulted, stops>>  BY DEF C!Invoke
<1>3. C!TypeOK'  BY <1>1, <1>2 DEF C!IInv, C!TypeOK
<1>4. C!Undisturbed'
  <2> SUFFICES ASSUME NEW d \in Calls, ~touched'[d], pc'[d] \in {"start", "exec"}
               PROVE  d # c
    BY <1>1, <1>2 DEF C!IInv, C!TypeOK, C!Undisturbed, C!Up, C!Exists, C!With
  <2>1. QED  BY <1>1 DEF C!IInv, C!TypeOK
<1>5. QED  BY <1>3, <1>4 DEF C!IInv

\* A container that is not kept is of its own call.
LEMMA EphemeralInductive ==
  ASSUME C!CexecAssumption, C!IInv, NEW c \in Calls, C!RunEphemeral(c) PROVE C!IInv'
<1>1. /\ pc[c] = "ephemeral" /\ pc' = [pc EXCEPT ![c] = "done"]
      /\ ranIn' = [ranIn EXCEPT ![c] = C!With(c)] /\ ret' = [ret EXCEPT ![c] = "ran"]
      /\ UNCHANGED <<boxes, config, seenUp, touched, faulted, stops>>
  BY DEF C!RunEphemeral, C!End, C!Goto
<1>2. PICK w : w = C!With(c)  OBVIOUS
<1>3. w \in C!Mounted  BY <1>1, <1>2, WithType DEF C!IInv
<1>4. C!TypeOK'  BY <1>1, <1>2, <1>3 DEF C!IInv, C!TypeOK, C!Mounted
<1>5. C!Undisturbed'
  BY <1>1 DEF C!IInv, C!TypeOK, C!Undisturbed, C!Up, C!Exists, C!With
<1>6. QED  BY <1>4, <1>5 DEF C!IInv

\* The check remembers what it has seen.
LEMMA CheckInductive ==
  ASSUME C!CexecAssumption, C!IInv, NEW c \in Calls, C!IsContainerRunning(c) PROVE C!IInv'
<1> DEFINE name == config[c].name
<1>1. /\ pc[c] = "check" /\ pc' = [pc EXCEPT ![c] = IF C!Up(name) THEN "exec" ELSE "start"]
      /\ seenUp' = [seenUp EXCEPT ![c] = C!Up(name)]
      /\ UNCHANGED <<boxes, config, ret, ranIn, touched, faulted, stops>>
  BY DEF C!IsContainerRunning, C!Goto, C!AfterCheck
<1>2. name \in BoxNames  BY <1>1 DEF C!IInv, C!TypeOK
<1>3. C!Up(name) \in BOOLEAN  BY Zenon DEF C!Up
<1>4. seenUp' \in [Calls -> BOOLEAN]
      /\ seenUp'[c] = C!Up(name) /\ \A d \in Calls \ {c} : seenUp'[d] = seenUp[d]
  BY <1>1, <1>3 DEF C!IInv, C!TypeOK
<1>5. C!TypeOK'  BY <1>1, <1>4 DEF C!IInv, C!TypeOK
<1>6. C!Undisturbed'
  <2> SUFFICES ASSUME NEW d \in Calls, ~touched[d]
               PROVE  /\ pc'[d] = "start" => ~seenUp'[d] /\ (C!Up(config[d].name) => faulted[d])
                      /\ pc'[d] = "exec" =>
                           C!Up(config[d].name) /\ (~seenUp'[d] => boxes[config[d].name].with = C!With(d))
    BY <1>1 DEF C!Undisturbed, C!Up, C!Exists, C!With
  <2>1. CASE d = c  BY <1>1, <1>4, <2>1 DEF C!IInv, C!TypeOK
  <2>2. CASE d # c  BY <1>1, <1>4, <2>2 DEF C!IInv, C!TypeOK, C!Undisturbed
  <2>3. QED  BY <2>1, <2>2
<1>7. QED  BY <1>5, <1>6 DEF C!IInv

\* A container is started where there is none, or the start fails.
LEMMA StartInductive ==
  ASSUME C!CexecAssumption, C!IInv, NEW c \in Calls, C!StartContainer(c) PROVE C!IInv'
<1> DEFINE name == config[c].name
<1>1. pc[c] = "start" /\ UNCHANGED <<config, ranIn, seenUp, faulted, stops>>  BY DEF C!StartContainer
<1>2. name \in BoxNames  BY <1>1 DEF C!IInv, C!TypeOK
<1>3. CASE C!Exists(name)
  <2>1. /\ pc' = [pc EXCEPT ![c] = "done"] /\ ret' = [ret EXCEPT ![c] = "no start"]
        /\ UNCHANGED <<boxes, touched>>
    BY <1>3 DEF C!StartContainer, C!End, C!Goto
  <2>2. C!TypeOK'  BY <1>1, <2>1 DEF C!IInv, C!TypeOK
  <2>3. C!Undisturbed'
    BY <1>1, <2>1 DEF C!IInv, C!TypeOK, C!Undisturbed, C!Up, C!Exists, C!With
  <2>4. QED  BY <2>2, <2>3 DEF C!IInv
<1>4. CASE ~C!Exists(name)
  <2>1. /\ pc' = [pc EXCEPT ![c] = "exec"] /\ ret' = ret
        /\ boxes' = C!Created(name, C!With(c), TRUE) /\ C!Touch(name, c)
    BY <1>4 DEF C!StartContainer, C!Goto
  <2>2. PICK w : w = C!With(c)  OBVIOUS
  <2>3. w \in C!Mounted  BY <1>1, <2>2, WithType DEF C!IInv
  <2>4. /\ DOMAIN boxes' = DOMAIN boxes \cup {name}
        /\ boxes'[name] = [with |-> w, up |-> TRUE]
        /\ \A n \in DOMAIN boxes : n # name => boxes'[n] = boxes[n]
        /\ boxes' \in [DOMAIN boxes' -> [with : C!Mounted, up : BOOLEAN]]
    BY <2>1, <2>2, <2>3 DEF C!IInv, C!TypeOK, C!Created
  <2>5. /\ touched' \in [Calls -> BOOLEAN]
        /\ \A d \in Calls : touched[d] => touched'[d]
        /\ \A d \in Calls : d # c /\ C!Running(d) /\ config[d].name = name => touched'[d]
    BY <2>1, TouchType DEF C!IInv
  <2>6. C!TypeOK'  BY <1>1, <1>2, <2>1, <2>4, <2>5 DEF C!IInv, C!TypeOK
  <2>7. C!Undisturbed'
    <3> SUFFICES ASSUME NEW d \in Calls, ~touched'[d]
                 PROVE  /\ pc'[d] = "start" => ~seenUp[d] /\ (C!Up(config[d].name)' => faulted[d])
                        /\ pc'[d] = "exec" =>
                             /\ C!Up(config[d].name)'
                             /\ ~seenUp[d] => boxes'[config[d].name].with = C!With(d)
      BY <1>1 DEF C!Undisturbed, C!Up, C!Exists, C!With
    <3>1. CASE d = c
      <4>1. pc'[d] = "exec" /\ boxes'[config[d].name] = [with |-> w, up |-> TRUE]
        BY <2>1, <2>4, <3>1 DEF C!IInv, C!TypeOK
      <4>2. config[d].name \in DOMAIN boxes'  BY <2>4, <3>1
      <4>3. QED  BY <1>1, <2>2, <3>1, <4>1, <4>2 DEF C!Up, C!Exists
    <3>2. CASE d # c /\ pc[d] \in {"start", "exec"}
      <4>1. config[d].name # name /\ ~touched[d]  BY <2>5, <3>2 DEF C!Running
      <4>2. C!Up(config[d].name)' <=> C!Up(config[d].name)
        BY <1>1, <2>4, <4>1 DEF C!Up, C!Exists
      <4>3. C!Up(config[d].name) => boxes'[config[d].name] = boxes[config[d].name]
        BY <2>4, <4>1 DEF C!Up, C!Exists
      <4>4. pc'[d] = pc[d]  BY <2>1, <3>2 DEF C!IInv, C!TypeOK
      <4>5. QED  BY <4>1, <4>2, <4>3, <4>4 DEF C!IInv, C!Undisturbed
    <3>3. CASE d # c /\ pc[d] \notin {"start", "exec"}
      BY <2>1, <3>3 DEF C!IInv, C!TypeOK
    <3>4. QED  BY <3>1, <3>2, <3>3
  <2>8. QED  BY <2>6, <2>7 DEF C!IInv
<1>5. QED  BY <1>3, <1>4

\* A command is run in what is there.
LEMMA ExecInductive ==
  ASSUME C!CexecAssumption, C!IInv, NEW c \in Calls, C!ExecInContainer(c) PROVE C!IInv'
<1> DEFINE name == config[c].name
<1>1. /\ pc[c] = "exec" /\ pc' = [pc EXCEPT ![c] = "done"]
      /\ UNCHANGED <<boxes, config, seenUp, touched, faulted, stops>>
  BY DEF C!ExecInContainer, C!End, C!Goto
<1>2. ret' \in [Calls -> {"none", "ran", "no run", "no start", "no exec"}]
  BY DEF C!ExecInContainer, C!End, C!IInv, C!TypeOK
<1>3. ranIn' \in [Calls -> {C!Nothing} \cup C!Mounted]
  <2>1. CASE C!Executes(c)
    <3>1. boxes[name] \in [with : C!Mounted, up : BOOLEAN]
      BY <2>1 DEF C!Executes, C!Up, C!Exists, C!IInv, C!TypeOK
    <3>2. QED  BY <2>1, <3>1 DEF C!ExecInContainer, C!IInv, C!TypeOK
  <2>2. CASE ~C!Executes(c)  BY <2>2 DEF C!ExecInContainer, C!IInv, C!TypeOK
  <2>3. QED  BY <2>1, <2>2
<1>4. C!TypeOK'  BY <1>1, <1>2, <1>3 DEF C!IInv, C!TypeOK
<1>5. C!Undisturbed'
  BY <1>1 DEF C!IInv, C!TypeOK, C!Undisturbed, C!Up, C!Exists, C!With
<1>6. QED  BY <1>4, <1>5 DEF C!IInv

\* Somebody stops a container, and every call in it is told so by touched.
LEMMA StopInductive ==
  ASSUME C!CexecAssumption, C!IInv, NEW name \in BoxNames, C!Stop(name) PROVE C!IInv'
<1>1. /\ stops < MaxStops /\ stops' = stops + 1 /\ C!Exists(name) /\ C!Touch(name, "nobody")
      /\ boxes' = C!Removed(name) \/ boxes' = C!Stopped(name)
      /\ UNCHANGED <<pc, config, ret, ranIn, seenUp, faulted>>
  BY DEF C!Stop
<1>2. /\ touched' \in [Calls -> BOOLEAN]
      /\ \A d \in Calls : touched[d] => touched'[d]
      /\ \A d \in Calls : C!Running(d) /\ config[d].name = name => touched'[d]
  BY <1>1, TouchType DEF C!IInv, C!CexecAssumption
<1>3. /\ \A n : n # name => (n \in DOMAIN boxes' <=> n \in DOMAIN boxes)
      /\ \A n \in DOMAIN boxes : n # name => boxes'[n] = boxes[n]
      /\ boxes' \in [DOMAIN boxes' -> [with : C!Mounted, up : BOOLEAN]]
      /\ DOMAIN boxes' \subseteq DOMAIN boxes
  <2>1. boxes \in [DOMAIN boxes -> [with : C!Mounted, up : BOOLEAN]] /\ name \in DOMAIN boxes
    BY <1>1 DEF C!Exists, C!IInv, C!TypeOK
  <2>2. CASE boxes' = C!Removed(name)  BY <2>1, <2>2 DEF C!Removed
  <2>3. CASE boxes' = C!Stopped(name)
    <3>1. PICK r : r = boxes[name]  OBVIOUS
    <3>2. r \in [with : C!Mounted, up : BOOLEAN]  BY <2>1, <3>1
    <3>3. \A b \in BOOLEAN : [r EXCEPT !.up = b] = [with |-> r.with, up |-> b]  BY <3>2
    <3>4. boxes' = [n \in DOMAIN boxes |-> IF n = name THEN [r EXCEPT !.up = FALSE] ELSE boxes[n]]
      BY <2>3, <3>1 DEF C!Stopped
    <3>5. boxes' = [n \in DOMAIN boxes |-> IF n = name THEN [with |-> r.with, up |-> FALSE] ELSE boxes[n]]
      BY <3>3, <3>4
    <3>6. [with |-> r.with, up |-> FALSE] \in [with : C!Mounted, up : BOOLEAN]  BY <3>2
    <3>7. QED  BY <2>1, <3>5, <3>6
  <2>4. QED  BY <1>1, <2>2, <2>3
<1>4. stops' \in 0 .. MaxStops
  <2>1. stops \in 0 .. MaxStops /\ MaxStops \in Nat  BY DEF C!IInv, C!TypeOK, C!CexecAssumption
  <2>2. QED  BY <1>1, <2>1
<1>5. C!TypeOK'  BY <1>1, <1>2, <1>3, <1>4 DEF C!IInv, C!TypeOK
<1>6. C!Undisturbed'
  <2> SUFFICES ASSUME NEW d \in Calls, ~touched'[d], pc[d] \in {"start", "exec"}
               PROVE  /\ pc[d] = "start" => ~seenUp[d] /\ (C!Up(config[d].name)' => faulted[d])
                      /\ pc[d] = "exec" =>
                           /\ C!Up(config[d].name)'
                           /\ ~seenUp[d] => boxes'[config[d].name].with = C!With(d)
    BY <1>1 DEF C!Undisturbed, C!Up, C!Exists, C!With
  <2>1. config[d].name # name /\ ~touched[d]  BY <1>2 DEF C!Running
  <2>2. C!Up(config[d].name)' <=> C!Up(config[d].name)
    BY <1>1, <1>3, <2>1 DEF C!Up, C!Exists
  <2>3. C!Up(config[d].name) => boxes'[config[d].name] = boxes[config[d].name]
    BY <1>3, <2>1 DEF C!Up, C!Exists
  <2>4. QED  BY <2>1, <2>2, <2>3 DEF C!IInv, C!Undisturbed
<1>7. QED  BY <1>5, <1>6 DEF C!IInv

\* A command that podman fails ends the call, or, if it was the look, lets it go
\* on as if nothing ran.
LEMMA FaultType ==
  ASSUME C!TypeOK, NEW c \in Calls, C!Fault(c)
  PROVE  faulted' \in [Calls -> BOOLEAN] /\ faulted'[c] /\ \A d \in Calls : faulted[d] => faulted'[d]
<1>1. faulted' = [faulted EXCEPT ![c] = TRUE] /\ faulted \in [Calls -> BOOLEAN]
  BY DEF C!Fault, C!TypeOK
<1>2. QED  BY <1>1, Zenon

LEMMA FailsInductive ==
  ASSUME C!CexecAssumption, C!IInv, NEW c \in Calls,
         C!RunEphemeralFails(c) \/ C!LookFails(c) \/ C!ExecFails(c)
  PROVE  C!IInv'
<1>1. /\ UNCHANGED <<boxes, config, ranIn, touched, stops>> /\ C!Fault(c)
      /\ pc[c] \in {"ephemeral", "check", "exec"}
  BY DEF C!RunEphemeralFails, C!LookFails, C!ExecFails
<1>2. faulted' \in [Calls -> BOOLEAN] /\ faulted'[c] /\ \A d \in Calls : faulted[d] => faulted'[d]
  BY <1>1, FaultType DEF C!IInv
<1>3. PICK to \in {"start", "done"} :
        /\ pc' = [pc EXCEPT ![c] = to]
        /\ seenUp' = seenUp \/ seenUp' = [seenUp EXCEPT ![c] = FALSE]
        /\ to = "start" => seenUp' = [seenUp EXCEPT ![c] = FALSE]
  BY DEF C!RunEphemeralFails, C!LookFails, C!ExecFails, C!End, C!Goto
<1>4. ret' \in [Calls -> {"none", "ran", "no run", "no start", "no exec"}]
  BY DEF C!RunEphemeralFails, C!LookFails, C!ExecFails, C!End, C!IInv, C!TypeOK
<1>5. C!TypeOK'  BY <1>1, <1>2, <1>3, <1>4 DEF C!IInv, C!TypeOK
<1>6. C!Undisturbed'
  <2> SUFFICES ASSUME NEW d \in Calls, ~touched[d]
               PROVE  /\ pc'[d] = "start" => ~seenUp'[d] /\ (C!Up(config[d].name) => faulted'[d])
                      /\ pc'[d] = "exec" =>
                           C!Up(config[d].name) /\ (~seenUp'[d] => boxes[config[d].name].with = C!With(d))
    BY <1>1 DEF C!Undisturbed, C!Up, C!Exists, C!With
  <2>1. CASE d = c  BY <1>2, <1>3, <2>1 DEF C!IInv, C!TypeOK
  <2>2. CASE d # c
    <3>1. pc'[d] = pc[d] /\ seenUp'[d] = seenUp[d]  BY <1>3, <2>2 DEF C!IInv, C!TypeOK
    <3>2. QED  BY <1>2, <3>1 DEF C!IInv, C!Undisturbed
  <2>3. QED  BY <2>1, <2>2
<1>7. QED  BY <1>5, <1>6 DEF C!IInv

\* A start that fails may leave a container that does not run.
LEMMA StartFailsInductive ==
  ASSUME C!CexecAssumption, C!IInv, NEW c \in Calls, C!StartFails(c) PROVE C!IInv'
<1> DEFINE name == config[c].name
<1>1. pc[c] = "start" /\ UNCHANGED <<config, ranIn, seenUp, stops>> /\ C!Fault(c)
  BY DEF C!StartFails
<1>2. name \in BoxNames  BY <1>1 DEF C!IInv, C!TypeOK
<1>3. pc' = [pc EXCEPT ![c] = "done"] /\ ret' = [ret EXCEPT ![c] = "no start"]
  BY DEF C!StartFails, C!End, C!Goto
<1>4. faulted' \in [Calls -> BOOLEAN] /\ \A d \in Calls : faulted[d] => faulted'[d]
  BY <1>1, FaultType DEF C!IInv
<1>5. /\ touched' \in [Calls -> BOOLEAN]
      /\ \A d \in Calls : touched[d] => touched'[d]
      /\ boxes' = boxes \/ \A d \in Calls : d # c /\ C!Running(d) /\ config[d].name = name => touched'[d]
  <2>1. CASE touched' = touched /\ boxes' = boxes  BY <2>1 DEF C!IInv, C!TypeOK
  <2>2. CASE C!Touch(name, c)  BY <2>2, TouchType DEF C!IInv
  <2>3. QED  BY <2>1, <2>2 DEF C!StartFails
<1>6. /\ DOMAIN boxes' \subseteq DOMAIN boxes \cup {name}
      /\ \A n : n # name => (n \in DOMAIN boxes' <=> n \in DOMAIN boxes)
      /\ \A n \in DOMAIN boxes : n # name => boxes'[n] = boxes[n]
      /\ boxes' \in [DOMAIN boxes' -> [with : C!Mounted, up : BOOLEAN]]
  <2>1. PICK w : w = C!With(c)  OBVIOUS
  <2>2. w \in C!Mounted  BY <1>1, <2>1, WithType DEF C!IInv
  <2>3. CASE boxes' = boxes  BY <2>3 DEF C!IInv, C!TypeOK
  <2>4. CASE boxes' = C!Created(name, w, FALSE)
    BY <2>2, <2>4 DEF C!IInv, C!TypeOK, C!Created
  <2>5. QED  BY <2>1, <2>3, <2>4 DEF C!StartFails
<1>7. C!TypeOK'  BY <1>1, <1>2, <1>3, <1>4, <1>5, <1>6 DEF C!IInv, C!TypeOK
<1>8. C!Undisturbed'
  <2> SUFFICES ASSUME NEW d \in Calls, ~touched'[d], pc'[d] \in {"start", "exec"}
               PROVE  /\ pc'[d] = "start" => ~seenUp[d] /\ (C!Up(config[d].name)' => faulted'[d])
                      /\ pc'[d] = "exec" =>
                           /\ C!Up(config[d].name)'
                           /\ ~seenUp[d] => boxes'[config[d].name].with = C!With(d)
    BY <1>1 DEF C!Undisturbed, C!Up, C!Exists, C!With
  <2>1. d # c /\ pc'[d] = pc[d] /\ ~touched[d]  BY <1>3, <1>5 DEF C!IInv, C!TypeOK
  <2>2. boxes' = boxes \/ config[d].name # name  BY <1>5, <2>1 DEF C!Running
  <2>3. C!Up(config[d].name)' <=> C!Up(config[d].name)
    BY <1>1, <1>6, <2>2 DEF C!Up, C!Exists
  <2>4. C!Up(config[d].name) => boxes'[config[d].name] = boxes[config[d].name]
    BY <1>6, <2>2 DEF C!Up, C!Exists
  <2>5. QED  BY <1>4, <2>1, <2>3, <2>4 DEF C!IInv, C!Undisturbed
<1>9. QED  BY <1>7, <1>8 DEF C!IInv

\* What a step makes of a call nobody has disturbed.
LEMMA CexecExplains ==
  ASSUME C!CexecAssumption, C!IInv, [C!Next]_(C!vars), NEW c \in Calls
  PROVE  C!OutcomeExplained(c)
<1> SUFFICES ASSUME ret'[c] # ret[c], ~touched[c]
             PROVE  /\ ret'[c] = "ran" /\ ranIn'[c] # C!With(c) => seenUp[c]
                    /\ ret'[c] # "ran" /\ ~faulted'[c] =>
                         \/ /\ ret'[c] = "no exec" /\ seenUp[c] /\ C!Up(config[c].name)
                            /\ ~C!Inside(config[c].cwd, boxes[config[c].name].with.root)
                         \/ ret'[c] = "no start" /\ C!Exists(config[c].name) /\ ~C!Up(config[c].name)
  BY DEF C!OutcomeExplained
<1> DEFINE Fails(d) == C!RunEphemeralFails(d) \/ C!StartFails(d) \/ C!ExecFails(d)
<1>1. C!RunEphemeral(c) \/ C!StartContainer(c) \/ C!ExecInContainer(c) \/ Fails(c)
  <2>1. ~UNCHANGED ret  OBVIOUS
  <2>2. \A d \in Calls : ~C!Invoke(d) /\ ~C!IsContainerRunning(d) /\ ~C!LookFails(d)
    BY <2>1 DEF C!Invoke, C!IsContainerRunning, C!LookFails
  <2>3. \A name \in BoxNames : ~C!Stop(name)  BY <2>1 DEF C!Stop
  <2>4. PICK d \in Calls : C!Step(d)  BY <2>1, <2>2, <2>3 DEF C!Next, C!vars
  <2>5. d = c
    <3>1. \/ ret' = ret \/ \E how : ret' = [ret EXCEPT ![d] = how]
      BY <2>2, <2>4 DEF C!Step, C!RunEphemeral, C!RunEphemeralFails, C!StartContainer, C!StartFails,
                        C!ExecInContainer, C!ExecFails, C!End
    <3>2. QED  BY <3>1 DEF C!IInv, C!TypeOK
  <2>6. QED  BY <2>2, <2>4, <2>5 DEF C!Step
<1>2. CASE C!RunEphemeral(c)
  BY <1>2 DEF C!RunEphemeral, C!End, C!IInv, C!TypeOK
<1>3. CASE C!StartContainer(c)
  <2>1. ret'[c] = "no start" /\ C!Exists(config[c].name)
    BY <1>3 DEF C!StartContainer, C!End, C!IInv, C!TypeOK
  <2>2. pc[c] = "start" /\ faulted' = faulted  BY <1>3 DEF C!StartContainer
  <2>3. QED  BY <2>1, <2>2 DEF C!IInv, C!Undisturbed
<1>4. CASE C!ExecInContainer(c)
  <2>1. /\ C!Up(config[c].name) /\ (~seenUp[c] => boxes[config[c].name].with = C!With(c))
    BY <1>4 DEF C!ExecInContainer, C!IInv, C!Undisturbed
  <2>2. C!Inside(config[c].cwd, C!With(c).root)
    BY <1>4, WithType DEF C!ExecInContainer, C!IInv
  <2>3. CASE C!Executes(c)
    BY <1>4, <2>1, <2>3 DEF C!ExecInContainer, C!End, C!IInv, C!TypeOK
  <2>4. CASE ~C!Executes(c)
    <3>1. ret'[c] = "no exec"  BY <1>4, <2>4 DEF C!ExecInContainer, C!End, C!IInv, C!TypeOK
    <3>2. ~C!Inside(config[c].cwd, boxes[config[c].name].with.root)  BY <2>1, <2>4 DEF C!Executes
    <3>3. seenUp[c]  BY <2>1, <2>2, <3>2
    <3>4. QED  BY <2>1, <3>1, <3>2, <3>3
  <2>5. QED  BY <2>3, <2>4
<1>5. CASE Fails(c)
  <2>1. C!Fault(c)  BY <1>5 DEF C!RunEphemeralFails, C!StartFails, C!ExecFails
  <2>2. faulted'[c]  BY <2>1, FaultType DEF C!IInv
  <2>3. ret'[c] # "ran"
    BY <1>5 DEF C!RunEphemeralFails, C!StartFails, C!ExecFails, C!End, C!IInv, C!TypeOK
  <2>4. QED  BY <2>2, <2>3
<1>6. QED  BY <1>1, <1>2, <1>3, <1>4, <1>5

\* A call of cexec whose container nobody changes meanwhile runs in another image
\* or mount than its own only where it has found one running; and while podman does
\* what it is told, it fails only where it found one running that does not hold its
\* directory, or where a stopped one has its name; for any calls, directories,
\* names and images.
THEOREM CexecExplained == C!Spec => CexecOutcomeExplained
<1> SUFFICES ASSUME C!CexecAssumption PROVE C!Spec => CexecOutcomeExplained  BY ProgramsAssumption
<1>1. C!Init => C!IInv  BY CexecInit
<1>2. C!IInv /\ [C!Next]_(C!vars) => C!IInv'
  <2> SUFFICES ASSUME C!IInv, [C!Next]_(C!vars) PROVE C!IInv'  OBVIOUS
  <2>1. CASE C!Next
    BY <2>1, InvokeInductive, EphemeralInductive, CheckInductive, StartInductive, ExecInductive, StopInductive,
       FailsInductive, StartFailsInductive
    DEF C!Next, C!Step
  <2>2. CASE UNCHANGED C!vars
    BY <2>2 DEF C!vars, C!IInv, C!TypeOK, C!Undisturbed, C!Up, C!Exists, C!With
  <2>3. QED  BY <2>1, <2>2
<1>3. C!IInv /\ [C!Next]_(C!vars) => [\A c \in Calls : C!OutcomeExplained(c)]_(C!vars)
  BY CexecExplains
<1>4. C!IInv => C!TypeOK /\ C!Undisturbed  BY DEF C!IInv
<1>5. QED  BY <1>1, <1>2, <1>3, <1>4, PTL DEF C!Spec, CexecOutcomeExplained, C!CexecOutcomeExplained

-----------------------------------------------------------------------------
(* drun: Drun                                                              *)

\* A container is started or stopped.
LEMMA SwitchType ==
  ASSUME D!TypeOK, NEW n \in DOMAIN drunBoxes, drunBoxes' = D!Started(n) \/ drunBoxes' = D!Stopped(n)
  PROVE  /\ DOMAIN drunBoxes' = DOMAIN drunBoxes /\ drunBoxes' \in [DOMAIN drunBoxes -> [with : D!Mounted, up : BOOLEAN]]
         /\ drunBoxes' = D!Started(n) => drunBoxes'[n].up
         /\ \A m \in DOMAIN drunBoxes : m # n => drunBoxes'[m] = drunBoxes[m]
<1>1. PICK r : r = drunBoxes[n]  OBVIOUS
<1>2. r \in [with : D!Mounted, up : BOOLEAN]  BY <1>1 DEF D!TypeOK
<1>3. ASSUME NEW b \in BOOLEAN PROVE [r EXCEPT !.up = b] = [with |-> r.with, up |-> b]  BY <1>2
<1>4. ASSUME NEW b \in BOOLEAN, drunBoxes' = [drunBoxes EXCEPT ![n].up = b]
      PROVE  /\ DOMAIN drunBoxes' = DOMAIN drunBoxes /\ drunBoxes' \in [DOMAIN drunBoxes -> [with : D!Mounted, up : BOOLEAN]]
             /\ drunBoxes'[n].up = b /\ \A m \in DOMAIN drunBoxes : m # n => drunBoxes'[m] = drunBoxes[m]
  <2>1. drunBoxes' = [m \in DOMAIN drunBoxes |-> IF m = n THEN [r EXCEPT !.up = b] ELSE drunBoxes[m]]
    BY <1>1, <1>4
  <2>2. drunBoxes' = [m \in DOMAIN drunBoxes |-> IF m = n THEN [with |-> r.with, up |-> b] ELSE drunBoxes[m]]
    BY <1>3, <2>1
  <2>3. [with |-> r.with, up |-> b] \in [with : D!Mounted, up : BOOLEAN]  BY <1>2
  <2>4. drunBoxes \in [DOMAIN drunBoxes -> [with : D!Mounted, up : BOOLEAN]]  BY DEF D!TypeOK
  <2>5. QED  BY <2>2, <2>3, <2>4
<1>5. CASE drunBoxes' = D!Started(n)
  <2>1. drunBoxes' = [drunBoxes EXCEPT ![n].up = TRUE]  BY <1>5 DEF D!Started
  <2>2. QED  BY <2>1, <1>4
<1>6. CASE drunBoxes' = D!Stopped(n)
  <2>1. drunBoxes' = [drunBoxes EXCEPT ![n].up = FALSE]  BY <1>6 DEF D!Stopped
  <2>2. drunBoxes'[n].up = FALSE /\ DOMAIN drunBoxes' = DOMAIN drunBoxes  BY <2>1, <1>4
  <2>3. drunBoxes' # D!Started(n)
    <3>1. (drunBoxes' = D!Started(n)) => drunBoxes' = [drunBoxes EXCEPT ![n].up = TRUE]  BY DEF D!Started
    <3>2. drunBoxes' = [drunBoxes EXCEPT ![n].up = TRUE] => drunBoxes'[n].up = TRUE  BY <1>4
    <3>3. QED  BY <2>2, <3>1, <3>2
  <2>4. QED  BY <2>1, <2>3, <1>4
<1>7. QED  BY <1>5, <1>6

\* The invariant holds while no call has begun.
LEMMA DrunInit == ASSUME D!DrunAssumption, D!Init PROVE D!IInv
<1>1. D!TypeOK
  <2>1. drunTouched \in [Calls -> BOOLEAN] /\ drunFaulted \in [Calls -> BOOLEAN]  BY Zenon DEF D!Init
  <2>2. QED  BY <2>1 DEF D!Init, D!TypeOK, D!DrunAssumption
<1>2. D!Undisturbed  BY DEF D!Init, D!Undisturbed
<1>3. \A c \in Calls : drunPc[c] # "done" => drunRet[c] = "none"  BY DEF D!Init
<1>4. QED  BY <1>1, <1>2, <1>3 DEF D!IInv, D!Unanswered

\* The name and the mount of a call, from what it was asked for.
LEMMA RequestType ==
  ASSUME D!DrunAssumption, D!TypeOK, NEW c \in Calls, drunPc[c] # "idle"
  PROVE  /\ D!With(c) \in D!Mounted
         /\ D!Name(c) \in Given \cup {BaseName[d] : d \in WorkDirs}
<1>1. asked[c].dir \in WorkDirs /\ asked[c].name \in Given \cup {NoName}
      /\ asked[c].network \in Networks \cup {NoNetwork}
  BY DEF D!TypeOK
<1>2. D!Name(c) \in Given \cup {BaseName[d] : d \in WorkDirs}  BY <1>1 DEF D!Name
<1>3. D!With(c) \in D!Mounted  BY <1>1 DEF D!With, D!Mounted
<1>4. QED  BY <1>2, <1>3

\* What touched says after a container has changed.
LEMMA DrunTouchType ==
  ASSUME D!TypeOK, NEW name, NEW by, D!Touch(name, by)
  PROVE  /\ drunTouched' \in [Calls -> BOOLEAN]
         /\ \A c \in Calls : drunTouched[c] => drunTouched'[c]
         /\ \A c \in Calls : c # by /\ D!Running(c) /\ D!Name(c) = name => drunTouched'[c]
<1>1. drunTouched' = [c \in Calls |-> drunTouched[c] \/ (c # by /\ D!Running(c) /\ D!Name(c) = name)]
  BY DEF D!Touch
<1>2. drunTouched' \in [Calls -> BOOLEAN]  BY <1>1, Zenon DEF D!TypeOK
<1>3. \A c \in Calls : drunTouched'[c] <=> drunTouched[c] \/ (c # by /\ D!Running(c) /\ D!Name(c) = name)
  BY <1>1, Zenon
<1>4. QED  BY <1>2, <1>3, Zenon

\* What faulted says after a step: a call that docker has failed stays one.
FaultsGrow ==
  drunFaulted' \in [Calls -> BOOLEAN] /\ \A c \in Calls : drunFaulted[c] => drunFaulted'[c]

LEMMA DrunFaultType ==
  ASSUME D!TypeOK
  PROVE  /\ UNCHANGED drunFaulted => FaultsGrow
         /\ \A c \in Calls : D!Fault(c) => FaultsGrow /\ drunFaulted'[c]
<1>1. drunFaulted \in [Calls -> BOOLEAN]  BY DEF D!TypeOK
<1>2. ASSUME NEW c \in Calls, D!Fault(c) PROVE FaultsGrow /\ drunFaulted'[c]
  <2>1. drunFaulted' = [drunFaulted EXCEPT ![c] = TRUE]  BY <1>2 DEF D!Fault
  <2>2. QED  BY <1>1, <2>1, Zenon DEF FaultsGrow
<1>3. QED  BY <1>1, <1>2 DEF FaultsGrow

\* A call begins.
LEMMA DrunInvoke ==
  ASSUME D!DrunAssumption, D!IInv, NEW c \in Calls, D!Invoke(c) PROVE D!IInv'
<1>1. PICK r \in [dir : WorkDirs, name : Given \cup {NoName}, network : Networks \cup {NoNetwork}] :
        asked' = [asked EXCEPT ![c] = r]
  BY DEF D!Invoke
<1>2. PICK where \in {"files", "run --rm", "ps", "rm"} : drunPc' = [drunPc EXCEPT ![c] = where]
  BY DEF D!Invoke, D!Goto
<1>3. drunPc[c] = "idle" /\ UNCHANGED <<drunBoxes, drunRet, drunRanIn, tmp, drunTouched, drunFaulted, drunStops>>
  BY DEF D!Invoke
<1>4. D!TypeOK'  BY <1>1, <1>2, <1>3 DEF D!IInv, D!TypeOK
<1>5. D!Undisturbed'
  <2> SUFFICES ASSUME NEW d \in Calls, ~drunTouched[d], ~drunFaulted'[d]
               PROVE  (/\ drunPc[d] = "ps -a" => ~D!Up(D!Name(d))
                       /\ drunPc[d] \in {"start", "rm -f"} => D!Exists(D!Name(d))
                       /\ drunPc[d] = "run" => ~D!Exists(D!Name(d))
                       /\ drunPc[d] = "exec" => D!Up(D!Name(d)))'
    BY <1>3 DEF D!Undisturbed
  <2>1. CASE d = c  BY <1>2, <2>1 DEF D!IInv, D!TypeOK
  <2>2. CASE d # c
    <3>1. drunPc'[d] = drunPc[d] /\ asked'[d] = asked[d]  BY <1>1, <1>2, <2>2 DEF D!IInv, D!TypeOK
    <3>2. QED  BY <1>3, <3>1 DEF D!IInv, D!Undisturbed, D!Up, D!Exists, D!Name
  <2>3. QED  BY <2>1, <2>2
<1>6. (\A d \in Calls : drunPc[d] # "done" => drunRet[d] = "none")'
  BY <1>2, <1>3 DEF D!IInv, D!Unanswered, D!TypeOK
<1>7. QED  BY <1>4, <1>5, <1>6 DEF D!IInv, D!Unanswered

\* Steps that leave the containers and the requests alone.
LEMMA DrunQuiet ==
  ASSUME D!DrunAssumption, D!IInv, UNCHANGED <<drunBoxes, asked, drunTouched, drunStops>>, NEW c \in Calls,
         NEW to \in {"run --rm", "exec", "ps -a", "start", "run", "rm -f", "done"}, drunPc' = [drunPc EXCEPT ![c] = to],
         drunPc[c] # "idle", drunPc[c] # "done",
         to # "done" => drunRet' = drunRet,
         drunRet' \in [Calls -> {"none", "ran", "removed", "none to remove", "failed"}],
         \A d \in Calls : d # c => drunRet'[d] = drunRet[d],
         drunRanIn' \in [Calls -> {D!Nothing} \cup D!Mounted],
         tmp' \in [Calls -> SUBSET {"passwd", "group"}],
         FaultsGrow,
         ~drunFaulted'[c] /\ to = "ps -a" => ~D!Up(D!Name(c)),
         ~drunFaulted'[c] /\ to \in {"start", "rm -f"} => D!Exists(D!Name(c)),
         ~drunFaulted'[c] /\ to = "run" => ~D!Exists(D!Name(c)),
         ~drunFaulted'[c] /\ to = "exec" => D!Up(D!Name(c))
  PROVE  D!IInv'
<1>1. D!TypeOK'  BY DEF D!IInv, D!TypeOK, FaultsGrow
<1>2. \A d \in Calls : drunPc'[d] = IF d = c THEN to ELSE drunPc[d]  BY DEF D!IInv, D!TypeOK
<1>3. D!Undisturbed'
  <2> SUFFICES ASSUME NEW d \in Calls, ~drunTouched[d], ~drunFaulted'[d]
               PROVE  (/\ drunPc[d] = "ps -a" => ~D!Up(D!Name(d))
                       /\ drunPc[d] \in {"start", "rm -f"} => D!Exists(D!Name(d))
                       /\ drunPc[d] = "run" => ~D!Exists(D!Name(d))
                       /\ drunPc[d] = "exec" => D!Up(D!Name(d)))'
    BY DEF D!Undisturbed
  <2>1. D!Name(d)' = D!Name(d)  BY DEF D!Name
  <2>2. PICK n : n = D!Name(d)  OBVIOUS
  <2>3. (D!Up(n)' <=> D!Up(n)) /\ (D!Exists(n)' <=> D!Exists(n))  BY DEF D!Up, D!Exists
  <2>4. /\ drunPc'[d] = "ps -a" => ~D!Up(n)
        /\ drunPc'[d] \in {"start", "rm -f"} => D!Exists(n)
        /\ drunPc'[d] = "run" => ~D!Exists(n)
        /\ drunPc'[d] = "exec" => D!Up(n)
    <3>1. CASE d = c  BY <1>2, <2>2, <3>1
    <3>2. CASE d # c
      <4>1. drunPc'[d] = drunPc[d]  BY <1>2, <3>2
      <4>2. ~drunFaulted[d]  BY DEF FaultsGrow
      <4>3. QED  BY <2>2, <4>1, <4>2 DEF D!IInv, D!Undisturbed
    <3>3. QED  BY <3>1, <3>2
  <2>5. QED  BY <2>1, <2>2, <2>3, <2>4 DEF D!Up, D!Exists
<1>4. (\A d \in Calls : drunPc[d] # "done" => drunRet[d] = "none")'
  BY <1>2 DEF D!IInv, D!Unanswered
<1>5. QED  BY <1>1, <1>3, <1>4 DEF D!IInv, D!Unanswered

\* The user files are written, and a container without a name is run and gone.
LEMMA DrunEphemeral ==
  ASSUME D!DrunAssumption, D!IInv, NEW c \in Calls, D!SetupUserFiles(c) \/ D!RunEphemeral(c)
  PROVE  D!IInv'
<1>1. CASE D!SetupUserFiles(c)
  <2>1. /\ drunPc[c] = "files" /\ drunPc' = [drunPc EXCEPT ![c] = "run --rm"] /\ tmp' = [tmp EXCEPT ![c] = {"passwd", "group"}]
        /\ UNCHANGED <<drunBoxes, asked, drunRet, drunRanIn, drunTouched, drunFaulted, drunStops>>
    BY <1>1 DEF D!SetupUserFiles, D!Goto
  <2>2. tmp' \in [Calls -> SUBSET {"passwd", "group"}]  BY <2>1 DEF D!IInv, D!TypeOK
  <2>3. QED  BY <2>1, <2>2, DrunFaultType, DrunQuiet DEF D!IInv, D!TypeOK
<1>2. CASE D!RunEphemeral(c)
  <2>1. PICK w : w = D!With(c)  OBVIOUS
  <2>2. w \in D!Mounted  BY <1>2, <2>1, RequestType DEF D!RunEphemeral, D!IInv
  <2>3. drunRanIn' \in [Calls -> {D!Nothing} \cup D!Mounted]
    BY <1>2, <2>1, <2>2 DEF D!RunEphemeral, D!IInv, D!TypeOK
  <2>4. tmp' \in [Calls -> SUBSET {"passwd", "group"}]
    <3>1. tmp \in [Calls -> SUBSET {"passwd", "group"}]  BY DEF D!IInv, D!TypeOK
    <3>2. tmp' = tmp \/ tmp' = [tmp EXCEPT ![c] = tmp[c] \ {"passwd group"}]
      BY <1>2 DEF D!RunEphemeral, D!RemoveUserFiles
    <3>3. tmp[c] \ {"passwd group"} \in SUBSET {"passwd", "group"}  BY <3>1
    <3>4. QED  BY <3>1, <3>2, <3>3
  <2>5. PICK how \in {"ran", "failed"} : drunRet' = [drunRet EXCEPT ![c] = how]
    BY <1>2 DEF D!RunEphemeral, D!End
  <2>6. drunPc[c] = "run --rm" /\ drunPc' = [drunPc EXCEPT ![c] = "done"] /\ UNCHANGED <<drunBoxes, asked, drunTouched, drunFaulted, drunStops>>
    BY <1>2 DEF D!RunEphemeral, D!End, D!Goto
  <2>7. QED  BY <2>3, <2>4, <2>5, <2>6, DrunFaultType, DrunQuiet DEF D!IInv, D!TypeOK
<1>3. QED  BY <1>1, <1>2

\* A call looks whether its container is up, and whether there is one.
LEMMA DrunLooks ==
  ASSUME D!DrunAssumption, D!IInv, NEW c \in Calls,
         D!Ps(c) \/ D!PsAll(c) \/ D!LookForRemoval(c) \/ D!PsFails(c) \/ D!RemovalFails(c)
  PROVE  D!IInv'
<1>1. drunRet \in [Calls -> {"none", "ran", "removed", "none to remove", "failed"}]
      /\ drunRanIn \in [Calls -> {D!Nothing} \cup D!Mounted]
      /\ tmp \in [Calls -> SUBSET {"passwd", "group"}]
  BY DEF D!IInv, D!TypeOK
<1>2. CASE D!Ps(c)
  <2>1. drunPc[c] = "ps" /\ UNCHANGED <<drunBoxes, asked, drunRet, drunRanIn, tmp, drunTouched, drunFaulted, drunStops>>
    BY <1>2 DEF D!Ps
  <2>2. PICK to \in {"exec", "ps -a"} :
          drunPc' = [drunPc EXCEPT ![c] = to] /\ (to = "exec" <=> D!Up(D!Name(c)))
    BY <1>2 DEF D!Ps, D!Goto
  <2>3. QED  BY <1>1, <2>1, <2>2, DrunFaultType, DrunQuiet DEF D!IInv
<1>3. CASE D!PsAll(c)
  <2>1. drunPc[c] = "ps -a" /\ UNCHANGED <<drunBoxes, asked, drunRet, drunRanIn, tmp, drunTouched, drunFaulted, drunStops>>
    BY <1>3 DEF D!PsAll
  <2>2. PICK to \in {"start", "run"} :
          drunPc' = [drunPc EXCEPT ![c] = to] /\ (to = "start" <=> D!Exists(D!Name(c)))
    BY <1>3 DEF D!PsAll, D!AfterPsAll, D!Goto
  <2>3. QED  BY <1>1, <2>1, <2>2, DrunFaultType, DrunQuiet DEF D!IInv
<1>4. CASE D!LookForRemoval(c)
  <2>1. drunPc[c] = "rm" /\ UNCHANGED <<drunBoxes, asked, drunRanIn, tmp, drunTouched, drunFaulted, drunStops>>
    BY <1>4 DEF D!LookForRemoval
  <2>2. CASE D!Exists(D!Name(c))
    <3>1. drunPc' = [drunPc EXCEPT ![c] = "rm -f"] /\ drunRet' = drunRet
      BY <1>4, <2>2 DEF D!LookForRemoval, D!ToRemove, D!Goto
    <3>2. QED  BY <1>1, <2>1, <2>2, <3>1, DrunFaultType, DrunQuiet DEF D!IInv
  <2>3. CASE ~D!Exists(D!Name(c))
    <3>1. drunPc' = [drunPc EXCEPT ![c] = "done"] /\ drunRet' = [drunRet EXCEPT ![c] = "none to remove"]
      BY <1>4, <2>3 DEF D!LookForRemoval, D!ToRemove, D!End, D!Goto
    <3>2. QED  BY <1>1, <2>1, <3>1, DrunFaultType, DrunQuiet DEF D!IInv
  <2>4. QED  BY <2>2, <2>3
<1>5. CASE D!PsFails(c) \/ D!RemovalFails(c)
  <2>1. /\ drunPc[c] \in {"ps", "ps -a", "rm", "rm -f"} /\ D!Fault(c)
        /\ UNCHANGED <<drunBoxes, asked, drunRanIn, tmp, drunTouched, drunStops>>
    BY <1>5 DEF D!PsFails, D!RemovalFails
  <2>2. PICK to \in {"ps -a", "run", "done"} :
          /\ drunPc' = [drunPc EXCEPT ![c] = to]
          /\ IF to = "done" THEN \E how \in {"none to remove", "failed"} : drunRet' = [drunRet EXCEPT ![c] = how]
             ELSE drunRet' = drunRet
    BY <1>5 DEF D!PsFails, D!RemovalFails, D!End, D!Goto
  <2>3. FaultsGrow /\ drunFaulted'[c]  BY <2>1, DrunFaultType DEF D!IInv
  <2>4. drunRet' \in [Calls -> {"none", "ran", "removed", "none to remove", "failed"}]
        /\ \A d \in Calls : d # c => drunRet'[d] = drunRet[d]
    BY <1>1, <2>2
  <2>5. QED  BY <1>1, <2>1, <2>2, <2>3, <2>4, DrunQuiet
<1>6. QED  BY <1>2, <1>3, <1>4, <1>5

\* What Undisturbed says of a call.
DrunKnows(d) ==
  /\ drunPc[d] = "ps -a" => ~D!Up(D!Name(d))
  /\ drunPc[d] \in {"start", "rm -f"} => D!Exists(D!Name(d))
  /\ drunPc[d] = "run" => ~D!Exists(D!Name(d))
  /\ drunPc[d] = "exec" => D!Up(D!Name(d))

\* All containers but that one are as they were.
OnlyChanged(name) ==
  /\ \A n : n # name => (n \in DOMAIN drunBoxes' <=> n \in DOMAIN drunBoxes)
  /\ \A n \in DOMAIN drunBoxes : n # name => drunBoxes'[n] = drunBoxes[n]

\* Steps that change the container of one call: the others that use it are touched.
LEMMA DrunChange ==
  ASSUME D!DrunAssumption, D!IInv, NEW name, NEW c, D!Touch(name, c),
         UNCHANGED asked, OnlyChanged(name),
         FaultsGrow, NEW d \in Calls, d # c, ~drunTouched'[d], ~drunFaulted'[d], drunPc'[d] = drunPc[d]
  PROVE  DrunKnows(d)'
<1>1. ~drunTouched[d] /\ ~drunFaulted[d] /\ ~(D!Running(d) /\ D!Name(d) = name)
  BY DrunTouchType DEF D!IInv, FaultsGrow
<1>2. D!Name(d)' = D!Name(d)  BY DEF D!Name
<1>3. PICK n : n = D!Name(d)  OBVIOUS
<1>4. n # name => (D!Exists(n)' <=> D!Exists(n)) /\ (D!Up(n)' <=> D!Up(n))
  BY DEF D!Up, D!Exists, OnlyChanged
<1>5. CASE drunPc[d] \in {"ps -a", "start", "rm -f", "run", "exec"}
  <2>1. n # name  BY <1>1, <1>3, <1>5 DEF D!Running
  <2>2. QED  BY <1>1, <1>2, <1>3, <1>4, <2>1 DEF D!IInv, D!Undisturbed, D!Up, D!Exists, DrunKnows
<1>6. CASE drunPc[d] \notin {"ps -a", "start", "rm -f", "run", "exec"}  BY <1>6 DEF DrunKnows
<1>7. QED  BY <1>5, <1>6

\* A call starts, makes, enters or removes its container.
LEMMA DrunEnds ==
  ASSUME D!DrunAssumption, D!IInv, NEW c \in Calls,
         D!DockerStart(c) \/ D!DockerRun(c) \/ D!DockerExec(c) \/ D!Remove(c) \/ D!PersistentFails(c)
  PROVE  D!IInv'
<1> DEFINE name == D!Name(c)
<1>1. drunRet \in [Calls -> {"none", "ran", "removed", "none to remove", "failed"}]
      /\ drunRanIn \in [Calls -> {D!Nothing} \cup D!Mounted]
      /\ tmp \in [Calls -> SUBSET {"passwd", "group"}]
  BY DEF D!IInv, D!TypeOK
<1>2. drunPc[c] \in {"start", "run", "exec", "rm -f"}
  BY DEF D!DockerStart, D!DockerRun, D!DockerExec, D!Remove, D!PersistentFails
<1>3. name \in Given \cup {BaseName[d] : d \in WorkDirs} /\ D!With(c) \in D!Mounted
  BY <1>2, RequestType DEF D!IInv
<1>4. CASE D!DockerExec(c)
  <2>1. UNCHANGED <<drunBoxes, asked, tmp, drunTouched, drunFaulted, drunStops>> /\ drunPc' = [drunPc EXCEPT ![c] = "done"]
    BY <1>4 DEF D!DockerExec, D!End, D!Goto
  <2>2. PICK how \in {"ran", "failed"} : drunRet' = [drunRet EXCEPT ![c] = how]
    BY <1>4 DEF D!DockerExec, D!End
  <2>3. drunRanIn' \in [Calls -> {D!Nothing} \cup D!Mounted]
    <3>1. CASE D!Up(name)
      <4>1. drunBoxes[name] \in [with : D!Mounted, up : BOOLEAN]
        BY <3>1 DEF D!Up, D!Exists, D!IInv, D!TypeOK
      <4>2. QED  BY <1>1, <1>4, <3>1, <4>1 DEF D!DockerExec
    <3>2. CASE ~D!Up(name)  BY <1>1, <1>4, <3>2 DEF D!DockerExec
    <3>3. QED  BY <3>1, <3>2
  <2>4. QED  BY <1>1, <1>2, <2>1, <2>2, <2>3, DrunFaultType, DrunQuiet DEF D!IInv
<1>5. CASE (D!DockerStart(c) /\ ~D!Exists(name)) \/ (D!DockerRun(c) /\ D!Exists(name))
  <2>1. /\ drunPc' = [drunPc EXCEPT ![c] = "done"] /\ drunRet' = [drunRet EXCEPT ![c] = "failed"]
        /\ UNCHANGED <<drunBoxes, drunTouched, asked, drunRanIn, tmp, drunFaulted, drunStops>>
    BY <1>5 DEF D!DockerStart, D!DockerRun, D!End, D!Goto
  <2>2. QED  BY <1>1, <1>2, <2>1, DrunFaultType, DrunQuiet DEF D!IInv
<1>6. ASSUME D!Touch(name, c), UNCHANGED <<asked, drunRanIn, tmp, drunStops>>,
             drunBoxes' \in [DOMAIN drunBoxes' -> [with : D!Mounted, up : BOOLEAN]],
             \A n : n # name => (n \in DOMAIN drunBoxes' <=> n \in DOMAIN drunBoxes),
             \A n \in DOMAIN drunBoxes : n # name => drunBoxes'[n] = drunBoxes[n],
             NEW to \in {"exec", "done"}, drunPc' = [drunPc EXCEPT ![c] = to],
             to = "exec" => drunRet' = drunRet /\ D!Up(name)',
             to = "done" => \E how \in {"removed", "failed"} : drunRet' = [drunRet EXCEPT ![c] = how],
             FaultsGrow
      PROVE  D!IInv'
  <2>1. drunRet' \in [Calls -> {"none", "ran", "removed", "none to remove", "failed"}]
        /\ \A d \in Calls \ {c} : drunRet'[d] = drunRet[d]
    BY <1>1, <1>6
  <2>2. DOMAIN drunBoxes' \subseteq Given \cup {BaseName[d] : d \in WorkDirs}
    BY <1>3, <1>6 DEF D!IInv, D!TypeOK
  <2>3. drunTouched' \in [Calls -> BOOLEAN] /\ \A d \in Calls : drunTouched[d] => drunTouched'[d]
    BY <1>6, DrunTouchType DEF D!IInv
  <2>4. D!TypeOK'  BY <1>2, <1>6, <2>1, <2>2, <2>3 DEF D!IInv, D!TypeOK, FaultsGrow
  <2>5. \A d \in Calls : drunPc'[d] = IF d = c THEN to ELSE drunPc[d]
    BY <1>6 DEF D!IInv, D!TypeOK
  <2>6. D!Undisturbed'
    <3>0. SUFFICES ASSUME NEW d \in Calls, ~drunTouched'[d], ~drunFaulted'[d]
                   PROVE  DrunKnows(d)'
      BY DEF D!Undisturbed, DrunKnows
    <3>1. CASE d = c
      BY <1>6, <2>5, <3>1 DEF D!Up, D!Exists, D!Name, DrunKnows
    <3>2. CASE d # c
      <4>1. drunPc'[d] = drunPc[d]  BY <2>5, <3>2
      <4>2. OnlyChanged(name)  BY <1>6 DEF OnlyChanged
      <4>3. UNCHANGED asked  BY <1>6
      <4>4. QED  BY <1>6, <3>0, <3>2, <4>1, <4>2, <4>3, DrunChange, Zenon
    <3>3. QED  BY <3>1, <3>2
  <2>7. (\A d \in Calls : drunPc[d] # "done" => drunRet[d] = "none")'
    <3> SUFFICES ASSUME NEW d \in Calls, drunPc'[d] # "done" PROVE drunRet'[d] = "none"  OBVIOUS
    <3>1. CASE d = c  BY <1>2, <1>6, <2>5, <3>1 DEF D!IInv, D!Unanswered
    <3>2. CASE d # c  BY <2>1, <2>5, <3>2 DEF D!IInv, D!Unanswered
    <3>3. QED  BY <3>1, <3>2
  <2>8. QED  BY <2>4, <2>6, <2>7 DEF D!IInv, D!Unanswered
<1>7. CASE D!DockerStart(c) /\ D!Exists(name)
  <2>1. /\ drunBoxes' = D!Started(name) /\ D!Touch(name, c) /\ drunRet' = drunRet
        /\ drunPc' = [drunPc EXCEPT ![c] = "exec"] /\ UNCHANGED <<asked, drunRanIn, tmp, drunFaulted, drunStops>>
    BY <1>7 DEF D!DockerStart, D!Goto
  <2>2. /\ drunBoxes' \in [DOMAIN drunBoxes' -> [with : D!Mounted, up : BOOLEAN]] /\ DOMAIN drunBoxes' = DOMAIN drunBoxes
        /\ drunBoxes'[name].up /\ \A n \in DOMAIN drunBoxes : n # name => drunBoxes'[n] = drunBoxes[n]
    <3>2. PICK n : n = name  OBVIOUS
    <3>3. n \in DOMAIN drunBoxes /\ drunBoxes' = D!Started(n)  BY <1>7, <2>1, <3>2 DEF D!Exists
    <3>4. /\ DOMAIN drunBoxes' = DOMAIN drunBoxes /\ drunBoxes' \in [DOMAIN drunBoxes -> [with : D!Mounted, up : BOOLEAN]]
          /\ drunBoxes'[n].up /\ \A m \in DOMAIN drunBoxes : m # n => drunBoxes'[m] = drunBoxes[m]
      BY <3>3, SwitchType DEF D!IInv
    <3>5. QED  BY <3>2, <3>4
  <2>3. D!Up(name)'  BY <1>7, <2>1, <2>2 DEF D!Up, D!Exists, D!Name
  <2>4. QED  BY <1>6, <2>1, <2>2, <2>3, DrunFaultType DEF D!IInv
<1>8. CASE D!DockerRun(c) /\ ~D!Exists(name)
  <2>1. /\ drunBoxes' = D!Created(name, D!With(c), TRUE) /\ D!Touch(name, c) /\ drunRet' = drunRet
        /\ drunPc' = [drunPc EXCEPT ![c] = "exec"] /\ UNCHANGED <<asked, drunRanIn, tmp, drunFaulted, drunStops>>
    BY <1>8 DEF D!DockerRun, D!Goto
  <2>2. /\ drunBoxes' \in [DOMAIN drunBoxes' -> [with : D!Mounted, up : BOOLEAN]]
        /\ DOMAIN drunBoxes' = DOMAIN drunBoxes \cup {name} /\ drunBoxes'[name].up
        /\ \A n \in DOMAIN drunBoxes : n # name => drunBoxes'[n] = drunBoxes[n]
    BY <1>3, <2>1 DEF D!Created, D!IInv, D!TypeOK
  <2>3. D!Up(name)'  BY <2>1, <2>2 DEF D!Up, D!Exists, D!Name
  <2>4. QED  BY <1>6, <2>1, <2>2, <2>3, DrunFaultType DEF D!IInv
<1>9. CASE D!Remove(c)
  <2>1. /\ drunBoxes' = D!Removed(name) /\ D!Touch(name, c) /\ drunRet' = [drunRet EXCEPT ![c] = "removed"]
        /\ drunPc' = [drunPc EXCEPT ![c] = "done"] /\ UNCHANGED <<asked, drunRanIn, tmp, drunFaulted, drunStops>>
    BY <1>9 DEF D!Remove, D!End, D!Goto
  <2>2. /\ drunBoxes' \in [DOMAIN drunBoxes' -> [with : D!Mounted, up : BOOLEAN]]
        /\ DOMAIN drunBoxes' = DOMAIN drunBoxes \ {name}
        /\ \A n \in DOMAIN drunBoxes : n # name => drunBoxes'[n] = drunBoxes[n]
    BY <2>1 DEF D!Removed, D!IInv, D!TypeOK
  <2>3. QED  BY <1>6, <2>1, <2>2, DrunFaultType DEF D!IInv
<1>10. CASE D!PersistentFails(c)
  <2>1. /\ drunPc' = [drunPc EXCEPT ![c] = "done"] /\ drunRet' = [drunRet EXCEPT ![c] = "failed"]
        /\ UNCHANGED <<asked, drunRanIn, tmp, drunStops>> /\ D!Fault(c)
    BY <1>10 DEF D!PersistentFails, D!End, D!Goto
  <2>2. FaultsGrow  BY <2>1, DrunFaultType DEF D!IInv
  <2>3. CASE UNCHANGED <<drunBoxes, drunTouched>>  BY <1>1, <1>2, <2>1, <2>2, <2>3, DrunQuiet
  <2>4. CASE ~D!Exists(name) /\ drunBoxes' = D!Created(name, D!With(c), FALSE) /\ D!Touch(name, c)
    <3>1. /\ drunBoxes' \in [DOMAIN drunBoxes' -> [with : D!Mounted, up : BOOLEAN]]
          /\ DOMAIN drunBoxes' = DOMAIN drunBoxes \cup {name}
          /\ \A n \in DOMAIN drunBoxes : n # name => drunBoxes'[n] = drunBoxes[n]
      BY <1>3, <2>4 DEF D!Created, D!IInv, D!TypeOK
    <3>2. QED  BY <1>6, <2>1, <2>2, <2>4, <3>1
  <2>5. QED  BY <1>10, <2>3, <2>4 DEF D!PersistentFails
<1>11. QED  BY <1>4, <1>5, <1>7, <1>8, <1>9, <1>10

\* Somebody stops a container, and every call of that name is told so by touched.
LEMMA DrunStop ==
  ASSUME D!DrunAssumption, D!IInv, NEW name \in DOMAIN drunBoxes, D!Stop(name) PROVE D!IInv'
<1>1. /\ drunStops < MaxStops /\ drunStops' = drunStops + 1 /\ D!Touch(name, "nobody")
      /\ drunBoxes' = D!Stopped(name)
      /\ UNCHANGED <<drunPc, asked, drunRet, drunRanIn, tmp, drunFaulted>>
  BY DEF D!Stop
<1>2. drunStops' \in 0 .. MaxStops
  <2>1. drunStops \in 0 .. MaxStops /\ MaxStops \in Nat  BY DEF D!IInv, D!TypeOK, D!DrunAssumption
  <2>2. QED  BY <1>1, <2>1
<1>3. /\ drunBoxes' \in [DOMAIN drunBoxes' -> [with : D!Mounted, up : BOOLEAN]] /\ DOMAIN drunBoxes' = DOMAIN drunBoxes
      /\ \A n \in DOMAIN drunBoxes : n # name => drunBoxes'[n] = drunBoxes[n]
  <2>2. /\ DOMAIN drunBoxes' = DOMAIN drunBoxes /\ drunBoxes' \in [DOMAIN drunBoxes -> [with : D!Mounted, up : BOOLEAN]]
        /\ \A m \in DOMAIN drunBoxes : m # name => drunBoxes'[m] = drunBoxes[m]
    BY <1>1, SwitchType DEF D!IInv
  <2>3. QED  BY <2>2
<1>4. drunTouched' \in [Calls -> BOOLEAN] /\ \A d \in Calls : drunTouched[d] => drunTouched'[d]
  BY <1>1, DrunTouchType DEF D!IInv
<1>5. D!TypeOK'  BY <1>1, <1>2, <1>3, <1>4 DEF D!IInv, D!TypeOK
<1>6. D!Undisturbed'
  <2>0. SUFFICES ASSUME NEW d \in Calls, ~drunTouched'[d], ~drunFaulted'[d]
                 PROVE  DrunKnows(d)'
    BY DEF D!Undisturbed, DrunKnows
  <2>1. d # "nobody"  BY DEF D!DrunAssumption
  <2>2. FaultsGrow  BY <1>1, DrunFaultType DEF D!IInv
  <2>3. OnlyChanged(name)  BY <1>3 DEF OnlyChanged
  <2>4. UNCHANGED asked /\ drunPc'[d] = drunPc[d]  BY <1>1
  <2>5. QED  BY <1>1, <2>0, <2>1, <2>2, <2>3, <2>4, DrunChange, Zenon
<1>7. (\A d \in Calls : drunPc[d] # "done" => drunRet[d] = "none")'  BY <1>1 DEF D!IInv, D!Unanswered
<1>8. QED  BY <1>5, <1>6, <1>7 DEF D!IInv, D!Unanswered

\* A step of one call leaves what another has come to alone.
LEMMA DrunOther ==
  ASSUME D!TypeOK, NEW c \in Calls, NEW d \in Calls, d # c, D!Invoke(d) \/ D!Step(d)
  PROVE  drunRet'[c] = drunRet[c] /\ drunPc'[c] = drunPc[c]
<1>1. CASE D!Invoke(d)  BY <1>1 DEF D!Invoke, D!Goto, D!TypeOK
<1>2. CASE D!SetupUserFiles(d) \/ D!RunEphemeral(d)
  BY <1>2 DEF D!SetupUserFiles, D!RunEphemeral, D!End, D!Goto, D!TypeOK
<1>3. CASE D!Ps(d) \/ D!PsAll(d) \/ D!PsFails(d)
  BY <1>3 DEF D!Ps, D!PsAll, D!PsFails, D!Goto, D!TypeOK
<1>4. CASE D!DockerStart(d)  BY <1>4 DEF D!DockerStart, D!End, D!Goto, D!TypeOK
<1>5. CASE D!DockerRun(d)  BY <1>5 DEF D!DockerRun, D!End, D!Goto, D!TypeOK
<1>6. CASE D!DockerExec(d)  BY <1>6 DEF D!DockerExec, D!End, D!Goto, D!TypeOK
<1>7. CASE D!LookForRemoval(d)  BY <1>7 DEF D!LookForRemoval, D!End, D!Goto, D!TypeOK
<1>8. CASE D!Remove(d)  BY <1>8 DEF D!Remove, D!End, D!Goto, D!TypeOK
<1>9. CASE D!PersistentFails(d) \/ D!RemovalFails(d)
  BY <1>9 DEF D!PersistentFails, D!RemovalFails, D!End, D!Goto, D!TypeOK
<1>10. QED  BY <1>1, <1>2, <1>3, <1>4, <1>5, <1>6, <1>7, <1>8, <1>9 DEF D!Step

\* What a step makes of a call nobody has disturbed.
LEMMA DrunExplains ==
  ASSUME D!DrunAssumption, D!IInv, [D!Next]_(D!vars), NEW c \in Calls
  PROVE  D!OutcomeExplained(c)
<1> SUFFICES ASSUME ~drunTouched[c], ~drunFaulted'[c]
             PROVE  /\ drunPc[c] \in {"ps", "ps -a", "start", "run", "exec"} => drunRet'[c] # "failed"
                    /\ drunPc[c] \in {"rm", "rm -f"} /\ drunPc'[c] = "done" => D!Name(c) \notin DOMAIN drunBoxes'
  BY DEF D!OutcomeExplained
<1> DEFINE Fails == D!PsFails(c) \/ D!PersistentFails(c) \/ D!RemovalFails(c)
<1>0. ~Fails /\ ~drunFaulted[c]
  <2>1. ASSUME Fails PROVE FALSE
    <3>1. D!Fault(c)  BY <2>1 DEF D!PsFails, D!PersistentFails, D!RemovalFails
    <3>2. QED  BY <3>1, DrunFaultType DEF D!IInv
  <2>2. UNCHANGED drunFaulted \/ \E d \in Calls : D!Fault(d)
    BY DEF D!Next, D!vars, D!Invoke, D!Step, D!SetupUserFiles, D!RunEphemeral, D!Ps, D!PsAll, D!PsFails,
       D!DockerStart, D!DockerRun, D!DockerExec, D!PersistentFails, D!LookForRemoval, D!Remove,
       D!RemovalFails, D!Stop
  <2>3. FaultsGrow  BY <2>2, DrunFaultType DEF D!IInv
  <2>4. QED  BY <2>1, <2>3 DEF FaultsGrow
<1>1. ASSUME drunRet'[c] # drunRet[c] \/ drunPc'[c] # drunPc[c] PROVE D!Invoke(c) \/ D!Step(c)
  <2>1. CASE UNCHANGED D!vars  BY <1>1, <2>1 DEF D!vars
  <2>2. ASSUME NEW name \in DOMAIN drunBoxes, D!Stop(name) PROVE FALSE  BY <1>1, <2>2 DEF D!Stop
  <2>3. ASSUME NEW d \in Calls, D!Invoke(d) \/ D!Step(d) PROVE d = c
    BY <1>1, <2>3, DrunOther DEF D!IInv
  <2>4. QED  BY <2>1, <2>2, <2>3 DEF D!Next
<1>2. ASSUME drunPc[c] \in {"ps", "ps -a", "start", "run", "exec"}, drunRet'[c] = "failed" PROVE FALSE
  <2>1. drunRet[c] = "none"  BY <1>2 DEF D!IInv, D!Unanswered
  <2>2. D!DockerStart(c) \/ D!DockerRun(c) \/ D!DockerExec(c)
    BY <1>0, <1>1, <1>2, <2>1 DEF D!Step, D!Invoke, D!SetupUserFiles, D!RunEphemeral, D!Ps, D!PsAll, D!LookForRemoval, D!Remove
  <2>3. CASE D!DockerStart(c)
    BY <1>0, <1>2, <2>1, <2>3 DEF D!DockerStart, D!IInv, D!Undisturbed
  <2>4. CASE D!DockerRun(c)
    BY <1>0, <1>2, <2>1, <2>4 DEF D!DockerRun, D!IInv, D!Undisturbed
  <2>5. CASE D!DockerExec(c)
    BY <1>0, <1>2, <2>5 DEF D!DockerExec, D!End, D!IInv, D!TypeOK, D!Undisturbed
  <2>6. QED  BY <2>2, <2>3, <2>4, <2>5
<1>3. ASSUME drunPc[c] \in {"rm", "rm -f"}, drunPc'[c] = "done" PROVE D!Name(c) \notin DOMAIN drunBoxes'
  <2>1. D!LookForRemoval(c) \/ D!Remove(c)
    BY <1>0, <1>1, <1>3 DEF D!Step, D!Invoke, D!SetupUserFiles, D!RunEphemeral, D!Ps, D!PsAll, D!DockerStart,
       D!DockerRun, D!DockerExec
  <2>2. CASE D!LookForRemoval(c)
    BY <1>3, <2>2 DEF D!LookForRemoval, D!ToRemove, D!Goto, D!Exists, D!IInv, D!TypeOK
  <2>3. CASE D!Remove(c)  BY <2>3 DEF D!Remove, D!Removed
  <2>4. QED  BY <2>1, <2>2, <2>3
<1>4. QED  BY <1>2, <1>3

\* A call of drun gets its container running whatever state it was in, and none is
\* left after a removal, unless somebody changed it meanwhile or docker failed one
\* of its own commands, for any calls, directories, names and networks.
THEOREM DrunExplained == D!Spec => DrunOutcomeExplained
<1> SUFFICES ASSUME D!DrunAssumption PROVE D!Spec => DrunOutcomeExplained  BY ProgramsAssumption
<1>1. D!Init => D!IInv  BY DrunInit
<1>2. D!IInv /\ [D!Next]_(D!vars) => D!IInv'
  <2> SUFFICES ASSUME D!IInv, [D!Next]_(D!vars) PROVE D!IInv'  OBVIOUS
  <2>1. CASE D!Next
    BY <2>1, DrunInvoke, DrunEphemeral, DrunLooks, DrunEnds, DrunStop DEF D!Next, D!Step
  <2>2. CASE UNCHANGED D!vars
    BY <2>2 DEF D!vars, D!IInv, D!Unanswered, D!TypeOK, D!Undisturbed, D!Up, D!Exists, D!Name
  <2>3. QED  BY <2>1, <2>2
<1>3. D!IInv /\ [D!Next]_(D!vars) => [\A c \in Calls : D!OutcomeExplained(c)]_(D!vars)
  BY DrunExplains
<1>4. D!IInv => D!TypeOK /\ D!Undisturbed /\ D!Unanswered  BY DEF D!IInv
<1>5. QED  BY <1>1, <1>2, <1>3, <1>4, PTL DEF D!Spec, DrunOutcomeExplained, D!DrunOutcomeExplained

-----------------------------------------------------------------------------
(* cpy: Cpy                                                                *)

\* A number is made of its quotient and its remainder.
LEMMA DivMod64 ==
  ASSUME NEW n \in Nat
  PROVE  n \div 64 \in Nat /\ n % 64 \in 0 .. 63 /\ 64 * (n \div 64) + (n % 64) = n
<1> DEFINE q == n \div 64
           r == n % 64
<1>1. q \in Nat  OBVIOUS
<1>2. r \in 0 .. 63  OBVIOUS
<1>3. n - 64 * q = r  OBVIOUS
<1> HIDE DEF q, r
<1>4. 64 * q + r = n  BY <1>1, <1>2, <1>3
<1>5. q \in Nat /\ r \in 0 .. 63 /\ 64 * q + r = n  BY <1>1, <1>2, <1>4
<1>6. QED  BY <1>5 DEF q, r

\* A number is made of its quotient and its remainder.
LEMMA DivMod256 ==
  ASSUME NEW n \in Nat
  PROVE  n \div 256 \in Nat /\ n % 256 \in 0 .. 255 /\ 256 * (n \div 256) + (n % 256) = n
<1> DEFINE q == n \div 256
           r == n % 256
<1>1. q \in Nat  OBVIOUS
<1>2. r \in 0 .. 255  OBVIOUS
<1>3. n - 256 * q = r  OBVIOUS
<1> HIDE DEF q, r
<1>4. 256 * q + r = n  BY <1>1, <1>2, <1>3
<1>5. q \in Nat /\ r \in 0 .. 255 /\ 256 * q + r = n  BY <1>1, <1>2, <1>4
<1>6. QED  BY <1>5 DEF q, r

\* A number is made of its quotient and its remainder.
LEMMA DivMod3 ==
  ASSUME NEW n \in Nat
  PROVE  n \div 3 \in Nat /\ n % 3 \in 0 .. 2 /\ 3 * (n \div 3) + (n % 3) = n
<1> DEFINE q == n \div 3
           r == n % 3
<1>1. q \in Nat  OBVIOUS
<1>2. r \in 0 .. 2  OBVIOUS
<1>3. n - 3 * q = r  OBVIOUS
<1> HIDE DEF q, r
<1>4. 3 * q + r = n  BY <1>1, <1>2, <1>3
<1>5. q \in Nat /\ r \in 0 .. 2 /\ 3 * q + r = n  BY <1>1, <1>2, <1>4
<1>6. QED  BY <1>5 DEF q, r

\* A number is made of its quotient and its remainder.
LEMMA DivMod4 ==
  ASSUME NEW n \in Nat
  PROVE  n \div 4 \in Nat /\ n % 4 \in 0 .. 3 /\ 4 * (n \div 4) + (n % 4) = n
<1> DEFINE q == n \div 4
           r == n % 4
<1>1. q \in Nat  OBVIOUS
<1>2. r \in 0 .. 3  OBVIOUS
<1>3. n - 4 * q = r  OBVIOUS
<1> HIDE DEF q, r
<1>4. 4 * q + r = n  BY <1>1, <1>2, <1>3
<1>5. q \in Nat /\ r \in 0 .. 3 /\ 4 * q + r = n  BY <1>1, <1>2, <1>4
<1>6. QED  BY <1>5 DEF q, r

\* Quotients of quotients.
LEMMA DivDiv64 ==
  ASSUME NEW n \in Nat
  PROVE  n \div 4096 = (n \div 64) \div 64
OBVIOUS

\* The same.
LEMMA DivDiv4096 ==
  ASSUME NEW n \in Nat
  PROVE  n \div 262144 = (n \div 4096) \div 64
OBVIOUS

\* The same.
LEMMA DivDiv256 ==
  ASSUME NEW n \in Nat
  PROVE  n \div 65536 = (n \div 256) \div 256
OBVIOUS

Byte == 0 .. 255
Sixth == 0 .. 63

\* The digits of base 64 of a number, and those of base 256.
D0(v) == v \div 262144
D1(v) == (v \div 4096) % 64
D2(v) == (v \div 64) % 64
D3(v) == v % 64
B1(v) == v \div 65536
B2(v) == (v \div 256) % 256
B3(v) == v % 256

OfDigits(n, a, b, c, d) == n = 262144 * a + 4096 * b + 64 * c + d
OfBytes(n, a, b, c) == n = 65536 * a + 256 * b + c

\* A number is made of its digits.
LEMMA DigitsOfNumber ==
  ASSUME NEW v \in Nat
  PROVE  /\ D0(v) \in Nat /\ D1(v) \in Sixth /\ D2(v) \in Sixth /\ D3(v) \in Sixth
         /\ OfDigits(v, D0(v), D1(v), D2(v), D3(v))
<1> DEFINE q1 == v \div 64
           q2 == q1 \div 64
           q3 == q2 \div 64
<1>1. q1 \in Nat /\ D3(v) \in Sixth /\ 64 * q1 + D3(v) = v  BY DivMod64 DEF D3, Sixth
<1>2. D2(v) = q1 % 64 /\ v \div 4096 = q2  BY DivDiv64 DEF D2
<1> HIDE DEF q1
<1>3. q2 \in Nat /\ D2(v) \in Sixth /\ 64 * q2 + D2(v) = q1  BY <1>1, <1>2, DivMod64 DEF Sixth
<1>4. D1(v) = q2 % 64 /\ D0(v) = q3  BY <1>2, DivDiv4096 DEF D0, D1
<1> HIDE DEF q2
<1>5. q3 \in Nat /\ D1(v) \in Sixth /\ 64 * q3 + D1(v) = q2  BY <1>3, <1>4, DivMod64 DEF Sixth
<1> DEFINE r1 == D1(v)
           r2 == D2(v)
           r3 == D3(v)
<1>6. 64 * q1 + r3 = v /\ 64 * q2 + r2 = q1 /\ 64 * q3 + r1 = q2 /\ r1 \in Sixth /\ r2 \in Sixth /\ r3 \in Sixth
  BY <1>1, <1>3, <1>5
<1> HIDE DEF q3, r1, r2, r3
<1>7. OfDigits(v, q3, r1, r2, r3)  BY <1>1, <1>3, <1>5, <1>6 DEF OfDigits, Byte, Sixth
<1>8. OfDigits(v, D0(v), D1(v), D2(v), D3(v))  BY <1>4, <1>7 DEF r1, r2, r3
<1>9. QED  BY <1>1, <1>3, <1>4, <1>5, <1>8

\* The same of base 256.
LEMMA BytesOfNumber ==
  ASSUME NEW v \in Nat
  PROVE  /\ B1(v) \in Nat /\ B2(v) \in Byte /\ B3(v) \in Byte
         /\ OfBytes(v, B1(v), B2(v), B3(v))
<1> DEFINE q1 == v \div 256
           q2 == q1 \div 256
<1>1. q1 \in Nat /\ B3(v) \in Byte /\ 256 * q1 + B3(v) = v  BY DivMod256 DEF B3, Byte
<1>2. B2(v) = q1 % 256 /\ B1(v) = q2  BY DivDiv256 DEF B1, B2
<1> HIDE DEF q1
<1>3. q2 \in Nat /\ B2(v) \in Byte /\ 256 * q2 + B2(v) = q1  BY <1>1, <1>2, DivMod256 DEF Byte
<1> DEFINE r1 == B2(v)
           r2 == B3(v)
<1>4. 256 * q1 + r2 = v /\ 256 * q2 + r1 = q1 /\ r1 \in Byte /\ r2 \in Byte
  BY <1>1, <1>3
<1> HIDE DEF q2, r1, r2
<1>5. OfBytes(v, q2, r1, r2)  BY <1>1, <1>3, <1>4 DEF OfBytes, Byte, Sixth
<1>6. OfBytes(v, B1(v), B2(v), B3(v))  BY <1>2, <1>5 DEF r1, r2
<1>7. QED  BY <1>1, <1>2, <1>3, <1>6

\* What makes a number of base 64 and of base 256: bytes of zero at the end are
\* digits of zero.
LEMMA SameNumber ==
  ASSUME NEW n \in Nat, NEW a \in Byte, NEW b \in Byte, NEW c \in Byte,
         NEW p \in Nat, NEW q \in Sixth, NEW r \in Sixth, NEW s \in Sixth,
         OfDigits(n, p, q, r, s), OfBytes(n, a, b, c)
  PROVE  p \in Sixth /\ (c = 0 => s = 0) /\ (b = 0 /\ c = 0 => r = 0)
<1>1. 262144 * p + 4096 * q + 64 * r + s = 65536 * a + 256 * b + c  BY DEF OfDigits, OfBytes, Byte, Sixth
<1>2. p \in Sixth
  <2>1. 65536 * a + 256 * b + c <= 16777215  BY SMT DEF Byte, Sixth
  <2>2. 262144 * p <= 16777215  BY <1>1, <2>1, SMT DEF Byte, Sixth
  <2>3. QED  BY <2>2, SMT DEF Byte, Sixth
<1>3. c = 0 => s = 0
  <2> DEFINE k == 1024 * a + 4 * b - 4096 * p - 64 * q - r
  <2>1. k \in Int /\ 64 * k = s - c  BY <1>1, SMT DEF Byte, Sixth
  <2> HIDE DEF k
  <2>2. QED  BY <2>1, SMT DEF Byte, Sixth
<1>4. ASSUME b = 0, c = 0 PROVE r = 0
  <2> DEFINE k == 16 * a - 64 * p - q
  <2>1. s = 0  BY <1>3, <1>4
  <2>2. k \in Int /\ 64 * k = r  BY <1>1, <1>4, <2>1, SMT DEF Byte, Sixth
  <2> HIDE DEF k
  <2>3. QED  BY <2>2, SMT DEF Byte, Sixth
<1>5. QED  BY <1>2, <1>3, <1>4

\* Three bytes make a number that no other three make.
LEMMA ThreeBytes ==
  ASSUME NEW n \in Nat, NEW a \in Byte, NEW b \in Byte, NEW c \in Byte,
         NEW x \in Nat, NEW y \in Byte, NEW z \in Byte,
         OfBytes(n, a, b, c), OfBytes(n, x, y, z)
  PROVE  x = a /\ y = b /\ z = c
<1> DEFINE k == 256 * (x - a) + (y - b)
           j == x - a
<1>1. k \in Int /\ 256 * k = c - z  BY SMT DEF OfBytes, Byte, Sixth
<1>2. k = 256 * j + (y - b) /\ j \in Int  BY SMT DEF Byte, Sixth
<1> HIDE DEF k
<1>3. k = 0 /\ z = c  BY <1>1, SMT DEF Byte, Sixth
<1>4. 256 * j = b - y /\ j \in Int  BY <1>2, <1>3, SMT DEF Byte, Sixth
<1> HIDE DEF j
<1>5. j = 0 /\ y = b  BY <1>4, SMT DEF Byte, Sixth
<1>6. x = a  BY <1>5, SMT DEF j, Byte, Sixth
<1>7. QED  BY <1>3, <1>5, <1>6

\* A group of three bytes is made of its four digits, and of its three bytes.
LEMMA GroupOfBytes ==
  ASSUME NEW a \in Byte, NEW b \in Byte, NEW c \in Byte, NEW v \in Nat,
         OfBytes(v, a, b, c)
  PROVE  /\ D0(v) \in Sixth /\ D1(v) \in Sixth /\ D2(v) \in Sixth /\ D3(v) \in Sixth
         /\ OfDigits(v, D0(v), D1(v), D2(v), D3(v))
         /\ B1(v) = a /\ B2(v) = b /\ B3(v) = c
         /\ (c = 0 => D3(v) = 0) /\ (b = 0 /\ c = 0 => D2(v) = 0)
<1>1. /\ D0(v) \in Nat /\ D1(v) \in Sixth /\ D2(v) \in Sixth /\ D3(v) \in Sixth
      /\ OfDigits(v, D0(v), D1(v), D2(v), D3(v))
  BY DigitsOfNumber
<1>2. /\ B1(v) \in Nat /\ B2(v) \in Byte /\ B3(v) \in Byte
      /\ OfBytes(v, B1(v), B2(v), B3(v))
  BY BytesOfNumber
<1>3. B1(v) = a /\ B2(v) = b /\ B3(v) = c
  BY <1>2, ThreeBytes, Zenon
<1>4. /\ D0(v) \in Sixth /\ (c = 0 => D3(v) = 0) /\ (b = 0 /\ c = 0 => D2(v) = 0)
  <2>1. PICK w0 \in Nat, w1 \in Sixth, w2 \in Sixth, w3 \in Sixth :
          w0 = D0(v) /\ w1 = D1(v) /\ w2 = D2(v) /\ w3 = D3(v)
    BY <1>1, Zenon
  <2>2. OfDigits(v, w0, w1, w2, w3)  BY <1>1, <2>1, Zenon
  <2>3. w0 \in Sixth /\ (c = 0 => w3 = 0) /\ (b = 0 /\ c = 0 => w2 = 0)  BY <2>2, SameNumber, SMT
  <2>4. QED  BY <2>1, <2>3, Zenon
<1>5. QED  BY <1>1, <1>3, <1>4, Zenon

\* The text is of groups of four digits, one for each three bytes begun.
LEMMA GroupsOf ==
  ASSUME NEW n \in Nat \ {0}
  PROVE  \E g \in Nat \ {0} : Y!EncodedCap(n) = 4 * g /\ n \in {3 * g - 2, 3 * g - 1, 3 * g}
BY DEF Y!EncodedCap

\* A longer input has no shorter text.
LEMMA CapGrows ==
  ASSUME NEW m \in Nat, NEW n \in Nat, m <= n
  PROVE  Y!EncodedCap(m) <= Y!EncodedCap(n) /\ Y!EncodedCap(m) \in Nat
BY DEF Y!EncodedCap

\* A byte of a group, or zero behind the end.
At(b, g, i) == IF 3 * g + i <= Len(b) THEN b[3 * g + i] ELSE 0
Value(b, g) == 65536 * At(b, g, 1) + 256 * At(b, g, 2) + At(b, g, 3)

\* The bytes of a group are its number.
LEMMA ValueOf ==
  ASSUME NEW b \in Seq(Byte), NEW g \in Nat
  PROVE  /\ At(b, g, 1) \in Byte /\ At(b, g, 2) \in Byte /\ At(b, g, 3) \in Byte
         /\ Value(b, g) \in Nat /\ OfBytes(Value(b, g), At(b, g, 1), At(b, g, 2), At(b, g, 3))
<1>1. 0 \in Byte /\ Len(b) \in Nat  BY DEF Byte
<1>2. ASSUME NEW i \in 1 .. 3 PROVE At(b, g, i) \in Byte
  BY <1>1 DEF At
<1>3. PICK x \in Byte, y \in Byte, z \in Byte : x = At(b, g, 1) /\ y = At(b, g, 2) /\ z = At(b, g, 3)
  BY <1>2
<1>4. PICK v \in Nat : v = 65536 * x + 256 * y + z
  BY SMT DEF Byte
<1>5. Value(b, g) = v
  BY <1>3, <1>4, SMT DEF Value
<1>6. OfBytes(v, x, y, z)
  BY <1>4, SMT DEF OfBytes
<1>7. QED  BY <1>3, <1>5, <1>6, Zenon

\* The digits of a group.
LEMMA DigitOf ==
  ASSUME NEW b \in Seq(Byte), NEW g \in Nat
  PROVE  /\ Y!Digit(b, g, 0) = D0(Value(b, g)) /\ Y!Digit(b, g, 1) = D1(Value(b, g))
         /\ Y!Digit(b, g, 2) = IF 3 * g + 2 <= Len(b) THEN D2(Value(b, g)) ELSE 64
         /\ Y!Digit(b, g, 3) = IF 3 * g + 3 <= Len(b) THEN D3(Value(b, g)) ELSE 64
<1> DEFINE left == Len(b) - 3 * g
           at(i) == IF i <= left THEN b[3 * g + i] ELSE 0
           bv == 65536 * at(1) + 256 * at(2) + at(3)
<1>1. Len(b) \in Nat  OBVIOUS
<1>2. at(1) = At(b, g, 1) /\ at(2) = At(b, g, 2) /\ at(3) = At(b, g, 3)
  BY <1>1, SMT DEF At
<1> HIDE DEF at
<1>3. bv = Value(b, g)
  BY <1>2, SMT DEF Value
<1>4. /\ Y!Digit(b, g, 0) = bv \div 262144
      /\ Y!Digit(b, g, 1) = (bv \div 4096) % 64
      /\ Y!Digit(b, g, 2) = IF left > 1 THEN (bv \div 64) % 64 ELSE 64
      /\ Y!Digit(b, g, 3) = IF left > 2 THEN bv % 64 ELSE 64
  BY SMT DEF Y!Digit, Y!Pad, at
<1>5. (left > 1 <=> 3 * g + 2 <= Len(b)) /\ (left > 2 <=> 3 * g + 3 <= Len(b))
  BY <1>1, SMT
<1> DEFINE more == left > 1
           all == left > 2
<1> HIDE DEF bv, left
<1>6. /\ Y!Digit(b, g, 0) = D0(bv) /\ Y!Digit(b, g, 1) = D1(bv)
      /\ Y!Digit(b, g, 2) = IF more THEN D2(bv) ELSE 64
      /\ Y!Digit(b, g, 3) = IF all THEN D3(bv) ELSE 64
  BY <1>4, SMT DEF D0, D1, D2, D3
<1>7. QED
  BY <1>3, <1>5, <1>6, Zenon DEF more, all

\* What the digits of a group are.
LEMMA DigitsOfGroup ==
  ASSUME NEW b \in Seq(Byte), NEW g \in Nat, NEW v, v = Value(b, g)
  PROVE  /\ D0(v) \in Sixth /\ D1(v) \in Sixth /\ D2(v) \in Sixth /\ D3(v) \in Sixth
         /\ OfDigits(v, D0(v), D1(v), D2(v), D3(v))
         /\ B1(v) = At(b, g, 1) /\ B2(v) = At(b, g, 2) /\ B3(v) = At(b, g, 3)
         /\ (At(b, g, 3) = 0 => D3(v) = 0) /\ (At(b, g, 2) = 0 /\ At(b, g, 3) = 0 => D2(v) = 0)
<1>1. PICK x \in Byte, y \in Byte, z \in Byte : x = At(b, g, 1) /\ y = At(b, g, 2) /\ z = At(b, g, 3)
  BY ValueOf, Zenon
<1>2. v \in Nat /\ OfBytes(v, x, y, z)  BY <1>1, ValueOf, Zenon
<1>3. /\ D0(v) \in Sixth /\ D1(v) \in Sixth /\ D2(v) \in Sixth /\ D3(v) \in Sixth
      /\ OfDigits(v, D0(v), D1(v), D2(v), D3(v))
      /\ B1(v) = x /\ B2(v) = y /\ B3(v) = z
      /\ (z = 0 => D3(v) = 0) /\ (y = 0 /\ z = 0 => D2(v) = 0)
  BY <1>2, GroupOfBytes, SMT
<1>4. QED  BY <1>1, <1>3, Zenon

\* The text of some bytes.
LEMMA EncodeType ==
  ASSUME NEW b \in Seq(Byte)
  PROVE  /\ Y!Encode(b) \in Seq(0 .. 64)
         /\ Len(Y!Encode(b)) = Y!EncodedCap(Len(b))
         /\ \A k \in 1 .. Y!EncodedCap(Len(b)) : Y!Encode(b)[k] = Y!Digit(b, (k - 1) \div 4, (k - 1) % 4)
<1> DEFINE cap == Y!EncodedCap(Len(b))
<1>1. cap \in Nat  BY CapGrows
<1>2. ASSUME NEW k \in 1 .. cap
      PROVE  Y!Digit(b, (k - 1) \div 4, (k - 1) % 4) \in 0 .. 64
  <2>1. k - 1 \in Nat  BY <1>1
  <2>2. PICK g \in Nat, d \in 0 .. 3 : g = (k - 1) \div 4 /\ d = (k - 1) % 4
    BY <2>1, DivMod4
  <2>3. PICK v : v = Value(b, g)  OBVIOUS
  <2>4. D0(v) \in Sixth /\ D1(v) \in Sixth /\ D2(v) \in Sixth /\ D3(v) \in Sixth
    BY <2>3, DigitsOfGroup, Zenon
  <2>5. Y!Digit(b, g, 0) \in 0 .. 64 /\ Y!Digit(b, g, 1) \in 0 .. 64
        /\ Y!Digit(b, g, 2) \in 0 .. 64 /\ Y!Digit(b, g, 3) \in 0 .. 64
    <3>1. \A n \in Sixth : n \in 0 .. 64  BY DEF Sixth
    <3>2. 64 \in 0 .. 64  OBVIOUS
    <3>3. Y!Digit(b, g, 0) = D0(v) /\ Y!Digit(b, g, 1) = D1(v)
      BY <2>3, DigitOf
    <3>4. Y!Digit(b, g, 2) \in {D2(v), 64} /\ Y!Digit(b, g, 3) \in {D3(v), 64}
      BY <2>3, DigitOf
    <3>5. D0(v) \in 0 .. 64 /\ D1(v) \in 0 .. 64 /\ D2(v) \in 0 .. 64 /\ D3(v) \in 0 .. 64
      BY <2>4, <3>1
    <3>6. Y!Digit(b, g, 2) \in 0 .. 64  BY <3>2, <3>4, <3>5
    <3>7. Y!Digit(b, g, 3) \in 0 .. 64  BY <3>2, <3>4, <3>5
    <3>8. QED  BY <3>3, <3>5, <3>6, <3>7
  <2>6. Y!Digit(b, g, d) \in 0 .. 64
    <3>1. d = 0 \/ d = 1 \/ d = 2 \/ d = 3  OBVIOUS
    <3>2. QED  BY <3>1, <2>5
  <2>7. QED  BY <2>2, <2>6, Zenon
<1> HIDE DEF cap
<1>3. Y!Encode(b) = [k \in 1 .. cap |-> Y!Digit(b, (k - 1) \div 4, (k - 1) % 4)]
  BY DEF Y!Encode, cap
<1>4. Y!Encode(b) \in [1 .. cap -> 0 .. 64]
  BY <1>2, <1>3
<1>5. Y!Encode(b) \in Seq(0 .. 64) /\ Len(Y!Encode(b)) = cap  BY <1>1, <1>4
<1>6. \A k \in 1 .. cap : Y!Encode(b)[k] = Y!Digit(b, (k - 1) \div 4, (k - 1) % 4)  BY <1>3, Zenon
<1>7. QED  BY <1>5, <1>6, Zenon DEF cap

\* The digits of a group, at their places in the text.
LEMMA DigitsAt ==
  ASSUME NEW b \in Seq(Byte), NEW g \in Nat, 4 * g + 4 <= Y!EncodedCap(Len(b))
  PROVE  \A d \in 0 .. 3 : Y!Encode(b)[4 * g + d + 1] = Y!Digit(b, g, d)
<1> DEFINE cap == Y!EncodedCap(Len(b))
<1>1. cap \in Nat  BY CapGrows
<1>2. SUFFICES ASSUME NEW d \in 0 .. 3
               PROVE  Y!Encode(b)[4 * g + d + 1] = Y!Digit(b, g, d)
  OBVIOUS
<1>3. PICK k \in Nat : k = 4 * g + d + 1  OBVIOUS
<1>4. k \in 1 .. cap  BY <1>1, <1>3
<1>5. (k - 1) \div 4 = g /\ (k - 1) % 4 = d
  <2>1. PICK j \in Nat : j = 4 * g + d  OBVIOUS
  <2>2. k - 1 = j  BY <1>3, <2>1
  <2>3. PICK q \in Nat, r \in 0 .. 3 : q = j \div 4 /\ r = j % 4 /\ 4 * q + r = j
    BY DivMod4
  <2>4. q = g /\ r = d  BY <2>1, <2>3
  <2>5. QED  BY <2>2, <2>3, <2>4
<1> HIDE DEF cap
<1>6. Y!Encode(b)[k] = Y!Digit(b, (k - 1) \div 4, (k - 1) % 4)
  BY <1>4, EncodeType DEF cap
<1>7. QED  BY <1>3, <1>5, <1>6

\* The places of the padding: behind what the last bytes fill.
LEMMA PaddingAt ==
  ASSUME NEW b \in Seq(Byte), NEW G \in Nat \ {0}, Y!EncodedCap(Len(b)) = 4 * G,
         Len(b) \in {3 * G - 2, 3 * G - 1, 3 * G}, NEW g \in 0 .. G - 1
  PROVE  /\ Y!Encode(b)[4 * g + 1] = D0(Value(b, g)) /\ Y!Encode(b)[4 * g + 2] = D1(Value(b, g))
         /\ IF g = G - 1 /\ Len(b) = 3 * G - 2 THEN Y!Encode(b)[4 * g + 3] = 64 /\ D2(Value(b, g)) = 0
            ELSE Y!Encode(b)[4 * g + 3] = D2(Value(b, g))
         /\ IF g = G - 1 /\ Len(b) # 3 * G THEN Y!Encode(b)[4 * g + 4] = 64 /\ D3(Value(b, g)) = 0
            ELSE Y!Encode(b)[4 * g + 4] = D3(Value(b, g))
<1>1. g \in Nat /\ Len(b) \in Nat /\ 4 * g + 4 <= 4 * G  BY SMT
<1> DEFINE E == Y!Encode(b)
<1>2. \A d \in 0 .. 3 : E[4 * g + d + 1] = Y!Digit(b, g, d)
  BY <1>1, DigitsAt
<1>3. /\ E[4 * g + 1] = Y!Digit(b, g, 0) /\ E[4 * g + 2] = Y!Digit(b, g, 1)
      /\ E[4 * g + 3] = Y!Digit(b, g, 2) /\ E[4 * g + 4] = Y!Digit(b, g, 3)
  <2> HIDE DEF E
  <2>1. E[4 * g + 0 + 1] = Y!Digit(b, g, 0) /\ E[4 * g + 1 + 1] = Y!Digit(b, g, 1)
        /\ E[4 * g + 2 + 1] = Y!Digit(b, g, 2) /\ E[4 * g + 3 + 1] = Y!Digit(b, g, 3)
    BY <1>2
  <2>2. 4 * g + 0 + 1 = 4 * g + 1 /\ 4 * g + 1 + 1 = 4 * g + 2 /\ 4 * g + 2 + 1 = 4 * g + 3 /\ 4 * g + 3 + 1 = 4 * g + 4
    BY <1>1
  <2>3. QED  BY <2>1, <2>2
<1> HIDE DEF E
<1> DEFINE v == Value(b, g)
<1>4. /\ E[4 * g + 1] = D0(v) /\ E[4 * g + 2] = D1(v)
      /\ E[4 * g + 3] = IF 3 * g + 2 <= Len(b) THEN D2(v) ELSE 64
      /\ E[4 * g + 4] = IF 3 * g + 3 <= Len(b) THEN D3(v) ELSE 64
  BY <1>1, <1>3, DigitOf
<1>5. (At(b, g, 3) = 0 => D3(v) = 0) /\ (At(b, g, 2) = 0 /\ At(b, g, 3) = 0 => D2(v) = 0)
  BY <1>1, DigitsOfGroup
<1> HIDE DEF v
<1>6. 3 * g + 2 <= Len(b) <=> ~(g = G - 1 /\ Len(b) = 3 * G - 2)
  BY <1>1
<1>7. 3 * g + 3 <= Len(b) <=> ~(g = G - 1 /\ Len(b) # 3 * G)
  BY <1>1
<1>8. (~(3 * g + 3 <= Len(b)) => At(b, g, 3) = 0) /\ (~(3 * g + 2 <= Len(b)) => At(b, g, 2) = 0 /\ At(b, g, 3) = 0)
  BY <1>1 DEF At
<1>9. QED
  BY <1>4, <1>5, <1>6, <1>7, <1>8 DEF E, v

\* How many are padding.
LEMMA PaddingCount ==
  ASSUME NEW b \in Seq(Byte), NEW G \in Nat \ {0}, Y!EncodedCap(Len(b)) = 4 * G,
         Len(b) \in {3 * G - 2, 3 * G - 1, 3 * G}
  PROVE  Cardinality({i \in DOMAIN Y!Encode(b) : Y!Encode(b)[i] = 64}) = 3 * G - Len(b)
<1> DEFINE E == Y!Encode(b)
           pads == {i \in DOMAIN E : E[i] = 64}
<1>1. Len(b) \in Nat  OBVIOUS
<1>2. DOMAIN E = 1 .. 4 * G
  BY EncodeType, LenProperties
<1>3. ASSUME NEW g \in 0 .. G - 1
      PROVE  /\ E[4 * g + 1] # 64 /\ E[4 * g + 2] # 64
             /\ E[4 * g + 3] = 64 <=> g = G - 1 /\ Len(b) = 3 * G - 2
             /\ E[4 * g + 4] = 64 <=> g = G - 1 /\ Len(b) # 3 * G
  <2>1. PICK v : v = Value(b, g)  OBVIOUS
  <2>2. D0(v) \in Sixth /\ D1(v) \in Sixth /\ D2(v) \in Sixth /\ D3(v) \in Sixth
    BY <2>1, DigitsOfGroup
  <2>3. 64 \notin Sixth  BY DEF Sixth
  <2>4. QED  BY <2>1, <2>2, <2>3, PaddingAt
<1> HIDE DEF E
<1>4. ASSUME NEW i \in 1 .. 4 * G
      PROVE  E[i] = 64 <=> (i = 4 * G /\ Len(b) # 3 * G) \/ (i = 4 * G - 1 /\ Len(b) = 3 * G - 2)
  <2>1. PICK g \in Nat, d \in 0 .. 3 : 4 * g + d = i - 1
    <3>1. i - 1 \in Nat  OBVIOUS
    <3>2. QED  BY <3>1, DivMod4
  <2>2. g \in 0 .. G - 1  BY <2>1
  <2>3. CASE d = 0
    <3>1. i = 4 * g + 1  BY <2>1, <2>3
    <3>2. QED  BY <2>2, <3>1, <1>3
  <2>4. CASE d = 1
    <3>1. i = 4 * g + 2  BY <2>1, <2>4
    <3>2. QED  BY <2>2, <3>1, <1>3
  <2>5. CASE d = 2
    <3>1. i = 4 * g + 3  BY <2>1, <2>5
    <3>2. QED  BY <2>2, <3>1, <1>3
  <2>6. CASE d = 3
    <3>1. i = 4 * g + 4  BY <2>1, <2>6
    <3>2. QED  BY <2>2, <3>1, <1>3
  <2>7. QED  BY <2>3, <2>4, <2>5, <2>6
<1>5. CASE Len(b) = 3 * G
  <2>1. pads = {}  BY <1>2, <1>4, <1>5
  <2>2. Cardinality(pads) = 0  BY <2>1, FS_EmptySet
  <2>3. 3 * G - Len(b) = 0  BY <1>5
  <2>4. QED  BY <2>2, <2>3 DEF E
<1>6. CASE Len(b) = 3 * G - 1
  <2>1. pads = {4 * G}  BY <1>2, <1>4, <1>6
  <2>2. Cardinality(pads) = 1  BY <2>1, FS_Singleton
  <2>3. QED  BY <2>2, <1>6 DEF E
<1>7. CASE Len(b) = 3 * G - 2
  <2>1. pads = {4 * G - 1} \cup {4 * G}  BY <1>2, <1>4, <1>7
  <2>2. IsFiniteSet({4 * G - 1}) /\ Cardinality({4 * G - 1}) = 1  BY FS_Singleton
  <2>3. 4 * G \notin {4 * G - 1}  OBVIOUS
  <2>4. Cardinality(pads) = 2
    <3> DEFINE one == {4 * G - 1}
               last == 4 * G
    <3>1. IsFiniteSet(one) /\ Cardinality(one) = 1 /\ last \notin one  BY <2>2, <2>3
    <3> HIDE DEF one, last
    <3>2. Cardinality(one \cup {last}) = 2  BY <3>1, FS_AddElement
    <3>3. QED  BY <2>1, <3>2 DEF one, last
  <2>5. QED  BY <2>4, <1>7 DEF E
<1>8. QED  BY <1>5, <1>6, <1>7

\* Both are the one of FiniteSets.
LEMMA SameCardinality ==
  ASSUME NEW S
  PROVE  Y!Cardinality(S) = Cardinality(S)
BY DEF Y!Cardinality, Cardinality

\* A terminal reads from the text the bytes it was made of.
LEMMA DecodeEncode ==
  ASSUME NEW b \in Seq(Byte), b # <<>>
  PROVE  Y!Decode(Y!Encode(b)) = b
<1>1. Len(b) \in Nat \ {0}  BY EmptySeq
<1>2. PICK G \in Nat \ {0} : Y!EncodedCap(Len(b)) = 4 * G /\ Len(b) \in {3 * G - 2, 3 * G - 1, 3 * G}
  BY <1>1, GroupsOf
<1> DEFINE E == Y!Encode(b)
           at(i) == IF E[i] = 64 THEN 0 ELSE E[i]
           group(g) == 262144 * at(4 * g + 1) + 4096 * at(4 * g + 2) + 64 * at(4 * g + 3) + at(4 * g + 4)
           byte(i) == CASE (i - 1) % 3 = 0 -> B1(group((i - 1) \div 3))
                        [] (i - 1) % 3 = 1 -> B2(group((i - 1) \div 3))
                        [] (i - 1) % 3 = 2 -> B3(group((i - 1) \div 3))
<1>3. Len(E) = 4 * G  BY <1>2, EncodeType
<1>4. Y!Cardinality({i \in DOMAIN E : E[i] = 64}) = 3 * G - Len(b)
  <2>1. Cardinality({i \in DOMAIN E : E[i] = 64}) = 3 * G - Len(b)  BY <1>2, PaddingCount
  <2>2. QED  BY <2>1, SameCardinality
<1>5. Y!Decode(E) = [i \in 1 .. Len(b) |-> byte(i)]
  <2> DEFINE pads == Y!Cardinality({i \in DOMAIN E : E[i] = 64})
  <2>1. Y!Decode(E) = [i \in 1 .. 3 * (Len(E) \div 4) - pads |-> byte(i)]
    BY SMT DEF Y!Decode, Y!Pad, B1, B2, B3
  <2> HIDE DEF byte
  <2>2. 3 * (Len(E) \div 4) - pads = Len(b)  BY <1>1, <1>3, <1>4
  <2>3. QED  BY <2>1, <2>2
<1>6. ASSUME NEW g \in 0 .. G - 1
      PROVE  B1(group(g)) = At(b, g, 1) /\ B2(group(g)) = At(b, g, 2) /\ B3(group(g)) = At(b, g, 3)
  <2>1. PICK v : v = Value(b, g)  OBVIOUS
  <2>2. /\ D0(v) \in Sixth /\ D1(v) \in Sixth /\ D2(v) \in Sixth /\ D3(v) \in Sixth
        /\ OfDigits(v, D0(v), D1(v), D2(v), D3(v))
        /\ B1(v) = At(b, g, 1) /\ B2(v) = At(b, g, 2) /\ B3(v) = At(b, g, 3)
    BY <2>1, DigitsOfGroup
  <2>3. 64 \notin Sixth  BY DEF Sixth
  <2>4. at(4 * g + 1) = D0(v) /\ at(4 * g + 2) = D1(v) /\ at(4 * g + 3) = D2(v) /\ at(4 * g + 4) = D3(v)
    BY <1>2, <2>1, <2>2, <2>3, PaddingAt
  <2>5. group(g) = v
    <3> HIDE DEF at
    <3>1. PICK w0, w1, w2, w3 : w0 = D0(v) /\ w1 = D1(v) /\ w2 = D2(v) /\ w3 = D3(v)  OBVIOUS
    <3>2. OfDigits(v, w0, w1, w2, w3)  BY <2>2, <3>1
    <3>3. v = 262144 * w0 + 4096 * w1 + 64 * w2 + w3  BY <3>2, SMT DEF OfDigits
    <3>4. at(4 * g + 1) = w0 /\ at(4 * g + 2) = w1 /\ at(4 * g + 3) = w2 /\ at(4 * g + 4) = w3
      BY <2>4, <3>1
    <3>5. QED  BY <3>3, <3>4, SMT
  <2>6. QED  BY <2>2, <2>5
<1> HIDE DEF E, group
<1>7. ASSUME NEW i \in 1 .. Len(b) PROVE byte(i) = b[i]
  <2>1. i - 1 \in Nat  BY <1>1
  <2>2. PICK g \in Nat, r \in 0 .. 2 : g = (i - 1) \div 3 /\ r = (i - 1) % 3 /\ 3 * g + r = i - 1
    BY <2>1, DivMod3
  <2>3. g \in 0 .. G - 1  BY <1>2, <2>2
  <2>4. r \in {0, 1, 2} /\ i = 3 * g + r + 1  BY <2>2
  <2>5. CASE r = 0
    <3>1. byte(i) = B1(group(g))
      <4>1. (i - 1) % 3 = 0 /\ (i - 1) \div 3 = g  BY <2>2, <2>5
      <4>2. byte(i) = B1(group((i - 1) \div 3))  BY <4>1
      <4>3. QED  BY <4>1, <4>2
    <3>2. i = 3 * g + 1  BY <2>4, <2>5
    <3>3. At(b, g, 1) = b[i]  BY <3>2 DEF At
    <3>4. QED  BY <1>6, <2>3, <3>1, <3>3
  <2>6. CASE r = 1
    <3>1. byte(i) = B2(group(g))  BY <2>2, <2>6
    <3>2. i = 3 * g + 2  BY <2>4, <2>6
    <3>3. At(b, g, 2) = b[i]  BY <3>2 DEF At
    <3>4. QED  BY <1>6, <2>3, <3>1, <3>3
  <2>7. CASE r = 2
    <3>1. byte(i) = B3(group(g))  BY <2>2, <2>7
    <3>2. i = 3 * g + 3  BY <2>4, <2>7
    <3>3. At(b, g, 3) = b[i]  BY <3>2 DEF At
    <3>4. QED  BY <1>6, <2>3, <3>1, <3>3
  <2>8. QED  BY <2>4, <2>5, <2>6, <2>7
<1> HIDE DEF byte
<1>8. Y!Decode(E) = [i \in 1 .. Len(b) |-> b[i]]  BY <1>5, <1>7
<1>9. b = [i \in 1 .. Len(b) |-> b[i]]  BY LenProperties
<1>10. QED  BY <1>8, <1>9 DEF E

\* What is trimmed is the bytes before.
LEMMA TrimType ==
  ASSUME NEW s \in Seq(Byte)
  PROVE  Y!TrimEol(s) \in Seq(Byte) /\ Len(Y!TrimEol(s)) <= Len(s)
<1> DEFINE keep == {i \in DOMAIN s : s[i] \notin Y!Newlines}
<1>1. Len(s) \in Nat /\ DOMAIN s = 1 .. Len(s)  BY LenProperties
<1>2. CASE keep = {}
  <2>1. Y!TrimEol(s) = <<>>  BY <1>2 DEF Y!TrimEol
  <2>2. QED  BY <1>1, <2>1
<1>3. CASE keep # {}
  <2>1. keep \in SUBSET (0 .. Len(s))  BY <1>1
  <2>2. \E m \in keep : \A k \in keep : m >= k
    <3> HIDE DEF keep
    <3>1. QED  BY <1>1, <1>3, <2>1, GreatestOf
  <2>3. Y!Max(keep) \in keep  BY <2>2, Zenon DEF Y!Max
  <2>4. PICK m \in 1 .. Len(s) : m = Y!Max(keep)  BY <1>1, <2>3
  <2>5. Y!TrimEol(s) = SubSeq(s, 1, m)  BY <1>3, <2>4 DEF Y!TrimEol
  <2>6. QED  BY <1>1, <2>5
<1>4. QED  BY <1>2, <1>3

\* What is sent: the text of the bytes between what begins and ends it.
LEMMA BuildShape ==
  ASSUME NEW b \in Seq(Byte), b # <<>>, NEW o, o = Y!Osc52Build(b)
  PROVE  /\ o \in Seq(0 .. Y!Newline) /\ Len(o) = Y!EncodedCap(Len(b)) + 2
         /\ o[1] = Y!Prefix[1] /\ o[Len(o)] = Y!Suffix[1]
         /\ Y!Decode(SubSeq(o, 2, Len(o) - 1)) = b
<1> DEFINE S == 0 .. Y!Newline
           E == Y!Encode(b)
           cap == Y!EncodedCap(Len(b))
           pre == Y!Prefix \o E
<1>1. cap \in Nat /\ Len(E) = cap /\ E \in Seq(0 .. 64)  BY CapGrows, EncodeType
<1>2. E \in Seq(S)
  <2>1. 0 .. 64 \subseteq S  BY DEF Y!Newline
  <2> HIDE DEF S, E
  <2>2. QED  BY <1>1, <2>1, SeqMonotonic, Zenon
<1>3. /\ Y!Prefix \in Seq(S) /\ Len(Y!Prefix) = 1 /\ Y!Suffix \in Seq(S) /\ Len(Y!Suffix) = 1
  BY DEF Y!Prefix, Y!Suffix, Y!Newline
<1>4. o = pre \o Y!Suffix  BY DEF Y!Osc52Build
<1>5. Y!Decode(E) = b  BY DecodeEncode
<1> HIDE DEF S, E, cap
<1>6. /\ pre \in Seq(S) /\ Len(pre) = cap + 1
      /\ \A i \in 1 .. cap + 1 : pre[i] = IF i <= 1 THEN Y!Prefix[i] ELSE E[i - 1]
  <2>1. /\ pre \in Seq(S) /\ Len(pre) = Len(Y!Prefix) + Len(E)
        /\ \A i \in 1 .. Len(Y!Prefix) + Len(E) :
             pre[i] = IF i <= Len(Y!Prefix) THEN Y!Prefix[i] ELSE E[i - Len(Y!Prefix)]
    BY <1>2, <1>3, ConcatProperties, Zenon
  <2>2. Len(Y!Prefix) + Len(E) = cap + 1  BY <1>1, <1>3
  <2> HIDE DEF pre
  <2>3. QED  BY <1>3, <2>1, <2>2
<1> HIDE DEF pre
<1>7. /\ o \in Seq(S) /\ Len(o) = cap + 2
      /\ \A i \in 1 .. cap + 2 : o[i] = IF i <= cap + 1 THEN pre[i] ELSE Y!Suffix[i - (cap + 1)]
  <2>1. /\ o \in Seq(S) /\ Len(o) = Len(pre) + Len(Y!Suffix)
        /\ \A i \in 1 .. Len(pre) + Len(Y!Suffix) :
             o[i] = IF i <= Len(pre) THEN pre[i] ELSE Y!Suffix[i - Len(pre)]
    <3> DEFINE oo == pre \o Y!Suffix
    <3>1. /\ oo \in Seq(S) /\ Len(oo) = Len(pre) + Len(Y!Suffix)
          /\ \A i \in 1 .. Len(pre) + Len(Y!Suffix) :
               oo[i] = IF i <= Len(pre) THEN pre[i] ELSE Y!Suffix[i - Len(pre)]
      BY <1>3, <1>6, ConcatProperties, Zenon
    <3>2. o = oo  BY <1>4
    <3> HIDE DEF oo
    <3>3. QED  BY <3>1, <3>2, Zenon
  <2>2. Len(pre) + Len(Y!Suffix) = cap + 2  BY <1>1, <1>3, <1>6
  <2>3. QED  BY <1>6, <2>1, <2>2
<1>8. o[1] = Y!Prefix[1]  BY <1>1, <1>6, <1>7
<1>9. o[Len(o)] = Y!Suffix[1]
  <2>1. PICK k \in Nat : k = cap + 2  BY <1>1
  <2>2. k \in 1 .. cap + 2 /\ ~(k <= cap + 1) /\ k - (cap + 1) = 1  BY <1>1, <2>1
  <2>3. o[k] = Y!Suffix[k - (cap + 1)]  BY <1>7, <2>2
  <2>4. QED  BY <1>7, <2>1, <2>2, <2>3
<1>10. SubSeq(o, 2, Len(o) - 1) = E
  <2>1. PICK k \in Nat : k = cap + 1  BY <1>1
  <2> DEFINE mid == SubSeq(o, 2, k)
  <2>2. /\ mid \in Seq(S) /\ Len(mid) = IF 2 <= k THEN k - 2 + 1 ELSE 0
        /\ \A i \in 1 .. k - 2 + 1 : mid[i] = o[2 + i - 1]
    <3>1. 2 \in Int /\ k \in Int  OBVIOUS
    <3>2. \A i \in 2 .. k : o[i] \in S  BY <1>1, <1>7, <2>1
    <3>3. QED  BY <3>1, <3>2, SubSeqProperties
  <2> HIDE DEF mid
  <2>3. Len(mid) = cap  BY <1>1, <2>1, <2>2
  <2>4. ASSUME NEW i \in 1 .. cap PROVE mid[i] = E[i]
    <3>1. mid[i] = o[i + 1]
      <4>1. i \in 1 .. k - 2 + 1 /\ 2 + i - 1 = i + 1  BY <1>1, <2>1
      <4>2. QED  BY <2>2, <4>1
    <3>2. o[i + 1] = pre[i + 1]  BY <1>1, <1>7
    <3>3. pre[i + 1] = E[i]
      <4>1. pre[i + 1] = E[i + 1 - 1]  BY <1>1, <1>6
      <4>2. i + 1 - 1 = i  OBVIOUS
      <4>3. QED  BY <4>1, <4>2
    <3>4. QED  BY <3>1, <3>2, <3>3
  <2>5. mid = E  BY <1>1, <1>2, <2>2, <2>3, <2>4, SeqEqual
  <2>6. Len(o) - 1 = k  BY <1>1, <1>7, <2>1
  <2>7. QED  BY <2>5, <2>6 DEF mid
<1>11. QED
  BY <1>5, <1>7, <1>8, <1>9, <1>10 DEF S, E, cap

\* The first of a sequence.
LEMMA FirstOf ==
  ASSUME NEW S, NEW s \in Seq(S), NEW n \in 0 .. Len(s)
  PROVE  SubSeq(s, 1, n) \in Seq(S) /\ Len(SubSeq(s, 1, n)) = n
<1>1. Len(s) \in Nat /\ 1 \in Int /\ n \in Int  OBVIOUS
<1>2. \A i \in 1 .. n : s[i] \in S  BY <1>1
<1>3. SubSeq(s, 1, n) \in Seq(S) /\ Len(SubSeq(s, 1, n)) = IF 1 <= n THEN n - 1 + 1 ELSE 0
  BY <1>1, <1>2, SubSeqProperties
<1>4. (IF 1 <= n THEN n - 1 + 1 ELSE 0) = n  OBVIOUS
<1>5. QED  BY <1>3, <1>4

\* What the invariant says of the variables' types, with bytes for short.
LEMMA TypesOfCpy ==
  ASSUME Y!CpyAssumption, Y!TypeOK
  PROVE  /\ content \in Seq(Byte) /\ in \in Seq(Byte) /\ Len(content) \in Nat /\ Len(in) \in Nat
         /\ out \in Seq(0 .. Y!Newline) /\ written \in Seq(0 .. Y!Newline)
         /\ Len(out) \in Nat /\ Len(written) \in Nat /\ InMax \in Nat \ {0} /\ MaxChunk \in Nat \ {0}
         /\ Y!Wanted \in Seq(Byte) /\ Len(Y!Wanted) <= Len(content) /\ Len(Y!Wanted) \in Nat
<1>1. content \in Seq(Byte) /\ in \in Seq(Byte) /\ InMax \in Nat \ {0} /\ MaxChunk \in Nat \ {0}
  BY DEF Y!CpyAssumption, Y!TypeOK, Byte
<1>2. out \in Seq(0 .. Y!Newline) /\ written \in Seq(0 .. Y!Newline)
  BY DEF Y!TypeOK
<1>3. Len(content) \in Nat /\ Len(in) \in Nat /\ Len(out) \in Nat /\ Len(written) \in Nat
  BY <1>1, <1>2
<1>4. Y!Wanted \in Seq(Byte) /\ Len(Y!Wanted) <= Len(content)
  BY <1>1, <1>3, TrimType DEF Y!Wanted
<1>5. QED  BY <1>1, <1>2, <1>3, <1>4

\* With nothing left, the input is all of what there was to read.
LEMMA AllRead ==
  ASSUME Y!CpyAssumption, Y!TypeOK, Y!InputRead, Y!Left = 0
  PROVE  in = content
<1>1. Len(in) = Len(content)  BY TypesOfCpy DEF Y!Left
<1>2. in = SubSeq(content, 1, Len(content))  BY <1>1 DEF Y!InputRead
<1>3. QED  BY <1>2, TypesOfCpy, SubSeqFull

\* The invariant holds at the start.
LEMMA CpyInit ==
  ASSUME Y!CpyAssumption, Y!Init
  PROVE  Y!IInv
<1>1. Y!TypeOK
  BY DEF Y!Init, Y!TypeOK, Y!Sources
<1>2. content \in Seq(0 .. 255) /\ Len(content) \in Nat  BY DEF Y!CpyAssumption, Y!Init
<1>3. Y!InputRead
  <2>1. in = SubSeq(content, 1, 0) /\ Len(in) = 0  BY <1>2 DEF Y!Init
  <2>2. QED  BY <1>2, <2>1 DEF Y!Init, Y!InputRead, Y!CpyAssumption
<1>4. Y!OutputBuilt /\ Y!OutputWritten
  <2>1. out = <<>> /\ written = <<>> /\ cpyStage = "read"  BY DEF Y!Init
  <2>2. written = SubSeq(out, 1, Len(written)) /\ Len(written) <= Len(out)  BY <2>1
  <2>3. QED  BY <2>1, <2>2 DEF Y!OutputBuilt, Y!OutputWritten
<1>5. QED  BY <1>1, <1>3, <1>4 DEF Y!IInv

\* A read takes what follows.
LEMMA ReadInductive ==
  ASSUME Y!CpyAssumption, Y!IInv, Y!Read
  PROVE  Y!IInv'
<1>1. Y!TypeOK /\ Y!InputRead /\ Y!OutputBuilt /\ Y!OutputWritten  BY DEF Y!IInv
<1>2. cpyStage = "read" /\ UNCHANGED <<options, content, status, out, written>>  BY DEF Y!Read
<1>3. out = <<>>  BY <1>1, <1>2 DEF Y!OutputBuilt
<1>4. cpyStage' \in {"read", "check"}  BY <1>2 DEF Y!Read
<1>5. Y!OutputBuilt' /\ Y!OutputWritten'
  BY <1>1, <1>2, <1>3, <1>4 DEF Y!OutputBuilt, Y!OutputWritten
<1>6. CASE Len(in) < InMax /\ Y!Left > 0
  <2>1. PICK n \in 1 .. MaxChunk :
          /\ n <= Y!Left /\ n <= InMax - Len(in)
          /\ in' = in \o SubSeq(content, Len(in) + 1, Len(in) + n) /\ cpyStage' = cpyStage
    BY <1>6 DEF Y!Read
  <2>2. n \in Nat /\ Len(in) + n \in Len(in) .. Len(content) /\ Len(in) + n <= InMax
    BY <1>1, <2>1, TypesOfCpy DEF Y!Left
  <2>3. in = SubSeq(content, 1, Len(in))  BY <1>1 DEF Y!InputRead
  <2>4. in' = SubSeq(content, 1, Len(in) + n)
    <3>1. 1 \in 1 .. Len(content) + 1 /\ Len(in) \in 1 - 1 .. Len(content)
      BY <1>1, <2>2, TypesOfCpy
    <3>2. SubSeq(content, 1, Len(in)) \o SubSeq(content, Len(in) + 1, Len(in) + n) = SubSeq(content, 1, Len(in) + n)
      BY <1>1, <2>2, <3>1, TypesOfCpy, ConcatAdjacentSubSeq
    <3>3. QED  BY <2>1, <2>3, <3>2
  <2>5. in' \in Seq(0 .. 255) /\ Len(in') = Len(in) + n
    <3>1. content \in Seq(Byte) /\ Len(in) + n \in 0 .. Len(content)  BY <1>1, <2>2, TypesOfCpy
    <3>2. in' \in Seq(Byte) /\ Len(in') = Len(in) + n  BY <2>4, <3>1, FirstOf
    <3>3. QED  BY <3>2 DEF Byte
  <2>6. Y!TypeOK'  BY <1>1, <1>2, <1>4, <2>5 DEF Y!TypeOK
  <2>7. Y!InputRead'  BY <1>2, <2>1, <2>2, <2>4, <2>5 DEF Y!InputRead
  <2>8. QED  BY <1>5, <2>6, <2>7 DEF Y!IInv
<1>7. CASE ~(Len(in) < InMax /\ Y!Left > 0)
  <2>1. cpyStage' = "check" /\ in' = in  BY <1>7 DEF Y!Read
  <2>2. Len(in) = InMax \/ Y!Left = 0
    BY <1>1, <1>7, TypesOfCpy DEF Y!InputRead, Y!Left
  <2>3. Y!TypeOK'  BY <1>1, <1>2, <2>1 DEF Y!TypeOK
  <2>4. Y!InputRead'  BY <1>1, <1>2, <2>1, <2>2 DEF Y!InputRead, Y!Left
  <2>5. QED  BY <1>5, <2>3, <2>4 DEF Y!IInv
<1>8. QED  BY <1>6, <1>7

\* Steps that only go to another stage of what is left to do.
LEMMA DieInductive ==
  ASSUME Y!CpyAssumption, Y!IInv, Y!Die, cpyStage # "done"
  PROVE  Y!IInv'
BY DEF Y!Die, Y!IInv, Y!TypeOK, Y!InputRead, Y!Left, Y!OutputBuilt, Y!OutputWritten, Y!Wanted

\* Behind the end nothing is left, or it is too much.
LEMMA CheckEndInductive ==
  ASSUME Y!CpyAssumption, Y!IInv, Y!CheckEnd
  PROVE  Y!IInv'
<1>1. Y!TypeOK /\ Y!InputRead /\ Y!OutputBuilt /\ Y!OutputWritten  BY DEF Y!IInv
<1>2. cpyStage = "check"  BY DEF Y!CheckEnd
<1>3. CASE Len(in) = InMax /\ Y!Left > 0
  BY <1>2, <1>3, DieInductive DEF Y!CheckEnd
<1>4. CASE ~(Len(in) = InMax /\ Y!Left > 0)
  <2>1. /\ cpyStage' = IF options.source = "exec" THEN "wait" ELSE "build"
        /\ UNCHANGED <<options, content, status, in, out, written>>
    BY <1>4 DEF Y!CheckEnd
  <2>2. Y!Left = 0
    BY <1>1, <1>2, <1>4, TypesOfCpy DEF Y!InputRead, Y!Left
  <2>3. out = <<>>  BY <1>1, <1>2 DEF Y!OutputBuilt
  <2>4. Y!TypeOK'  BY <1>1, <2>1 DEF Y!TypeOK
  <2>5. Y!InputRead'  BY <1>1, <2>1, <2>2 DEF Y!InputRead, Y!Left
  <2>6. Y!OutputBuilt'  BY <2>1, <2>3 DEF Y!OutputBuilt
  <2>7. Y!OutputWritten'  BY <1>1, <1>2, <2>1 DEF Y!OutputWritten
  <2>8. QED  BY <2>4, <2>5, <2>6, <2>7 DEF Y!IInv
<1>5. QED  BY <1>3, <1>4

\* The command must have succeeded.
LEMMA WaitInductive ==
  ASSUME Y!CpyAssumption, Y!IInv, Y!Wait
  PROVE  Y!IInv'
<1>1. Y!TypeOK /\ Y!InputRead /\ Y!OutputBuilt /\ Y!OutputWritten  BY DEF Y!IInv
<1>2. cpyStage = "wait"  BY DEF Y!Wait
<1>3. CASE ~status
  BY <1>2, <1>3, DieInductive DEF Y!Wait
<1>4. CASE status
  <2>1. cpyStage' = "build" /\ UNCHANGED <<options, content, status, in, out, written>>
    BY <1>4 DEF Y!Wait
  <2>2. Y!Left = 0  BY <1>1, <1>2 DEF Y!InputRead
  <2>3. out = <<>>  BY <1>1, <1>2 DEF Y!OutputBuilt
  <2>4. Y!TypeOK'  BY <1>1, <2>1 DEF Y!TypeOK
  <2>5. Y!InputRead'  BY <1>1, <2>1, <2>2 DEF Y!InputRead, Y!Left
  <2>6. Y!OutputBuilt'  BY <1>4, <2>1, <2>3 DEF Y!OutputBuilt
  <2>7. Y!OutputWritten'  BY <1>1, <1>2, <2>1 DEF Y!OutputWritten
  <2>8. QED  BY <2>4, <2>5, <2>6, <2>7 DEF Y!IInv
<1>5. QED  BY <1>3, <1>4

\* What is built is the text of all of the input, trimmed if wanted.
LEMMA BuildInductive ==
  ASSUME Y!CpyAssumption, Y!IInv, Y!Build
  PROVE  Y!IInv'
<1>1. Y!TypeOK /\ Y!InputRead /\ Y!OutputBuilt /\ Y!OutputWritten  BY DEF Y!IInv
<1>2. cpyStage = "build"  BY DEF Y!Build
<1>3. Y!Left = 0 /\ in = content
  <2>1. Y!Left = 0  BY <1>1, <1>2 DEF Y!InputRead
  <2>2. QED  BY <1>1, <2>1, AllRead
<1>4. out = <<>> /\ (options.source = "exec" => status)
  BY <1>1, <1>2 DEF Y!OutputBuilt
<1>5. (IF options.keep THEN in ELSE Y!TrimEol(in)) = Y!Wanted
  BY <1>3 DEF Y!Wanted
<1>6. CASE Y!Wanted = <<>>
  <2>1. Y!Die  BY <1>5, <1>6 DEF Y!Build
  <2>2. QED  BY <1>2, <2>1, DieInductive
<1>7. CASE Y!Wanted # <<>>
  <2>1. /\ out' = Y!Osc52Build(Y!Wanted) /\ cpyStage' = "write"
        /\ UNCHANGED <<options, content, status, in, written>>
    BY <1>5, <1>7 DEF Y!Build
  <2>2. Y!Wanted' = Y!Wanted /\ Y!Left' = Y!Left  BY <2>1 DEF Y!Wanted, Y!Left
  <2>3. out' \in Seq(0 .. Y!Newline) /\ Len(out') \in Nat \ {0} /\ out' # <<>>
    <3>1. PICK o : o = Y!Osc52Build(Y!Wanted)  OBVIOUS
    <3>2. o \in Seq(0 .. Y!Newline) /\ Len(o) = Y!EncodedCap(Len(Y!Wanted)) + 2
      BY <1>1, <1>7, <3>1, TypesOfCpy, BuildShape
    <3>3. Y!EncodedCap(Len(Y!Wanted)) \in Nat  BY <1>1, TypesOfCpy, CapGrows
    <3>4. Len(o) \in Nat \ {0} /\ o # <<>>  BY <3>2, <3>3
    <3>5. QED  BY <2>1, <3>1, <3>2, <3>4
  <2>4. Y!TypeOK'  BY <1>1, <2>1, <2>3 DEF Y!TypeOK
  <2>5. Y!InputRead'  BY <1>1, <1>3, <2>1, <2>2 DEF Y!InputRead
  <2>6. Y!OutputBuilt'
    <3>1. out' = Y!Osc52Build(Y!Wanted')  BY <2>1, <2>2
    <3>2. QED  BY <1>3, <1>4, <1>7, <2>1, <2>2, <2>3, <3>1 DEF Y!OutputBuilt
  <2>7. Y!OutputWritten'
    <3>1. written = <<>>
      <4>1. Len(written) <= 0  BY <1>1, <1>2, <1>4 DEF Y!OutputWritten
      <4>2. QED  BY <1>1, <4>1, TypesOfCpy, EmptySeq
    <3>2. SubSeq(out', 1, 0) = <<>>  BY <2>3
    <3>3. QED  BY <2>1, <2>3, <3>1, <3>2 DEF Y!OutputWritten
  <2>8. QED  BY <2>4, <2>5, <2>6, <2>7 DEF Y!IInv
<1>8. QED  BY <1>6, <1>7

\* A write sends what follows.
LEMMA WriteInductive ==
  ASSUME Y!CpyAssumption, Y!IInv, Y!Write
  PROVE  Y!IInv'
<1>1. Y!TypeOK /\ Y!InputRead /\ Y!OutputBuilt /\ Y!OutputWritten  BY DEF Y!IInv
<1>2. cpyStage = "write" /\ Len(written) < Len(out)  BY DEF Y!Write
<1>3. CASE Y!Die
  BY <1>2, <1>3, DieInductive
<1>4. ASSUME NEW n \in 1 .. MaxChunk, n <= Len(out) - Len(written),
             written' = written \o SubSeq(out, Len(written) + 1, Len(written) + n),
             UNCHANGED <<cpyStage, options, content, status, in, out>>
      PROVE  Y!IInv'
  <2>1. n \in Nat /\ Len(written) + n \in Len(written) .. Len(out)
    BY <1>1, <1>4, TypesOfCpy
  <2>2. written = SubSeq(out, 1, Len(written))  BY <1>1, <1>2 DEF Y!OutputWritten
  <2>3. written' = SubSeq(out, 1, Len(written) + n)
    <3>1. 1 \in 1 .. Len(out) + 1 /\ Len(written) \in 1 - 1 .. Len(out)
      BY <1>1, <1>2, TypesOfCpy
    <3>2. SubSeq(out, 1, Len(written)) \o SubSeq(out, Len(written) + 1, Len(written) + n)
            = SubSeq(out, 1, Len(written) + n)
      BY <1>1, <2>1, <3>1, TypesOfCpy, ConcatAdjacentSubSeq
    <3>3. QED  BY <1>4, <2>2, <3>2
  <2>4. written' \in Seq(0 .. Y!Newline) /\ Len(written') = Len(written) + n
    <3>1. out \in Seq(0 .. Y!Newline) /\ Len(written) + n \in 0 .. Len(out)  BY <1>1, <2>1, TypesOfCpy
    <3>2. QED  BY <2>3, <3>1, FirstOf
  <2>5. Y!TypeOK'  BY <1>1, <1>4, <2>4 DEF Y!TypeOK
  <2>6. Y!InputRead'  BY <1>1, <1>4 DEF Y!InputRead, Y!Left
  <2>7. Y!OutputBuilt'  BY <1>1, <1>4 DEF Y!OutputBuilt, Y!Left, Y!Wanted
  <2>8. Y!OutputWritten'
    BY <1>1, <1>2, <1>4, <2>1, <2>3, <2>4 DEF Y!OutputWritten
  <2>9. QED  BY <2>5, <2>6, <2>7, <2>8 DEF Y!IInv
<1>5. QED  BY <1>3, <1>4 DEF Y!Write

\* The end, with or without its newline.
LEMMA EndInductive ==
  ASSUME Y!CpyAssumption, Y!IInv, Y!End
  PROVE  Y!IInv'
<1>1. Y!TypeOK /\ Y!InputRead /\ Y!OutputBuilt /\ Y!OutputWritten  BY DEF Y!IInv
<1>2. /\ cpyStage = "write" /\ written = out /\ cpyStage' = "done"
      /\ UNCHANGED <<options, content, status, in, out>>
      /\ written' = written \/ written' = Append(written, Y!Newline)
  BY DEF Y!End
<1>3. written' \in Seq(0 .. Y!Newline)
  <2>1. Y!Newline \in 0 .. Y!Newline  BY DEF Y!Newline
  <2>2. written \in Seq(0 .. Y!Newline)  BY <1>1, TypesOfCpy
  <2>3. Append(written, Y!Newline) \in Seq(0 .. Y!Newline)  BY <2>1, <2>2, AppendProperties
  <2>4. QED  BY <1>2, <2>2, <2>3
<1>4. Y!TypeOK'  BY <1>1, <1>2, <1>3 DEF Y!TypeOK
<1>5. Y!InputRead'  BY <1>1, <1>2 DEF Y!InputRead, Y!Left
<1>6. Y!OutputBuilt'  BY <1>1, <1>2 DEF Y!OutputBuilt, Y!Left, Y!Wanted
<1>7. Y!OutputWritten'
  <2>1. written = SubSeq(out, 1, Len(out))  BY <1>1, <1>2, TypesOfCpy, SubSeqFull
  <2>2. CASE written' = written
    BY <1>1, <1>2, <2>1, <2>2, TypesOfCpy DEF Y!OutputWritten
  <2>3. CASE written' = Append(written, Y!Newline)
    BY <1>2, <2>3 DEF Y!OutputWritten
  <2>4. QED  BY <1>2, <2>2, <2>3
<1>8. QED  BY <1>4, <1>5, <1>6, <1>7 DEF Y!IInv

\* What the invariant says of what has been sent.
LEMMA ClipboardFollows ==
  ASSUME Y!CpyAssumption, Y!IInv
  PROVE  Y!ClipboardIsInput
<1>1. Y!TypeOK /\ Y!InputRead /\ Y!OutputBuilt /\ Y!OutputWritten  BY DEF Y!IInv
<1>2. ASSUME out # <<>>
      PROVE  /\ Len(content) <= InMax /\ (options.source = "exec" => status)
             /\ Len(out) <= Y!OutMax /\ Len(out) \in Nat \ {0}
             /\ out[1] = Y!Prefix[1] /\ out[Len(out)] = Y!Suffix[1]
             /\ Y!Decode(SubSeq(out, 2, Len(out) - 1)) = Y!Wanted /\ Y!Wanted # <<>>
  <2>1. Y!Left = 0 /\ (options.source = "exec" => status) /\ Y!Wanted # <<>> /\ out = Y!Osc52Build(Y!Wanted)
    BY <1>1, <1>2 DEF Y!OutputBuilt
  <2>2. Len(content) <= InMax  BY <1>1, <2>1, TypesOfCpy DEF Y!InputRead, Y!Left
  <2>3. /\ Len(out) = Y!EncodedCap(Len(Y!Wanted)) + 2
        /\ out[1] = Y!Prefix[1] /\ out[Len(out)] = Y!Suffix[1]
        /\ Y!Decode(SubSeq(out, 2, Len(out) - 1)) = Y!Wanted
    BY <1>1, <2>1, TypesOfCpy, BuildShape
  <2>4. Y!EncodedCap(Len(Y!Wanted)) <= Y!EncodedCap(InMax) /\ Y!EncodedCap(Len(Y!Wanted)) \in Nat
    <3>1. Len(Y!Wanted) <= InMax  BY <1>1, <2>2, TypesOfCpy
    <3>2. QED  BY <1>1, <3>1, TypesOfCpy, CapGrows
  <2>5. Y!EncodedCap(InMax) \in Nat  BY <1>1, TypesOfCpy, CapGrows
  <2>6. Len(out) <= Y!OutMax /\ Len(out) \in Nat \ {0}
    <3>1. Y!OutMax = 1 + Y!EncodedCap(InMax) + 1  BY <2>5 DEF Y!OutMax, Y!Prefix
    <3>2. QED  BY <2>3, <2>4, <2>5, <3>1
  <2>7. QED  BY <2>1, <2>2, <2>3, <2>6
<1>3. ASSUME written # <<>>
      PROVE  out # <<>> /\ written \in {SubSeq(out, 1, n) : n \in 1 .. Len(out)} \cup {Append(out, Y!Newline)}
  <2>1. Len(written) \in Nat \ {0}  BY <1>1, <1>3, TypesOfCpy, EmptySeq
  <2>2. CASE Len(written) <= Len(out) /\ written = SubSeq(out, 1, Len(written))
    <3>1. Len(written) \in 1 .. Len(out)  BY <1>1, <2>1, <2>2, TypesOfCpy
    <3>2. out # <<>>  BY <3>1
    <3>3. written \in {SubSeq(out, 1, n) : n \in 1 .. Len(out)}  BY <2>2, <3>1, Zenon
    <3>4. QED  BY <3>2, <3>3
  <2>3. CASE cpyStage = "done" /\ written = Append(out, Y!Newline)
    BY <1>1, <2>3 DEF Y!OutputBuilt
  <2>4. QED  BY <1>1, <2>2, <2>3 DEF Y!OutputWritten
<1>4. cpyStage \in {"write", "done"} => out # <<>>  BY <1>1 DEF Y!OutputBuilt
<1>5. ASSUME cpyStage = "done" PROVE Len(written) >= Len(out)
  <2>1. CASE written = out  BY <1>1, <2>1, TypesOfCpy
  <2>2. CASE written = Append(out, Y!Newline)
    <3>1. Len(written) = Len(out) + 1  BY <1>1, <2>2, TypesOfCpy
    <3>2. QED  BY <1>1, <3>1, TypesOfCpy
  <2>3. QED  BY <1>1, <1>5, <2>1, <2>2 DEF Y!OutputWritten
<1>6. QED  BY <1>2, <1>3, <1>4, <1>5 DEF Y!ClipboardIsInput

\* What a terminal has when cpy ends well is all of the input, and of an input that
\* was too long or whose command has failed nothing is sent, whatever the input,
\* the size of the buffer and the chunks it is read and written in.
THEOREM ClipboardKept == Y!Spec => []ClipboardIsInput
<1> SUFFICES ASSUME Y!CpyAssumption PROVE Y!Spec => []ClipboardIsInput
  BY ProgramsAssumption
<1>1. Y!Init => Y!IInv  BY CpyInit
<1>2. Y!IInv /\ [Y!Next]_(Y!vars) => Y!IInv'
  <2> SUFFICES ASSUME Y!IInv, [Y!Next]_(Y!vars) PROVE Y!IInv'
    OBVIOUS
  <2>1. CASE Y!Read  BY <2>1, ReadInductive
  <2>2. CASE Y!CheckEnd  BY <2>2, CheckEndInductive
  <2>3. CASE Y!ReadFails  BY <2>3, DieInductive DEF Y!ReadFails
  <2>4. CASE Y!Wait  BY <2>4, WaitInductive
  <2>5. CASE Y!Build  BY <2>5, BuildInductive
  <2>6. CASE Y!Write  BY <2>6, WriteInductive
  <2>7. CASE Y!End  BY <2>7, EndInductive
  <2>8. CASE UNCHANGED Y!vars
    BY <2>8 DEF Y!vars, Y!IInv, Y!TypeOK, Y!InputRead, Y!Left, Y!OutputBuilt, Y!OutputWritten, Y!Wanted
  <2>9. QED  BY <2>1, <2>2, <2>3, <2>4, <2>5, <2>6, <2>7, <2>8 DEF Y!Next
<1>3. Y!IInv => ClipboardIsInput  BY ClipboardFollows DEF ClipboardIsInput
<1>4. QED  BY <1>1, <1>2, <1>3, PTL DEF Y!Spec

-----------------------------------------------------------------------------
(* ldap cache: LdapCache                                                   *)

\* A name is so many numbers.
LEMMA NameOf ==
  ASSUME NEW a \in L!Names
  PROVE  Len(a) \in Nat /\ \A i \in 1 .. Len(a) : a[i] \in Nat
BY ElementOfSeq, LenProperties DEF L!Names

\* Two names that are at most each other are the same.
LEMMA AtMostSame ==
  ASSUME NEW a \in L!Names, NEW b \in L!Names, L!AtMost(a, b), L!AtMost(b, a)
  PROVE  a = b
<1>0. /\ Len(a) \in Nat /\ \A i \in 1 .. Len(a) : a[i] \in Nat
      /\ Len(b) \in Nat /\ \A i \in 1 .. Len(b) : b[i] \in Nat
  BY NameOf
<1>1. PICK k \in 0 .. Len(a) :
        /\ \A i \in 1 .. k : i <= Len(b) /\ a[i] = b[i]
        /\ k = Len(a) \/ (k < Len(b) /\ a[k + 1] < b[k + 1])
  BY DEF L!AtMost
<1>2. PICK l \in 0 .. Len(b) :
        /\ \A i \in 1 .. l : i <= Len(a) /\ b[i] = a[i]
        /\ l = Len(b) \/ (l < Len(a) /\ b[l + 1] < a[l + 1])
  BY DEF L!AtMost
<1>3. k <= Len(b) /\ l <= Len(a)
  <2>1. k # 0 => k \in 1 .. k  BY <1>0
  <2>2. l # 0 => l \in 1 .. l  BY <1>0
  <2>3. QED  BY <2>1, <2>2, <1>0, <1>1, <1>2
<1>4. k = l
  <2>1. CASE k < l
    <3>1. k + 1 \in 1 .. l /\ k + 1 \in 1 .. Len(b) /\ k + 1 \in 1 .. Len(a)  BY <2>1, <1>0, <1>3
    <3>2. b[k + 1] = a[k + 1] /\ a[k + 1] \in Nat  BY <3>1, <1>0, <1>2
    <3>3. k # Len(a)  BY <3>1, <1>0
    <3>4. QED  BY <3>2, <3>3, <1>1
  <2>2. CASE l < k
    <3>1. l + 1 \in 1 .. k /\ l + 1 \in 1 .. Len(b) /\ l + 1 \in 1 .. Len(a)  BY <2>2, <1>0, <1>3
    <3>2. a[l + 1] = b[l + 1] /\ a[l + 1] \in Nat  BY <3>1, <1>0, <1>1
    <3>3. l # Len(b)  BY <3>1, <1>0
    <3>4. QED  BY <3>2, <3>3, <1>2
  <2>3. QED  BY <2>1, <2>2
<1>5. CASE k = Len(a) /\ k = Len(b)
  <2>1. Len(a) = Len(b) /\ \A i \in 1 .. Len(a) : a[i] = b[i]  BY <1>1, <1>5
  <2>2. QED  BY <2>1, SeqEqual DEF L!Names
<1>6. CASE k = Len(a) /\ k < Len(b)
  BY <1>0, <1>2, <1>4, <1>6
<1>7. CASE k < Len(b) /\ k < Len(a)
  <2>1. a[k + 1] < b[k + 1] /\ b[k + 1] < a[k + 1]  BY <1>1, <1>2, <1>4, <1>7
  <2>2. a[k + 1] \in Nat /\ b[k + 1] \in Nat  BY <1>0, <1>7
  <2>3. QED  BY <2>1, <2>2
<1>8. CASE k < Len(a) /\ k = Len(b)
  BY <1>0, <1>1, <1>4, <1>8
<1>9. QED  BY <1>0, <1>3, <1>4, <1>5, <1>6, <1>7, <1>8

\* A line that is read is cut to what fits.
LEMMA CutFits ==
  ASSUME L!LdapAssumption, NEW line \in L!Names
  PROVE  L!Cut(line) = <<>> \/ L!Cut(line) \in L!Fitting
<1> DEFINE m == L!Min({Len(line), MaxNameLen - 1})
<1>0. MaxNameLen \in Nat \ {0} /\ Len(line) \in Nat  BY NameOf DEF L!LdapAssumption
<1>1. m \in {Len(line), MaxNameLen - 1} /\ m <= Len(line) /\ m <= MaxNameLen - 1
  BY <1>0 DEF L!Min
<1>2. m \in Nat  BY <1>0, <1>1
<1> HIDE DEF m
<1>3. \A i \in 1 .. m : line[i] \in Nat  BY <1>0, <1>1, <1>2, NameOf
<1>4. SubSeq(line, 1, m) \in Seq(Nat) /\ Len(SubSeq(line, 1, m)) = IF 1 <= m THEN m - 1 + 1 ELSE 0
  BY <1>2, <1>3, SubSeqProperties
<1>5. L!Cut(line) = SubSeq(line, 1, m)  BY DEF L!Cut, m
<1>6. CASE m = 0
  <2>1. SubSeq(line, 1, m) = <<>>  BY <1>6, SubSeqEmpty
  <2>2. QED  BY <2>1, <1>5
<1>7. CASE m # 0
  <2>1. Len(SubSeq(line, 1, m)) \in 1 .. MaxNameLen - 1  BY <1>0, <1>1, <1>2, <1>4, <1>7
  <2>2. QED  BY <2>1, <1>4, <1>5 DEF L!Fitting, L!Names
<1>8. QED  BY <1>6, <1>7

\* What is read are at most so many users, whose names fit.
LEMMA UsersFit ==
  ASSUME L!LdapAssumption, NEW lines \in Seq(L!Names)
  PROVE  L!ReadUsers(lines) \in Seq(L!Fitting) /\ Len(L!ReadUsers(lines)) <= MaxUsers
<1> DEFINE n == Len(lines)
           T == {us \in Seq(L!Fitting) : Len(us) <= MaxUsers}
           Next(k, us) == IF L!Cut(lines[k]) = <<>> \/ Len(us) >= MaxUsers THEN us
                          ELSE Append(us, L!Cut(lines[k]))
           F(f) == [k \in 0 .. n |-> IF k = 0 THEN <<>> ELSE Next(k, f[k - 1])]
           step == [k \in 1 .. n |-> [us \in T |-> Next(k, us)]]
           read == CHOOSE f : f = F(f)
<1>0. n \in Nat /\ MaxUsers \in Nat \ {0}  BY LenProperties DEF L!LdapAssumption
<1>1. <<>> \in T  BY <1>0, EmptySeq
<1>2. ASSUME NEW k \in 1 .. n, NEW us \in T PROVE Next(k, us) \in T
  <2>1. lines[k] \in L!Names  BY ElementOfSeq
  <2>2. L!Cut(lines[k]) = <<>> \/ L!Cut(lines[k]) \in L!Fitting  BY <2>1, CutFits
  <2>3. us \in Seq(L!Fitting) /\ Len(us) \in Nat /\ Len(us) <= MaxUsers  BY LenProperties
  <2>4. CASE L!Cut(lines[k]) = <<>> \/ Len(us) >= MaxUsers  BY <2>4
  <2>5. CASE ~(L!Cut(lines[k]) = <<>> \/ Len(us) >= MaxUsers)
    <3>1. /\ Append(us, L!Cut(lines[k])) \in Seq(L!Fitting)
          /\ Len(Append(us, L!Cut(lines[k]))) = Len(us) + 1
      BY <2>2, <2>3, <2>5, AppendProperties
    <3>2. QED  BY <3>1, <2>3, <2>5, <1>0
  <2>6. QED  BY <2>4, <2>5
<1>3. PICK g : Iterates(g, step, <<>>, n, T)
  <2>1. StepsIn(step, n, T)  BY <1>2 DEF StepsIn
  <2> HIDE DEF step, T, n
  <2>2. QED  BY <1>0, <1>1, <2>1, Iterated
<1>4. \E f : f = F(f)
  <2>1. ASSUME NEW k \in 1 .. n PROVE g[k] = Next(k, g[k - 1])
    <3>1. k - 1 \in 0 .. n  BY <1>0
    <3>2. g[k - 1] \in T  BY <3>1, <1>3 DEF Iterates
    <3>3. step[k][g[k - 1]] = Next(k, g[k - 1])  BY <3>2
    <3>4. QED  BY <3>3, <1>3 DEF Iterates
  <2>2. g = F(g)
    <3> HIDE DEF Next, T
    <3>1. \A k \in 0 .. n : g[k] = IF k = 0 THEN <<>> ELSE Next(k, g[k - 1])
      BY <1>3, <2>1, <1>0 DEF Iterates
    <3>2. QED  BY <3>1, <1>3 DEF Iterates
  <2>3. QED  BY <2>2
<1>5. read = F(read)
  <2> HIDE DEF F
  <2>1. QED  BY <1>4
<1>6. L!ReadUsers(lines) = read[n]  BY DEF L!ReadUsers
<1> HIDE DEF read
<1>7. \A k \in 0 .. n : read[k] = IF k = 0 THEN <<>> ELSE Next(k, read[k - 1])
  <2> DEFINE Same(f, h) == f = h
  <2>1. Same(read, F(read))  BY <1>5
  <2> HIDE DEF Next
  <2>2. QED  BY <2>1, Zenon
<1> DEFINE S == {k \in 0 .. n : read[k] \in T}
<1>8. 0 .. n \subseteq S
  <2>1. 0 \in S
    <3>1. 0 \in 0 .. n  BY <1>0
    <3>2. read[0] = <<>>  BY <3>1, <1>7
    <3>3. QED  BY <3>1, <3>2, <1>1
  <2>2. ASSUME NEW k \in 1 .. n, k - 1 \in S PROVE k \in S
    <3>1. read[k] = Next(k, read[k - 1]) /\ read[k - 1] \in T /\ k \in 0 .. n  BY <1>0, <1>7, <2>2
    <3> HIDE DEF Next, T
    <3>2. QED  BY <3>1, <1>2
  <2> HIDE DEF S
  <2>3. QED  BY <1>0, <2>1, <2>2, Steps
<1>9. QED  BY <1>0, <1>6, <1>8

\* The table of groups, as far as it is filled.
Tables == {gs \in Seq([name : L!Fitting, members : SUBSET Nat]) : Len(gs) <= MaxGroups}

\* Each group of it has a name that fits and a set of members.
LEMMA TableOf ==
  ASSUME NEW gs \in Tables
  PROVE  /\ Len(gs) \in Nat /\ Len(gs) <= MaxGroups /\ DOMAIN gs = 1 .. Len(gs)
         /\ \A gi \in 1 .. Len(gs) : gs[gi] \in [name : L!Fitting, members : SUBSET Nat]
BY LenProperties, ElementOfSeq DEF Tables

\* The group of a name that the table has,
LEMMA GroupFound ==
  ASSUME NEW gs \in Tables, NEW name, L!GroupAt(gs, name) # {}
  PROVE  L!Min(L!GroupAt(gs, name)) \in 1 .. Len(gs) /\ gs[L!Min(L!GroupAt(gs, name))].name = name
<1>1. L!GroupAt(gs, name) \in SUBSET Nat  BY TableOf DEF L!GroupAt
<1>2. PICK m \in L!GroupAt(gs, name) : \A i \in L!GroupAt(gs, name) : m <= i  BY <1>1, LeastOf
<1>3. L!Min(L!GroupAt(gs, name)) \in L!GroupAt(gs, name)  BY <1>2 DEF L!Min
<1>4. QED  BY <1>3, TableOf DEF L!GroupAt

\* and what becomes of the table when a user has one group more: all stays as it
\* was, or the group gets a member, or there is a new group.
Stays(new, gs, dn) ==
  /\ new = gs
  /\ L!CnOk(dn) => Len(gs) = MaxGroups /\ \A gi \in 1 .. Len(gs) : gs[gi].name # dn.name
GetsMember(new, gs, dn, ui) ==
  /\ L!CnOk(dn) /\ Len(new) = Len(gs)
  /\ \E m \in 1 .. Len(gs) :
       /\ gs[m].name = dn.name /\ new[m].members = gs[m].members \cup {ui}
       /\ \A gi \in 1 .. Len(gs) : new[gi].name = gs[gi].name /\ (gi # m => new[gi] = gs[gi])
IsLonger(new, gs, dn, ui) ==
  /\ L!CnOk(dn) /\ Len(new) = Len(gs) + 1
  /\ \A gi \in 1 .. Len(gs) : gs[gi].name # dn.name /\ new[gi] = gs[gi]
  /\ new[Len(gs) + 1] = [name |-> dn.name, members |-> {ui}]
Added(new, gs, dn, ui) ==
  /\ new \in Tables
  /\ Stays(new, gs, dn) \/ GetsMember(new, gs, dn, ui) \/ IsLonger(new, gs, dn, ui)

\* One of the three happens to it,
LEMMA AddMembershipCases ==
  ASSUME L!LdapAssumption, NEW gs \in Tables, NEW dn \in L!Dns, NEW ui \in Nat
  PROVE  Added(L!AddMembership(gs, dn, ui), gs, dn, ui)
<1> DEFINE new == L!AddMembership(gs, dn, ui)
<1> SUFFICES new \in Tables
             /\ (Stays(new, gs, dn) \/ GetsMember(new, gs, dn, ui) \/ IsLonger(new, gs, dn, ui))
  BY DEF Added
<1> USE DEF Stays, GetsMember, IsLonger
<1>0. MaxGroups \in Nat  BY DEF L!LdapAssumption
<1>1. CASE ~L!CnOk(dn)  BY <1>1 DEF L!AddMembership
<1>2. CASE L!CnOk(dn) /\ L!GroupAt(gs, dn.name) # {}
  <2> DEFINE m == L!Min(L!GroupAt(gs, dn.name))
  <2>1. m \in 1 .. Len(gs) /\ gs[m].name = dn.name  BY <1>2, GroupFound
  <2>2. new = [gs EXCEPT ![m].members = @ \cup {ui}]  BY <1>2 DEF L!AddMembership
  <2> HIDE DEF m, new
  <2> DEFINE e == [gs[m] EXCEPT !.members = gs[m].members \cup {ui}]
  <2>3. gs[m] \in [name : L!Fitting, members : SUBSET Nat]  BY <2>1, TableOf
  <2>4. e \in [name : L!Fitting, members : SUBSET Nat]  BY <2>3
  <2>5. e.name = gs[m].name /\ e.members = gs[m].members \cup {ui}  BY <2>3
  <2>6. new = [gs EXCEPT ![m] = e]  BY <2>2
  <2> HIDE DEF e
  <2>7. gs \in Seq([name : L!Fitting, members : SUBSET Nat])  BY DEF Tables
  <2>8. /\ new \in Seq([name : L!Fitting, members : SUBSET Nat]) /\ Len(new) = Len(gs)
        /\ \A j \in 1 .. Len(gs) : new[j] = IF j = m THEN e ELSE gs[j]
    BY <2>1, <2>4, <2>6, <2>7, ExceptSeq
  <2>9. new \in Tables  BY <2>8, TableOf DEF Tables
  <2>10. QED  BY <1>2, <2>1, <2>5, <2>8, <2>9
<1>3. CASE L!CnOk(dn) /\ L!GroupAt(gs, dn.name) = {}
  <2>1. \A gi \in 1 .. Len(gs) : gs[gi].name # dn.name  BY <1>3, TableOf DEF L!GroupAt
  <2>2. CASE Len(gs) >= MaxGroups
    <3>1. Len(gs) = MaxGroups  BY <1>0, <2>2, TableOf
    <3>2. QED  BY <1>3, <2>1, <2>2, <3>1 DEF L!AddMembership
  <2>3. CASE ~(Len(gs) >= MaxGroups)
    <3> DEFINE e == [name |-> dn.name, members |-> {ui}]
    <3>1. dn.name \in L!Fitting  BY <1>3 DEF L!CnOk, L!Dns, L!Fitting
    <3>2. e \in [name : L!Fitting, members : SUBSET Nat]  BY <3>1
    <3>3. new = Append(gs, e)  BY <1>3, <2>3 DEF L!AddMembership
    <3> HIDE DEF e, new
    <3>4. gs \in Seq([name : L!Fitting, members : SUBSET Nat])  BY DEF Tables
    <3>5. /\ new \in Seq([name : L!Fitting, members : SUBSET Nat]) /\ Len(new) = Len(gs) + 1
          /\ \A i \in 1 .. Len(gs) : new[i] = gs[i]
          /\ new[Len(gs) + 1] = e
      BY <3>2, <3>3, <3>4, AppendProperties
    <3>6. new \in Tables  BY <3>5, <1>0, <2>3, TableOf DEF Tables
    <3>7. QED  BY <1>3, <2>1, <3>5, <3>6 DEF e
  <2>4. QED  BY <2>2, <2>3
<1>4. QED  BY <1>1, <1>2, <1>3

\* and it remains a table, no shorter than before.
LEMMA AddMembershipTable ==
  ASSUME L!LdapAssumption, NEW gs \in Tables, NEW dn \in L!Dns, NEW ui \in Nat
  PROVE  /\ L!AddMembership(gs, dn, ui) \in Tables
         /\ Len(L!AddMembership(gs, dn, ui)) >= Len(gs)
<1>1. Len(gs) \in Nat  BY TableOf
<1>2. Added(L!AddMembership(gs, dn, ui), gs, dn, ui)  BY AddMembershipCases
<1>3. QED  BY <1>1, <1>2 DEF Added, Stays, GetsMember, IsLonger

\* A user has been told of these groups as well.
ToldMore(told, more, ui, names) ==
  /\ ui \in DOMAIN told /\ DOMAIN more = DOMAIN told
  /\ \A u \in DOMAIN told : u # ui => more[u] = told[u]
  /\ more[ui] = told[ui] \cup names

\* What the table said before it says afterwards, and of this user one group more.
LEMMA MembershipSaid ==
  ASSUME L!LdapAssumption, NEW gs \in Tables, NEW dn \in L!Dns, NEW ui \in Nat,
         NEW new, new = L!AddMembership(gs, dn, ui), NEW told, NEW more,
         ToldMore(told, more, ui, IF L!CnOk(dn) THEN {dn.name} ELSE {}),
         L!TableSays(gs, told)
  PROVE  L!TableSays(new, more)
<1>0. /\ ui \in DOMAIN told /\ DOMAIN more = DOMAIN told
      /\ \A u \in DOMAIN told : u # ui => more[u] = told[u]
      /\ more[ui] = told[ui] \cup (IF L!CnOk(dn) THEN {dn.name} ELSE {})
  BY Zenon DEF ToldMore
<1> USE <1>0
<1>1. /\ \A gi, gj \in 1 .. Len(gs) : gs[gi].name = gs[gj].name => gi = gj
      /\ \A gi \in 1 .. Len(gs) : gs[gi].members = {u \in DOMAIN told : gs[gi].name \in told[u]}
      /\ \A u \in DOMAIN told :
           told[u] \subseteq {gs[gi].name : gi \in 1 .. Len(gs)} \/ Len(gs) = MaxGroups
  BY TableOf DEF L!TableSays, L!GroupNames
<1>2. new \in Tables /\ DOMAIN new = 1 .. Len(new) /\ Len(gs) \in Nat /\ Len(gs) <= MaxGroups
      /\ Len(new) \in Nat /\ Len(new) <= MaxGroups /\ MaxGroups \in Nat
  BY AddMembershipTable, TableOf DEF L!LdapAssumption
<1>3. Stays(new, gs, dn) \/ GetsMember(new, gs, dn, ui) \/ IsLonger(new, gs, dn, ui)
  <2>1. Added(L!AddMembership(gs, dn, ui), gs, dn, ui)  BY AddMembershipCases
  <2>2. QED  BY <2>1 DEF Added
<1> SUFFICES /\ \A gi, gj \in 1 .. Len(new) : new[gi].name = new[gj].name => gi = gj
             /\ \A gi \in 1 .. Len(new) : new[gi].members = {u \in DOMAIN told : new[gi].name \in more[u]}
             /\ \A u \in DOMAIN told :
                  more[u] \subseteq {new[gi].name : gi \in 1 .. Len(new)} \/ Len(new) = MaxGroups
  BY <1>2 DEF L!TableSays, L!GroupNames
<1>4. CASE Stays(new, gs, dn) /\ ~L!CnOk(dn)
  <2>1. \A u \in DOMAIN told : more[u] = told[u]  BY <1>4
  <2>2. QED  BY <2>1, <1>1, <1>4 DEF Stays
<1>5. CASE Stays(new, gs, dn) /\ L!CnOk(dn)
  <2>1. new = gs /\ Len(gs) = MaxGroups /\ \A gi \in 1 .. Len(gs) : gs[gi].name # dn.name
    BY <1>5 DEF Stays
  <2>2. ASSUME NEW gi \in 1 .. Len(gs), NEW u \in DOMAIN told
        PROVE  gs[gi].name \in more[u] <=> gs[gi].name \in told[u]
    BY <1>5, <2>1
  <2>3. QED  BY <2>1, <2>2, <1>1
<1>6. CASE L!CnOk(dn) /\ Len(new) = Len(gs) /\ GetsMember(new, gs, dn, ui)
  <2>1. PICK m \in 1 .. Len(gs) :
          /\ gs[m].name = dn.name /\ new[m].members = gs[m].members \cup {ui}
          /\ \A gi \in 1 .. Len(gs) :
               new[gi].name = gs[gi].name /\ (gi # m => new[gi] = gs[gi])
    BY <1>6 DEF GetsMember
  <2>2. more[ui] = told[ui] \cup {dn.name}  BY <1>6
  <2>3. \A gi, gj \in 1 .. Len(new) : new[gi].name = new[gj].name => gi = gj
    BY <1>1, <1>6, <2>1
  <2>4. ASSUME NEW gi \in 1 .. Len(new)
        PROVE  new[gi].members = {u \in DOMAIN told : new[gi].name \in more[u]}
    <3>1. gi \in 1 .. Len(gs) /\ new[gi].name = gs[gi].name  BY <1>6, <2>1
    <3>2. gs[gi].members = {u \in DOMAIN told : gs[gi].name \in told[u]}  BY <3>1, <1>1
    <3>3. CASE gi = m
      <4>1. new[gi].members = gs[gi].members \cup {ui} /\ new[gi].name = dn.name  BY <2>1, <3>3
      <4>2. QED  BY <3>1, <3>2, <4>1, <2>2
    <3>4. CASE gi # m
      <4>1. new[gi].members = gs[gi].members  BY <2>1, <3>1, <3>4
      <4>2. new[gi].name # dn.name  BY <1>1, <2>1, <3>1, <3>4
      <4>3. QED  BY <3>1, <3>2, <4>1, <4>2, <2>2
    <3>5. QED  BY <3>3, <3>4
  <2>5. ASSUME NEW u \in DOMAIN told, Len(new) # MaxGroups
        PROVE  more[u] \subseteq {new[gi].name : gi \in 1 .. Len(new)}
    <3>1. told[u] \subseteq {gs[gi].name : gi \in 1 .. Len(gs)}  BY <1>1, <1>6, <2>5
    <3>2. {gs[gi].name : gi \in 1 .. Len(gs)} = {new[gi].name : gi \in 1 .. Len(new)}
      BY <1>6, <2>1
    <3>3. dn.name \in {gs[gi].name : gi \in 1 .. Len(gs)}  BY <2>1
    <3>4. QED  BY <2>2, <3>1, <3>2, <3>3
  <2>6. QED  BY <2>3, <2>4, <2>5
<1>7. CASE /\ L!CnOk(dn) /\ Len(new) = Len(gs) + 1
           /\ \A gi \in 1 .. Len(gs) : gs[gi].name # dn.name /\ new[gi] = gs[gi]
           /\ new[Len(gs) + 1] = [name |-> dn.name, members |-> {ui}]
  <2>1. more[ui] = told[ui] \cup {dn.name}  BY <1>7
  <2>2. \A u \in DOMAIN told : told[u] \subseteq {gs[gi].name : gi \in 1 .. Len(gs)}
    BY <1>1, <1>2, <1>7
  <2>3. \A u \in DOMAIN told : dn.name \notin told[u]  BY <2>2, <1>7
  <2>4. \A gi \in 1 .. Len(new) : gi \in 1 .. Len(gs) \/ gi = Len(gs) + 1  BY <1>2, <1>7
  <2>5. new[Len(gs) + 1].name = dn.name /\ new[Len(gs) + 1].members = {ui}  BY <1>7
  <2>6. \A gi, gj \in 1 .. Len(new) : new[gi].name = new[gj].name => gi = gj
    BY <1>1, <1>7, <2>4, <2>5
  <2>7. ASSUME NEW gi \in 1 .. Len(new)
        PROVE  new[gi].members = {u \in DOMAIN told : new[gi].name \in more[u]}
    <3>1. CASE gi = Len(gs) + 1
      <4>1. \A u \in DOMAIN told : dn.name \in more[u] <=> u = ui  BY <2>1, <2>3
      <4>2. QED  BY <3>1, <4>1, <2>5
    <3>2. CASE gi \in 1 .. Len(gs)
      <4>1. new[gi] = gs[gi] /\ gs[gi].name # dn.name  BY <1>7, <3>2
      <4>2. gs[gi].members = {u \in DOMAIN told : gs[gi].name \in told[u]}  BY <3>2, <1>1
      <4>3. \A u \in DOMAIN told : gs[gi].name \in more[u] <=> gs[gi].name \in told[u]
        BY <4>1, <2>1
      <4>4. QED  BY <4>1, <4>2, <4>3
    <3>3. QED  BY <2>4, <3>1, <3>2
  <2>8. ASSUME NEW u \in DOMAIN told
        PROVE  more[u] \subseteq {new[gi].name : gi \in 1 .. Len(new)}
    <3>1. \A gi \in 1 .. Len(gs) : gi \in 1 .. Len(new) /\ new[gi].name = gs[gi].name
      BY <1>2, <1>7
    <3>2. Len(gs) + 1 \in 1 .. Len(new)  BY <1>2, <1>7
    <3>3. told[u] \subseteq {new[gi].name : gi \in 1 .. Len(new)}  BY <2>2, <3>1
    <3>4. dn.name \in {new[gi].name : gi \in 1 .. Len(new)}  BY <2>5, <3>2
    <3>5. QED  BY <2>1, <3>3, <3>4
  <2>9. QED  BY <2>6, <2>7, <2>8
<1>8. QED  BY <1>3, <1>4, <1>5, <1>6, <1>7 DEF GetsMember, IsLonger

\* It says the same of two alike.
LEMMA SaidAlike ==
  ASSUME NEW gs, NEW told, NEW more, DOMAIN more = DOMAIN told,
         \A u \in DOMAIN told : more[u] = told[u], L!TableSays(gs, told)
  PROVE  L!TableSays(gs, more)
BY DEF L!TableSays

\* When a user's whole answer has been gone through, the table says it too.
LEMMA AnswerSaid ==
  ASSUME L!LdapAssumption, NEW gs \in Tables, NEW answer \in Seq(L!Dns), NEW ui \in Nat,
         NEW told, NEW more, ui \in DOMAIN told, DOMAIN more = DOMAIN told,
         \A u \in DOMAIN told : u # ui => more[u] = told[u],
         told[ui] = {}, more[ui] = {dn.name : dn \in {d \in L!ToSet(answer) : L!CnOk(d)}},
         L!TableSays(gs, told)
  PROVE  /\ L!Memberships(gs, answer, ui) \in Tables
         /\ Len(L!Memberships(gs, answer, ui)) >= Len(gs)
         /\ L!TableSays(L!Memberships(gs, answer, ui), more)
<1> DEFINE n == Len(answer)
           Next(k, t) == L!AddMembership(t, answer[k], ui)
           F(f) == [k \in 0 .. n |-> IF k = 0 THEN gs ELSE Next(k, f[k - 1])]
           step == [k \in 1 .. n |-> [t \in Tables |-> Next(k, t)]]
           after == CHOOSE f : f = F(f)
<1>0. n \in Nat /\ DOMAIN answer = 1 .. n  BY LenProperties
<1>1. \A k \in 1 .. n : answer[k] \in L!Dns  BY ElementOfSeq
<1>2. ASSUME NEW k \in 1 .. n, NEW t \in Tables PROVE Next(k, t) \in Tables /\ Len(Next(k, t)) >= Len(t)
  BY <1>1, AddMembershipTable
<1>3. PICK g : Iterates(g, step, gs, n, Tables)
  <2>1. StepsIn(step, n, Tables)  BY <1>2 DEF StepsIn
  <2> HIDE DEF step, n
  <2>2. QED  BY <1>0, <2>1, Iterated
<1>4. \E f : f = F(f)
  <2>1. ASSUME NEW k \in 1 .. n PROVE g[k] = Next(k, g[k - 1])
    <3>1. k - 1 \in 0 .. n  BY <1>0
    <3>2. g[k - 1] \in Tables  BY <3>1, <1>3 DEF Iterates
    <3>3. step[k][g[k - 1]] = Next(k, g[k - 1])  BY <3>2
    <3>4. QED  BY <3>3, <1>3 DEF Iterates
  <2>2. g = F(g)
    <3> HIDE DEF Next
    <3>1. \A k \in 0 .. n : g[k] = IF k = 0 THEN gs ELSE Next(k, g[k - 1])
      BY <1>3, <2>1, <1>0 DEF Iterates
    <3>2. QED  BY <3>1, <1>3 DEF Iterates
  <2>3. QED  BY <2>2
<1>5. after = F(after)
  <2> HIDE DEF F
  <2>1. QED  BY <1>4
<1>6. L!Memberships(gs, answer, ui) = after[n]  BY DEF L!Memberships
<1> HIDE DEF after
<1>7. \A k \in 0 .. n : after[k] = IF k = 0 THEN gs ELSE Next(k, after[k - 1])
  <2> DEFINE Same(f, h) == f = h
  <2>1. Same(after, F(after))  BY <1>5
  <2> HIDE DEF Next
  <2>2. QED  BY <2>1, Zenon
<1> DEFINE Heard(k) == {answer[i].name : i \in {j \in 1 .. k : L!CnOk(answer[j])}}
           Upto(k) == [u \in DOMAIN told |-> IF u = ui THEN Heard(k) ELSE told[u]]
           Said(k) == after[k] \in Tables /\ Len(after[k]) >= Len(gs) /\ L!TableSays(after[k], Upto(k))
           S == {k \in 0 .. n : Said(k)}
<1>8. 0 \in S
  <2>1. 0 \in 0 .. n  BY <1>0
  <2>2. after[0] = gs  BY <2>1, <1>7
  <2>3. Heard(0) = {}  OBVIOUS
  <2>4. \A u \in DOMAIN told : Upto(0)[u] = told[u]  BY <2>3
  <2>5. DOMAIN Upto(0) = DOMAIN told  OBVIOUS
  <2> HIDE DEF Upto
  <2>6. L!TableSays(gs, Upto(0))  BY <2>4, <2>5, SaidAlike
  <2>7. Len(gs) \in Nat  BY TableOf
  <2>8. QED  BY <2>1, <2>2, <2>6, <2>7
<1>9. ASSUME NEW k \in 1 .. n, k - 1 \in S PROVE k \in S
  <2>1. k \in 0 .. n /\ k - 1 \in 0 .. n  BY <1>0
  <2>2. Said(k - 1)  BY <1>9
  <2>3. after[k] = L!AddMembership(after[k - 1], answer[k], ui)
    <3>1. k # 0  OBVIOUS
    <3> HIDE DEF Next
    <3>2. after[k] = Next(k, after[k - 1])  BY <2>1, <1>7, <3>1, Zenon
    <3>3. QED  BY <3>2 DEF Next
  <2>4. Heard(k) = Heard(k - 1) \cup (IF L!CnOk(answer[k]) THEN {answer[k].name} ELSE {})
    <3>1. \A i : i \in 1 .. k <=> i \in 1 .. k - 1 \/ i = k  BY <1>0
    <3> DEFINE J(m) == {j \in 1 .. m : L!CnOk(answer[j])}
    <3>2. J(k) = J(k - 1) \cup (IF L!CnOk(answer[k]) THEN {k} ELSE {})
      <4>1. \A i : i \in J(k) <=> i \in J(k - 1) \/ (i = k /\ L!CnOk(answer[i]))  BY <3>1
      <4> HIDE DEF J
      <4>2. QED  BY <4>1
    <3> HIDE DEF J
    <3>3. {answer[i].name : i \in J(k)}
            = {answer[i].name : i \in J(k - 1)} \cup (IF L!CnOk(answer[k]) THEN {answer[k].name} ELSE {})
      BY <3>2
    <3>4. QED  BY <3>3, Zenon DEF J
  <2> HIDE DEF Heard
  <2>5. /\ DOMAIN Upto(k) = DOMAIN Upto(k - 1) /\ ui \in DOMAIN Upto(k - 1)
        /\ \A u \in DOMAIN Upto(k - 1) : u # ui => Upto(k)[u] = Upto(k - 1)[u]
        /\ Upto(k)[ui] = Upto(k - 1)[ui] \cup (IF L!CnOk(answer[k]) THEN {answer[k].name} ELSE {})
    BY <2>4
  <2> HIDE DEF Upto
  <2>6. L!TableSays(after[k], Upto(k))
    <3> DEFINE old == after[k - 1]
               now == after[k]
               dn == answer[k]
               known == Upto(k - 1)
               heard == Upto(k)
    <3>1. old \in Tables /\ L!TableSays(old, known)  BY <2>2, Zenon
    <3>2. dn \in L!Dns  BY <1>1
    <3>3. ToldMore(known, heard, ui, IF L!CnOk(dn) THEN {dn.name} ELSE {})
      BY <2>5, Zenon DEF ToldMore
    <3>4. now = L!AddMembership(old, dn, ui)  BY <2>3, Zenon
    <3> HIDE DEF old, now, dn, known, heard
    <3>5. L!TableSays(now, heard)  BY <3>1, <3>2, <3>3, <3>4, MembershipSaid, Zenon
    <3>6. QED  BY <3>5, Zenon DEF now, heard
  <2>7. after[k] \in Tables /\ Len(after[k]) >= Len(after[k - 1])
    BY <1>1, <2>2, <2>3, AddMembershipTable
  <2>8. Len(after[k]) >= Len(gs)
    <3>1. Len(after[k]) \in Nat /\ Len(after[k - 1]) \in Nat /\ Len(gs) \in Nat
      BY <2>2, <2>7, TableOf
    <3>2. QED  BY <3>1, <2>2, <2>7
  <2>9. QED  BY <2>1, <2>6, <2>7, <2>8
<1>10. n \in S
  <2>1. 0 .. n \subseteq S
    <3> HIDE DEF S
    <3>1. QED  BY <1>0, <1>8, <1>9, Steps
  <2>2. n \in 0 .. n  BY <1>0
  <2> HIDE DEF S
  <2>3. QED  BY <2>1, <2>2
<1>11. Said(n)  BY <1>10
<1>12. Heard(n) = more[ui]
  BY <1>0 DEF L!ToSet
<1>13. DOMAIN more = DOMAIN Upto(n) /\ \A u \in DOMAIN Upto(n) : more[u] = Upto(n)[u]
  <2> HIDE DEF Heard
  <2>1. QED  BY <1>12
<1> HIDE DEF Upto
<1>14. L!TableSays(after[n], more)  BY <1>11, <1>13, SaidAlike
<1>15. QED  BY <1>6, <1>11, <1>14

\* An index in order, and the names it stands for.
LEMMA SortingOf ==
  ASSUME NEW n \in Nat, NEW names, NEW index, index \in L!Sortings([i \in 1 .. n |-> i], names)
  PROVE  /\ DOMAIN index = 1 .. n /\ Len(index) = n /\ \A i \in 1 .. n : index[i] \in 1 .. n
         /\ \A k \in 1 .. n : \E i \in 1 .. n : index[i] = k
         /\ \A i, j \in 1 .. n : i < j => L!AtMost(names[index[i]], names[index[j]])
<1>1. L!ToSet([i \in 1 .. n |-> i]) = 1 .. n  BY DEF L!ToSet
<1>2. /\ index \in [1 .. n -> 1 .. n] /\ L!ToSet(index) = 1 .. n
      /\ \A i, j \in 1 .. n : i < j => L!AtMost(names[index[i]], names[index[j]])
  BY <1>1 DEF L!Sortings
<1>3. DOMAIN index = 1 .. n /\ \A i \in 1 .. n : index[i] \in 1 .. n  BY <1>2
<1>4. {index[i] : i \in 1 .. n} = 1 .. n  BY <1>2, <1>3 DEF L!ToSet
<1>5. Len(index) = n
  <2>1. index \in Seq(1 .. n)  BY <1>2
  <2>2. DOMAIN index = 1 .. Len(index) /\ Len(index) \in Nat  BY <2>1, LenProperties
  <2>3. QED  BY <1>3, <2>2
<1>6. QED  BY <1>2, <1>3, <1>4, <1>5

\* What a search in it finds: an entry with that name, or 0 when there is none.
Found(index, names, key, r, lo, hi) ==
  \/ r = 0 /\ \A i \in lo .. hi : names[index[i]] # key
  \/ r \in 1 .. Len(index) /\ names[r] = key

\* Its bounds come together, and every entry it leaves outside has another name.
LEMMA BsearchFinds ==
  ASSUME NEW n \in Nat, NEW names, \A i \in 1 .. n : names[i] \in L!Names, NEW key \in L!Names,
         NEW index, index \in L!Sortings([i \in 1 .. n |-> i], names)
  PROVE  \/ L!Bsearch(index, names, key) = 0 /\ \A i \in 1 .. n : names[i] # key
         \/ L!Bsearch(index, names, key) \in 1 .. n /\ names[L!Bsearch(index, names, key)] = key
<1> DEFINE Mid(lo, hi) == (lo + hi) \div 2
           Search(f, lo, hi) ==
             IF lo > hi THEN 0
             ELSE IF names[index[Mid(lo, hi)]] = key THEN index[Mid(lo, hi)]
             ELSE IF L!AtMost(key, names[index[Mid(lo, hi)]]) THEN f[<<lo, Mid(lo, hi) - 1>>]
             ELSE f[<<Mid(lo, hi) + 1, hi>>]
           F(f) == [r \in (1 .. Len(index) + 1) \X (0 .. Len(index)) |-> Search(f, r[1], r[2])]
           find == CHOOSE f : f = F(f)
<1>0. Len(index) = n  BY SortingOf
<1>1. L!Bsearch(index, names, key) = find[<<1, Len(index)>>]  BY DEF L!Bsearch
<1> HIDE DEF Search, Mid
<1>2. ASSUME NEW lo \in 1 .. n + 1, NEW hi \in 0 .. n, lo <= hi
      PROVE  /\ Mid(lo, hi) \in lo .. hi /\ Mid(lo, hi) \in 1 .. n
             /\ Mid(lo, hi) - 1 \in 0 .. n /\ Mid(lo, hi) + 1 \in 1 .. n + 1
             /\ Mid(lo, hi) - 1 - lo < hi - lo /\ hi - (Mid(lo, hi) + 1) < hi - lo
  BY <1>2 DEF Mid
<1>3. ASSUME NEW lo \in 1 .. n + 1, NEW hi \in 0 .. n, NEW f, NEW g,
             \A l \in 1 .. n + 1, h \in 0 .. n : h - l < hi - lo => f[<<l, h>>] = g[<<l, h>>]
      PROVE  Search(f, lo, hi) = Search(g, lo, hi)
  <2>1. CASE lo > hi  BY <2>1 DEF Search
  <2>2. CASE lo <= hi
    <3>1. /\ Mid(lo, hi) - 1 \in 0 .. n /\ Mid(lo, hi) + 1 \in 1 .. n + 1
          /\ Mid(lo, hi) - 1 - lo < hi - lo /\ hi - (Mid(lo, hi) + 1) < hi - lo
      BY <1>2, <2>2
    <3>2. f[<<lo, Mid(lo, hi) - 1>>] = g[<<lo, Mid(lo, hi) - 1>>]  BY <1>3, <3>1
    <3>3. f[<<Mid(lo, hi) + 1, hi>>] = g[<<Mid(lo, hi) + 1, hi>>]  BY <1>3, <3>1
    <3>4. QED  BY <3>2, <3>3 DEF Search
  <2>3. QED  BY <2>1, <2>2
<1> DEFINE Sat(f, m) == \A lo \in 1 .. n + 1, hi \in 0 .. n : hi - lo < m => f[<<lo, hi>>] = Search(f, lo, hi)
           S == {m \in 0 .. n : \E f : Sat(f, m)}
<1>4. 0 \in S
  <2> DEFINE f == [r \in (1 .. n + 1) \X (0 .. n) |-> 0]
  <2>1. ASSUME NEW lo \in 1 .. n + 1, NEW hi \in 0 .. n, hi - lo < 0 PROVE f[<<lo, hi>>] = Search(f, lo, hi)
    BY <2>1 DEF Search
  <2>2. Sat(f, 0)  BY <2>1
  <2>3. 0 \in 0 .. n  OBVIOUS
  <2> HIDE DEF Sat
  <2>4. QED  BY <2>2, <2>3
<1>5. ASSUME NEW m \in 1 .. n, m - 1 \in S PROVE m \in S
  <2>1. PICK g : Sat(g, m - 1)  BY <1>5
  <2> DEFINE f == [r \in (1 .. n + 1) \X (0 .. n) |-> Search(g, r[1], r[2])]
  <2>2. \A lo \in 1 .. n + 1, hi \in 0 .. n : f[<<lo, hi>>] = Search(g, lo, hi)  OBVIOUS
  <2> HIDE DEF f
  <2>3. \A l \in 1 .. n + 1, h \in 0 .. n : h - l < m - 1 => f[<<l, h>>] = g[<<l, h>>]  BY <2>1, <2>2
  <2>4. ASSUME NEW lo \in 1 .. n + 1, NEW hi \in 0 .. n, hi - lo < m PROVE f[<<lo, hi>>] = Search(f, lo, hi)
    <3>1. \A l \in 1 .. n + 1, h \in 0 .. n : h - l < hi - lo => f[<<l, h>>] = g[<<l, h>>]  BY <2>3, <2>4
    <3>2. Search(f, lo, hi) = Search(g, lo, hi)  BY <3>1, <1>3
    <3>3. QED  BY <3>2, <2>2
  <2>5. Sat(f, m)  BY <2>4
  <2>6. m \in 0 .. n  OBVIOUS
  <2>7. QED  BY <2>5, <2>6
<1>6. \E f : f = F(f)
  <2>1. n \in S
    <3>1. n \in 0 .. n  OBVIOUS
    <3> HIDE DEF S
    <3>2. QED  BY <1>4, <1>5, <3>1, Steps
  <2>2. PICK g : Sat(g, n)  BY <2>1
  <2>3. ASSUME NEW lo \in 1 .. n + 1, NEW hi \in 0 .. n PROVE g[<<lo, hi>>] = Search(g, lo, hi)
    BY <2>2
  <2> DEFINE f == [r \in (1 .. n + 1) \X (0 .. n) |-> Search(g, r[1], r[2])]
  <2>4. \A lo \in 1 .. n + 1, hi \in 0 .. n : f[<<lo, hi>>] = Search(g, lo, hi)  OBVIOUS
  <2>5. f \in [(1 .. n + 1) \X (0 .. n) -> {Search(g, lo, hi) : lo \in 1 .. n + 1, hi \in 0 .. n}]  OBVIOUS
  <2> HIDE DEF f
  <2>6. ASSUME NEW lo \in 1 .. n + 1, NEW hi \in 0 .. n PROVE f[<<lo, hi>>] = Search(f, lo, hi)
    <3>1. \A l \in 1 .. n + 1, h \in 0 .. n : h - l < hi - lo => f[<<l, h>>] = g[<<l, h>>]  BY <2>3, <2>4
    <3>2. Search(f, lo, hi) = Search(g, lo, hi)  BY <3>1, <1>3
    <3>3. QED  BY <3>2, <2>4
  <2>7. F(f) \in [(1 .. n + 1) \X (0 .. n) -> {Search(f, lo, hi) : lo \in 1 .. n + 1, hi \in 0 .. n}]
        /\ \A lo \in 1 .. n + 1, hi \in 0 .. n : F(f)[<<lo, hi>>] = Search(f, lo, hi)
    BY <1>0
  <2> HIDE DEF F
  <2>8. \A p \in (1 .. n + 1) \X (0 .. n) : F(f)[p] = f[p]  BY <2>6, <2>7
  <2>9. F(f) = f  BY <2>5, <2>7, <2>8
  <2>10. QED  BY <2>9
<1>7. find = F(find)
  <2> HIDE DEF F
  <2>1. QED  BY <1>6
<1> HIDE DEF find
<1>8. \A lo \in 1 .. n + 1, hi \in 0 .. n : find[<<lo, hi>>] = Search(find, lo, hi)
  <2> DEFINE Same(f, h) == f = h
  <2>1. Same(find, F(find))  BY <1>7
  <2>2. \A lo \in 1 .. n + 1, hi \in 0 .. n : F(find)[<<lo, hi>>] = Search(find, lo, hi)  BY <1>0
  <2> HIDE DEF F
  <2>3. QED  BY <2>1, <2>2, Zenon
<1>9. /\ DOMAIN index = 1 .. n /\ \A i \in 1 .. n : index[i] \in 1 .. n
      /\ \A k \in 1 .. n : \E i \in 1 .. n : index[i] = k
      /\ \A i, j \in 1 .. n : i < j => L!AtMost(names[index[i]], names[index[j]])
  BY SortingOf
<1> DEFINE Right(lo, hi) == Found(index, names, key, find[<<lo, hi>>], lo, hi)
           R == {m \in 0 .. n : \A lo \in 1 .. n + 1, hi \in 0 .. n : hi - lo < m => Right(lo, hi)}
<1>10. 0 \in R
  <2>1. ASSUME NEW lo \in 1 .. n + 1, NEW hi \in 0 .. n, hi - lo < 0 PROVE Right(lo, hi)
    <3>1. find[<<lo, hi>>] = Search(find, lo, hi)  BY <1>8
    <3>2. Search(find, lo, hi) = 0  BY <2>1 DEF Search
    <3>3. QED  BY <2>1, <3>1, <3>2 DEF Found
  <2>2. QED  BY <2>1
<1>11. ASSUME NEW m \in 1 .. n, m - 1 \in R PROVE m \in R
  <2>1. \A lo \in 1 .. n + 1, hi \in 0 .. n : hi - lo < m - 1 => Right(lo, hi)  BY <1>11
  <2>2. ASSUME NEW lo \in 1 .. n + 1, NEW hi \in 0 .. n, hi - lo < m PROVE Right(lo, hi)
    <3>1. find[<<lo, hi>>] = Search(find, lo, hi)  BY <1>8
    <3>2. CASE lo > hi
      <4>1. Search(find, lo, hi) = 0  BY <3>2 DEF Search
      <4>2. QED  BY <3>1, <3>2, <4>1 DEF Found
    <3>3. CASE lo <= hi
      <4> DEFINE mid == Mid(lo, hi)
      <4>1. /\ mid \in lo .. hi /\ mid \in 1 .. n /\ mid - 1 \in 0 .. n /\ mid + 1 \in 1 .. n + 1
            /\ mid - 1 - lo < hi - lo /\ hi - (mid + 1) < hi - lo
        BY <1>2, <3>3
      <4>2. /\ index[mid] \in 1 .. n /\ names[index[mid]] \in L!Names
            /\ \A i \in lo .. hi : i \in 1 .. n
        <5> HIDE DEF mid
        <5>1. index[mid] \in 1 .. n  BY <4>1, <1>9
        <5>2. QED  BY <5>1
      <4>3. Search(find, lo, hi) =
              IF names[index[mid]] = key THEN index[mid]
              ELSE IF L!AtMost(key, names[index[mid]]) THEN find[<<lo, mid - 1>>] ELSE find[<<mid + 1, hi>>]
        BY <3>3 DEF Search
      <4> HIDE DEF mid
      <4>4. CASE names[index[mid]] = key  BY <1>0, <3>1, <4>2, <4>3, <4>4 DEF Found
      <4>5. CASE names[index[mid]] # key /\ L!AtMost(key, names[index[mid]])
        <5>1. find[<<lo, hi>>] = find[<<lo, mid - 1>>]  BY <3>1, <4>3, <4>5
        <5>2. Found(index, names, key, find[<<lo, mid - 1>>], lo, mid - 1)  BY <2>1, <2>2, <4>1
        <5>3. ASSUME NEW i \in lo .. hi, i >= mid PROVE names[index[i]] # key
          <6>1. CASE i = mid  BY <6>1, <4>5
          <6>2. CASE i # mid
            <7>1. i \in 1 .. n /\ mid < i  BY <4>1, <4>2, <5>3, <6>2
            <7>2. L!AtMost(names[index[mid]], names[index[i]])  BY <1>9, <4>1, <7>1
            <7>3. QED  BY <7>2, <4>2, <4>5, AtMostSame
          <6>3. QED  BY <6>1, <6>2
        <5>4. \A i \in lo .. hi : i \in lo .. mid - 1 \/ i >= mid  BY <4>1
        <5>5. QED  BY <5>1, <5>2, <5>3, <5>4 DEF Found
      <4>6. CASE names[index[mid]] # key /\ ~L!AtMost(key, names[index[mid]])
        <5>1. find[<<lo, hi>>] = find[<<mid + 1, hi>>]  BY <3>1, <4>3, <4>6
        <5>2. Found(index, names, key, find[<<mid + 1, hi>>], mid + 1, hi)  BY <2>1, <2>2, <4>1
        <5>3. ASSUME NEW i \in lo .. hi, i <= mid PROVE names[index[i]] # key
          <6>1. CASE i = mid  BY <6>1, <4>6
          <6>2. CASE i # mid
            <7>1. i \in 1 .. n /\ i < mid  BY <4>1, <4>2, <5>3, <6>2
            <7>2. L!AtMost(names[index[i]], names[index[mid]])  BY <1>9, <4>1, <7>1
            <7>3. QED  BY <7>2, <4>6
          <6>3. QED  BY <6>1, <6>2
        <5>4. \A i \in lo .. hi : i \in mid + 1 .. hi \/ i <= mid  BY <4>1
        <5>5. QED  BY <5>1, <5>2, <5>3, <5>4 DEF Found
      <4>7. QED  BY <4>4, <4>5, <4>6
    <3>4. QED  BY <3>2, <3>3
  <2>3. m \in 0 .. n  OBVIOUS
  <2>4. QED  BY <2>2, <2>3
<1>12. n \in R
  <2>1. n \in 0 .. n  OBVIOUS
  <2> HIDE DEF R
  <2>2. QED  BY <1>10, <1>11, <2>1, Steps
<1>13. Right(1, n)
  <2>1. 1 \in 1 .. n + 1 /\ n \in 0 .. n /\ n - 1 < n  OBVIOUS
  <2> HIDE DEF Right
  <2>2. QED  BY <1>12, <2>1
<1>14. Found(index, names, key, L!Bsearch(index, names, key), 1, n)  BY <1>0, <1>1, <1>13, Zenon
<1>15. ASSUME NEW k \in 1 .. n, \A i \in 1 .. n : names[index[i]] # key PROVE names[k] # key
  BY <1>9, <1>15, Zenon
<1> HIDE DEF find, F, S, R, Right
<1>16. QED  BY <1>0, <1>14, <1>15, Zenon DEF Found

\* A listing names each of the members, and as many as there are.
LEMMA MembersListed ==
  ASSUME users \in Seq(L!Fitting), NEW gi, groups[gi].members \in SUBSET (1 .. Len(users))
  PROVE  /\ L!ToSet(L!ListGroupMembers(gi)) = {users[ui] : ui \in groups[gi].members}
         /\ Len(L!ListGroupMembers(gi)) = Cardinality(groups[gi].members)
<1> DEFINE n == Len(users)
           T == Seq(L!Fitting)
           members == groups[gi].members
           Next(k, l) == IF k \in members THEN Append(l, users[k]) ELSE l
           F(f) == [k \in 0 .. n |-> IF k = 0 THEN <<>> ELSE Next(k, f[k - 1])]
           step == [k \in 1 .. n |-> [l \in T |-> Next(k, l)]]
           listed == CHOOSE f : f = F(f)
<1>0. n \in Nat /\ <<>> \in T  BY LenProperties, EmptySeq
<1>1. \A k \in 1 .. n : users[k] \in L!Fitting  BY ElementOfSeq
<1>2. ASSUME NEW k \in 1 .. n, NEW l \in T PROVE Next(k, l) \in T
  BY <1>1, AppendProperties
<1>3. PICK g : Iterates(g, step, <<>>, n, T)
  <2>1. StepsIn(step, n, T)  BY <1>2 DEF StepsIn
  <2> HIDE DEF step, T, n
  <2>2. QED  BY <1>0, <2>1, Iterated
<1>4. \E f : f = F(f)
  <2>1. ASSUME NEW k \in 1 .. n PROVE g[k] = Next(k, g[k - 1])
    <3>1. k - 1 \in 0 .. n  BY <1>0
    <3>2. g[k - 1] \in T  BY <3>1, <1>3 DEF Iterates
    <3>3. step[k][g[k - 1]] = Next(k, g[k - 1])  BY <3>2
    <3>4. QED  BY <3>3, <1>3 DEF Iterates
  <2>2. g = F(g)
    <3> HIDE DEF Next, T
    <3>1. \A k \in 0 .. n : g[k] = IF k = 0 THEN <<>> ELSE Next(k, g[k - 1])
      BY <1>3, <2>1, <1>0 DEF Iterates
    <3>2. QED  BY <3>1, <1>3 DEF Iterates
  <2>3. QED  BY <2>2
<1>5. listed = F(listed)
  <2> HIDE DEF F
  <2>1. QED  BY <1>4
<1>6. L!ListGroupMembers(gi) = listed[n]  BY DEF L!ListGroupMembers
<1> HIDE DEF listed
<1>7. \A k \in 0 .. n : listed[k] = IF k = 0 THEN <<>> ELSE Next(k, listed[k - 1])
  <2> DEFINE Same(f, h) == f = h
  <2>1. Same(listed, F(listed))  BY <1>5
  <2> HIDE DEF Next
  <2>2. QED  BY <2>1, Zenon
<1> DEFINE Below(k) == {ui \in members : ui <= k}
           Lists(k) == /\ listed[k] \in T /\ IsFiniteSet(Below(k)) /\ Len(listed[k]) = Cardinality(Below(k))
                       /\ {listed[k][i] : i \in 1 .. Len(listed[k])} = {users[ui] : ui \in Below(k)}
           S == {k \in 0 .. n : Lists(k)}
<1>8. 0 \in S
  <2>1. 0 \in 0 .. n  BY <1>0
  <2>2. listed[0] = <<>>  BY <2>1, <1>7
  <2>3. Below(0) = {}  OBVIOUS
  <2>4. Lists(0)
    <3>1. listed[0] \in T /\ Len(listed[0]) = 0  BY <1>0, <2>2
    <3>2. {listed[0][i] : i \in 1 .. Len(listed[0])} = {} /\ {users[ui] : ui \in Below(0)} = {}
      BY <2>3, <3>1
    <3>3. IsFiniteSet(Below(0)) /\ Cardinality(Below(0)) = 0  BY <2>3, FS_EmptySet
    <3> HIDE DEF Below, T
    <3>4. QED  BY <3>1, <3>2, <3>3
  <2> HIDE DEF Lists
  <2>5. QED  BY <2>1, <2>4
<1>9. ASSUME NEW k \in 1 .. n, k - 1 \in S PROVE k \in S
  <2>1. k \in 0 .. n /\ k - 1 \in 0 .. n /\ k # 0  BY <1>0
  <2>2. Lists(k - 1)  BY <1>9
  <2>3. listed[k] = Next(k, listed[k - 1])
    <3> HIDE DEF Next
    <3>1. QED  BY <2>1, <1>7, Zenon
  <2> DEFINE l == listed[k - 1]
  <2>4. CASE k \in members
    <3>1. listed[k] = Append(l, users[k])  BY <2>3, <2>4
    <3> HIDE DEF l
    <3>2. l \in T /\ users[k] \in L!Fitting  BY <2>2, <1>1 DEF l
    <3>3. /\ listed[k] \in T /\ Len(listed[k]) = Len(l) + 1 /\ Len(l) \in Nat
          /\ \A i \in 1 .. Len(l) : listed[k][i] = l[i]
          /\ listed[k][Len(l) + 1] = users[k]
      BY <3>1, <3>2, AppendProperties, LenProperties
    <3>4. Below(k) = Below(k - 1) \cup {k}
      <4>1. \A i \in members : i <= k <=> i <= k - 1 \/ i = k  OBVIOUS
      <4>2. QED  BY <2>4, <4>1
    <3>5. k \notin Below(k - 1)  OBVIOUS
    <3>6. IsFiniteSet(Below(k)) /\ Cardinality(Below(k)) = Cardinality(Below(k - 1)) + 1
      <4> DEFINE m == Below(k - 1)
      <4> HIDE DEF Below
      <4>1. IsFiniteSet(m) /\ k \notin m  BY <2>2, <3>5
      <4> HIDE DEF m
      <4>2. IsFiniteSet(m \cup {k}) /\ Cardinality(m \cup {k}) = Cardinality(m) + 1
        BY <4>1, FS_AddElement
      <4>3. QED  BY <4>2, <3>4 DEF m
    <3>7. {listed[k][i] : i \in 1 .. Len(listed[k])} = {users[ui] : ui \in Below(k)}
      <4>1. \A i : i \in 1 .. Len(listed[k]) <=> i \in 1 .. Len(l) \/ i = Len(l) + 1  BY <3>3
      <4>2. {listed[k][i] : i \in 1 .. Len(listed[k])} = {l[i] : i \in 1 .. Len(l)} \cup {users[k]}
        BY <3>3, <4>1
      <4>3. {l[i] : i \in 1 .. Len(l)} = {users[ui] : ui \in Below(k - 1)}  BY <2>2 DEF l
      <4> HIDE DEF Below
      <4>4. {users[ui] : ui \in Below(k)} = {users[ui] : ui \in Below(k - 1)} \cup {users[k]}  BY <3>4
      <4>5. QED  BY <4>2, <4>3, <4>4
    <3>8. Len(listed[k]) = Cardinality(Below(k))  BY <2>2, <3>3, <3>6 DEF l
    <3> HIDE DEF Below, T
    <3>9. Lists(k)  BY <3>3, <3>6, <3>7, <3>8
    <3> HIDE DEF Lists
    <3>10. QED  BY <2>1, <3>9
  <2>5. CASE k \notin members
    <3>1. listed[k] = l  BY <2>3, <2>5
    <3>2. Below(k) = Below(k - 1)
      <4>1. \A i \in members : i <= k <=> i <= k - 1  BY <2>5
      <4>2. QED  BY <4>1
    <3> HIDE DEF Below, T
    <3>3. Lists(k)  BY <2>2, <3>1, <3>2
    <3> HIDE DEF Lists
    <3>4. QED  BY <2>1, <3>3
  <2>6. QED  BY <2>4, <2>5
<1>10. n \in S
  <2>1. n \in 0 .. n  BY <1>0
  <2> HIDE DEF S
  <2>2. QED  BY <1>0, <1>8, <1>9, <2>1, Steps
<1>11. Lists(n)  BY <1>10
<1>12. Below(n) = members  OBVIOUS
<1>13. L!ToSet(listed[n]) = {listed[n][i] : i \in 1 .. Len(listed[n])}
  BY <1>11, LenProperties DEF L!ToSet
<1> HIDE DEF Below
<1>14. QED  BY <1>6, <1>11, <1>12, <1>13

\* In the beginning there is nothing.
LEMMA LdapInit == ASSUME L!LdapAssumption, L!Init PROVE L!IInv
<1>0. MaxUsers \in Nat /\ MaxGroups \in Nat  BY DEF L!LdapAssumption
<1>1. L!TypeOK
  <2>1. <<>> \in Seq(L!Fitting) /\ Len(<<>>) = 0  BY EmptySeq
  <2>2. <<>> \in Seq([name : L!Fitting, members : SUBSET Nat])  BY EmptySeq
  <2>3. <<>> \in Seq(Seq(L!Dns))  BY EmptySeq
  <2>4. QED  BY <1>0, <2>1, <2>2, <2>3 DEF L!Init, L!TypeOK
<1>2. DOMAIN users = {} /\ DOMAIN groups = {} /\ DOMAIN answered = {}  BY DEF L!Init
<1>3. L!TableSays(groups, [ui \in DOMAIN answered |-> L!Told(ui)])
  BY <1>2 DEF L!TableSays
<1>4. [i \in DOMAIN users |-> i] = <<>> /\ [i \in DOMAIN groups |-> i] = <<>>  BY <1>2
<1>5. L!Indexed  BY <1>4 DEF L!Init, L!Indexed
<1>6. QED  BY <1>1, <1>3, <1>5 DEF L!IInv

\* What is read from stdin fits, and the index of users names them in their order.
LEMMA LdapStart ==
  ASSUME L!LdapAssumption, L!IInv, NEW lines \in Inputs, NEW password \in BOOLEAN,
         NEW connects \in BOOLEAN, L!Start(lines, password, connects)
  PROVE  L!IInv'
<1>1. /\ ldapStage = "start" /\ users' = IF password THEN L!ReadUsers(lines) ELSE users
      /\ userIndex' = [i \in DOMAIN users' |-> i] /\ ldapStage' \in {"populate", "failed"}
      /\ groups' = groups /\ groupIndex' = groupIndex /\ answered' = answered
  BY DEF L!Start
<1>2. lines \in Seq(L!Names)  BY DEF L!LdapAssumption
<1>3. users' \in Seq(L!Fitting) /\ Len(users') <= MaxUsers
  BY <1>1, <1>2, UsersFit DEF L!IInv, L!TypeOK
<1>4. answered = <<>> /\ Len(users') \in Nat
  BY <1>1, <1>3, LenProperties DEF L!IInv, L!TypeOK
<1>5. L!TypeOK'  BY <1>1, <1>3, <1>4 DEF L!IInv, L!TypeOK
<1>6. L!TableSays(groups, [ui \in DOMAIN answered |-> L!Told(ui)])'
  BY <1>1 DEF L!IInv, L!Told
<1>7. L!Indexed'  BY <1>1 DEF L!IInv, L!Indexed
<1>8. QED  BY <1>5, <1>6, <1>7 DEF L!IInv

\* An answer makes the table say of the user what the directory has said, and its new
\* groups stand behind the others in the index.
LEMMA LdapPopulate ==
  ASSUME L!LdapAssumption, L!IInv, NEW answer \in Answers, L!PopulateUser(answer)
  PROVE  L!IInv'
<1> DEFINE ui == Len(answered) + 1
           told == [u \in DOMAIN answered |-> L!Told(u)]
           start == [u \in 1 .. ui |-> IF u = ui THEN {} ELSE told[u]]
           more == [u \in DOMAIN answered' |-> L!Told(u)']
<1>1. /\ ldapStage = "populate" /\ ldapStage' = ldapStage /\ users' = users /\ userIndex' = userIndex
      /\ ui <= Len(users) /\ groups' = L!Memberships(groups, answer, ui)
      /\ groupIndex' = groupIndex \o [i \in 1 .. Len(groups') - Len(groups) |-> Len(groups) + i]
      /\ answered' = Append(answered, answer)
  BY DEF L!PopulateUser
<1>2. /\ groups \in Tables /\ answered \in Seq(Seq(L!Dns)) /\ answer \in Seq(L!Dns)
      /\ users \in Seq(L!Fitting)
  BY DEF L!IInv, L!TypeOK, L!LdapAssumption, Tables
<1>3. /\ Len(answered) \in Nat /\ DOMAIN answered = 1 .. Len(answered) /\ ui \in Nat
      /\ Len(users) \in Nat
  BY <1>2, LenProperties
<1>4. /\ answered' \in Seq(Seq(L!Dns)) /\ Len(answered') = ui /\ DOMAIN answered' = 1 .. ui
      /\ \A u \in 1 .. Len(answered) : answered'[u] = answered[u]
      /\ answered'[ui] = answer
  <2>1. /\ Append(answered, answer) \in Seq(Seq(L!Dns))
        /\ Len(Append(answered, answer)) = Len(answered) + 1
        /\ \A u \in 1 .. Len(answered) : Append(answered, answer)[u] = answered[u]
        /\ Append(answered, answer)[Len(answered) + 1] = answer
    BY <1>2, AppendProperties
  <2>2. DOMAIN answered' = 1 .. Len(answered')  BY <1>1, <2>1, LenProperties
  <2>3. QED  BY <1>1, <2>1, <2>2
<1>5. /\ DOMAIN start = 1 .. ui /\ start[ui] = {}
      /\ \A u \in DOMAIN answered : u \in 1 .. ui /\ start[u] = told[u]
      /\ \A u \in 1 .. ui : u = ui \/ u \in DOMAIN answered
  BY <1>3
<1>6. /\ DOMAIN more = 1 .. ui /\ \A u \in 1 .. ui : u # ui => more[u] = start[u]
      /\ more[ui] = {dn.name : dn \in {d \in L!ToSet(answer) : L!CnOk(d)}}
  <2>1. DOMAIN more = 1 .. ui  BY <1>4
  <2>2. ASSUME NEW u \in 1 .. ui, u # ui PROVE more[u] = start[u]
    <3>1. u \in DOMAIN answered /\ u \in DOMAIN answered'  BY <1>3, <1>4, <2>2
    <3>2. more[u] = L!Told(u)' /\ start[u] = L!Told(u)  BY <3>1, <2>2
    <3>3. answered'[u] = answered[u]  BY <3>1, <1>3, <1>4
    <3>4. QED  BY <3>2, <3>3 DEF L!Told
  <2>3. more[ui] = {dn.name : dn \in {d \in L!ToSet(answer) : L!CnOk(d)}}
    <3>1. \A u \in DOMAIN answered' :
            more[u] = {dn.name : dn \in {d \in L!ToSet(answered'[u]) : L!CnOk(d)}}
      BY DEF L!Told
    <3>2. ui \in DOMAIN answered'  BY <1>3, <1>4
    <3>3. QED  BY <3>1, <3>2, <1>4
  <2>4. QED  BY <2>1, <2>2, <2>3
<1>7. L!TableSays(groups, told)  BY DEF L!IInv
<1> HIDE DEF start, more, told
<1>8. DOMAIN told = DOMAIN answered  BY DEF told
<1>9. L!TableSays(groups, start)
  <2>1. \A name : {u \in DOMAIN start : name \in start[u]} = {u \in DOMAIN told : name \in told[u]}
    BY <1>5, <1>8
  <2>2. QED  BY <2>1, <1>5, <1>7, <1>8 DEF L!TableSays
<1>10. groups' \in Tables /\ Len(groups') >= Len(groups) /\ L!TableSays(groups', more)
  <2>1. ui \in DOMAIN start /\ DOMAIN more = DOMAIN start
        /\ \A u \in DOMAIN start : u # ui => more[u] = start[u]
    BY <1>3, <1>5, <1>6
  <2> HIDE DEF ui
  <2>2. QED  BY <1>1, <1>2, <1>3, <1>5, <1>6, <1>9, <2>1, AnswerSaid
<1>11. L!TypeOK'
  BY <1>1, <1>4, <1>10 DEF L!IInv, L!TypeOK, Tables
<1>12. L!Indexed'
  <2>1. userIndex = [i \in DOMAIN users |-> i] /\ groupIndex = [i \in DOMAIN groups |-> i]
    BY <1>1 DEF L!IInv, L!Indexed
  <2> DEFINE a == Len(groups)  b == Len(groups')
             x == [i \in 1 .. a |-> i]
             y == [i \in 1 .. b - a |-> a + i]
             z == [i \in 1 .. b |-> i]
  <2>2. a \in Nat /\ b \in Nat /\ b >= a /\ DOMAIN groups = 1 .. a /\ DOMAIN groups' = 1 .. b
    BY <1>2, <1>10, TableOf
  <2>3. groupIndex' = x \o y  BY <1>1, <2>1, <2>2
  <2> HIDE DEF a, b
  <2>4. x \in Seq(Nat) /\ Len(x) = a /\ \A i \in 1 .. a : x[i] = i  BY <2>2
  <2>5. y \in Seq(Nat) /\ Len(y) = b - a /\ \A i \in 1 .. b - a : y[i] = a + i  BY <2>2
  <2>6. z \in Seq(Nat) /\ Len(z) = b /\ \A i \in 1 .. b : z[i] = i  BY <2>2
  <2> HIDE DEF x, y, z
  <2>7. x \o y \in Seq(Nat) /\ Len(x \o y) = a + (b - a)
        /\ \A i \in 1 .. a + (b - a) : (x \o y)[i] = IF i <= a THEN x[i] ELSE y[i - a]
    <3>1. /\ x \o y \in Seq(Nat) /\ Len(x \o y) = Len(x) + Len(y)
          /\ \A i \in 1 .. Len(x) + Len(y) : (x \o y)[i] = IF i <= Len(x) THEN x[i] ELSE y[i - Len(x)]
      BY <2>4, <2>5, ConcatProperties
    <3>2. QED  BY <3>1, <2>4, <2>5
  <2>8. \A i \in 1 .. b : (x \o y)[i] = z[i]
    <3>1. ASSUME NEW i \in 1 .. b PROVE (x \o y)[i] = z[i]
      <4>1. CASE i <= a  BY <4>1, <2>2, <2>4, <2>6, <2>7
      <4>2. CASE ~(i <= a)
        <5>1. i - a \in 1 .. b - a /\ i \in 1 .. a + (b - a)  BY <4>2, <2>2
        <5>2. (x \o y)[i] = y[i - a] /\ y[i - a] = a + (i - a)  BY <4>2, <5>1, <2>5, <2>7
        <5>3. QED  BY <5>2, <2>2, <2>6
      <4>3. QED  BY <4>1, <4>2
    <3>2. QED  BY <3>1
  <2>9. x \o y = z
    <3>1. Len(x \o y) = Len(z) /\ Len(z) = b  BY <2>2, <2>6, <2>7
    <3>2. \A i \in 1 .. Len(x \o y) : (x \o y)[i] = z[i]  BY <2>8, <3>1
    <3>3. QED  BY <3>1, <3>2, <2>6, <2>7, SeqEqual
  <2>10. groupIndex' = [i \in DOMAIN groups' |-> i]  BY <2>2, <2>3, <2>9 DEF z
  <2>11. QED  BY <1>1, <2>1, <2>10 DEF L!Indexed
<1>13. L!TableSays(groups, [u \in DOMAIN answered |-> L!Told(u)])'
  BY <1>10 DEF more
<1>14. QED  BY <1>11, <1>12, <1>13 DEF L!IInv

\* The sort changes nothing but the order of the indexes.
LEMMA LdapFinish == ASSUME L!IInv, L!Finish PROVE L!IInv'
<1>1. /\ ldapStage = "populate" /\ ldapStage' = "done" /\ Len(answered) = Len(users)
      /\ users' = users /\ groups' = groups /\ answered' = answered
      /\ userIndex' \in L!Sortings(userIndex, users)
      /\ groupIndex' \in L!Sortings(groupIndex, L!NamesOf(groups))
  BY DEF L!Finish
<1>2. userIndex = [i \in DOMAIN users |-> i] /\ groupIndex = [i \in DOMAIN groups |-> i]
  BY <1>1 DEF L!IInv, L!Indexed
<1>3. L!TypeOK'  BY <1>1 DEF L!IInv, L!TypeOK
<1>4. L!TableSays(groups, [u \in DOMAIN answered |-> L!Told(u)])'  BY <1>1 DEF L!IInv, L!Told
<1>5. L!Indexed'  BY <1>1, <1>2 DEF L!Indexed
<1>6. QED  BY <1>3, <1>4, <1>5 DEF L!IInv

\* With its indexes sorted, and both names and groups as the table says, the cache
\* answers as it was told.
LEMMA LdapFollows == ASSUME L!LdapAssumption, L!IInv PROVE L!CacheAsTold
<1> SUFFICES ASSUME ldapStage = "done" PROVE L!CacheAsTold  BY DEF L!CacheAsTold
<1> DEFINE un == Len(users)  gn == Len(groups)  names == L!NamesOf(groups)
<1>1. /\ users \in Seq(L!Fitting) /\ groups \in Tables /\ answered \in Seq(Seq(L!Dns))
      /\ Len(answered) = Len(users)
      /\ userIndex \in L!Sortings([i \in DOMAIN users |-> i], users)
      /\ groupIndex \in L!Sortings([i \in DOMAIN groups |-> i], names)
  BY DEF L!IInv, L!TypeOK, L!Indexed, Tables
<1>2. /\ un \in Nat /\ DOMAIN users = 1 .. un /\ \A i \in 1 .. un : users[i] \in L!Names
      /\ gn \in Nat /\ DOMAIN groups = 1 .. gn /\ DOMAIN answered = 1 .. un
      /\ \A gi \in 1 .. gn : groups[gi] \in [name : L!Fitting, members : SUBSET Nat]
  BY <1>1, LenProperties, ElementOfSeq, TableOf DEF L!Fitting
<1>3. \A gi \in 1 .. gn : names[gi] = groups[gi].name /\ names[gi] \in L!Names
  BY <1>2 DEF L!NamesOf, L!Fitting
<1>4. /\ \A gi, gj \in 1 .. gn : groups[gi].name = groups[gj].name => gi = gj
      /\ \A gi \in 1 .. gn : groups[gi].members = {u \in 1 .. un : groups[gi].name \in L!Told(u)}
      /\ \A u \in 1 .. un : L!Told(u) \subseteq L!GroupNames(groups) \/ Len(groups) = MaxGroups
  <2>1. L!TableSays(groups, [u \in DOMAIN answered |-> L!Told(u)])  BY DEF L!IInv
  <2> DEFINE told == [u \in DOMAIN answered |-> L!Told(u)]
  <2>2. DOMAIN told = 1 .. un /\ \A u \in 1 .. un : told[u] = L!Told(u)  BY <1>2
  <2>3. L!TableSays(groups, told)  BY <2>1
  <2> HIDE DEF told
  <2>4. ASSUME NEW gi \in 1 .. gn
        PROVE  groups[gi].members = {u \in 1 .. un : groups[gi].name \in L!Told(u)}
    BY <1>2, <2>2, <2>3 DEF L!TableSays
  <2>5. QED  BY <1>2, <2>2, <2>3, <2>4 DEF L!TableSays
<1>5. ASSUME NEW name \in L!Names
      PROVE  \/ L!LookupGroup(name) = 0 /\ \A gi \in 1 .. gn : groups[gi].name # name
             \/ L!LookupGroup(name) \in 1 .. gn /\ groups[L!LookupGroup(name)].name = name
  <2>1. groupIndex \in L!Sortings([i \in 1 .. gn |-> i], names)  BY <1>1, <1>2
  <2> DEFINE r == L!Bsearch(groupIndex, names, name)
  <2>2. L!LookupGroup(name) = r  BY DEF L!LookupGroup
  <2> HIDE DEF names
  <2>3. \/ (r = 0 /\ (\A i \in 1 .. gn : names[i] # name))
        \/ (r \in 1 .. gn /\ names[r] = name)
    <3>1. gn \in Nat /\ \A i \in 1 .. gn : names[i] \in L!Names  BY <1>2, <1>3
    <3> HIDE DEF gn
    <3>2. QED  BY <1>5, <2>1, <3>1, BsearchFinds
  <2>4. QED  BY <1>3, <2>2, <2>3
<1>6. ASSUME NEW name \in L!Names
      PROVE  \/ L!LookupUser(name) = 0 /\ \A i \in 1 .. un : users[i] # name
             \/ L!LookupUser(name) \in 1 .. un /\ users[L!LookupUser(name)] = name
  <2>1. userIndex \in L!Sortings([i \in 1 .. un |-> i], users)  BY <1>1, <1>2
  <2> DEFINE r == L!Bsearch(userIndex, users, name)
  <2>2. L!LookupUser(name) = r  BY DEF L!LookupUser
  <2>3. \/ (r = 0 /\ (\A i \in 1 .. un : users[i] # name))
        \/ (r \in 1 .. un /\ users[r] = name)
    <3>1. un \in Nat /\ \A i \in 1 .. un : users[i] \in L!Names  BY <1>2
    <3> HIDE DEF un
    <3>2. QED  BY <1>6, <2>1, <3>1, BsearchFinds
  <2>4. QED  BY <2>2, <2>3
<1>7. ASSUME NEW gi \in 1 .. gn
      PROVE  /\ groups[gi].members = {ui \in 1 .. un : groups[gi].name \in L!Told(ui)}
             /\ L!LookupGroup(groups[gi].name) = gi
             /\ L!ToSet(L!ListGroupMembers(gi)) = {users[ui] : ui \in groups[gi].members}
             /\ Len(L!ListGroupMembers(gi)) = Cardinality(groups[gi].members)
  <2>1. groups[gi].name \in L!Names  BY <1>3
  <2>2. L!LookupGroup(groups[gi].name) = gi  BY <1>4, <1>5, <2>1
  <2>3. groups[gi].members \in SUBSET (1 .. Len(users))  BY <1>4
  <2>4. QED  BY <1>1, <1>4, <2>2, <2>3, MembersListed
<1>8. ASSUME NEW ui \in 1 .. un
      PROVE  /\ L!Told(ui) \subseteq L!GroupNames(groups) \/ Len(groups) = MaxGroups
             /\ L!LookupUser(users[ui]) \in {i \in 1 .. un : users[i] = users[ui]}
  BY <1>2, <1>4, <1>6
<1>9. ASSUME NEW name \in Probes
      PROVE  /\ (L!LookupGroup(name) = 0) <=> (name \notin L!GroupNames(groups))
             /\ (L!LookupUser(name) = 0) <=> (name \notin L!ToSet(users))
  <2>1. name \in L!Names  BY DEF L!LdapAssumption
  <2>2. L!GroupNames(groups) = {groups[gi].name : gi \in 1 .. gn}  BY <1>2 DEF L!GroupNames
  <2>3. L!ToSet(users) = {users[i] : i \in 1 .. un}  BY <1>2 DEF L!ToSet
  <2>4. 0 \notin 1 .. gn /\ 0 \notin 1 .. un  BY <1>2
  <2>5. QED  BY <1>5, <1>6, <2>1, <2>2, <2>3, <2>4
<1>10. \A gi \in 1 .. gn : L!Cardinality(groups[gi].members) = Cardinality(groups[gi].members)
  BY DEF L!Cardinality, Cardinality
<1> HIDE DEF un, gn, names
<1>11. QED  BY <1>2, <1>7, <1>8, <1>9, <1>10 DEF L!CacheAsTold

\* Once it is built, the cache says of every user and every group what the directory
\* has said, short of groups that came when the table was full, and a binary search
\* of an index finds just the names that are there; and the table holds what it was
\* told at every step, within its limits, whatever the input and the answers.
THEOREM CacheRight == L!Spec => []CacheAsTold
<1> SUFFICES ASSUME L!LdapAssumption PROVE L!Spec => []CacheAsTold
  BY ProgramsAssumption
<1>1. L!Init => L!IInv  BY LdapInit
<1>2. L!IInv /\ [L!Next]_(L!vars) => L!IInv'
  <2> SUFFICES ASSUME L!IInv, [L!Next]_(L!vars) PROVE L!IInv'  OBVIOUS
  <2>1. CASE L!Next  BY <2>1, LdapStart, LdapPopulate, LdapFinish DEF L!Next
  <2>2. CASE UNCHANGED L!vars
    BY <2>2 DEF L!vars, L!IInv, L!TypeOK, L!Indexed, L!Told
  <2>3. QED  BY <2>1, <2>2
<1>3. L!IInv => CacheAsTold  BY LdapFollows DEF CacheAsTold
<1>4. QED  BY <1>1, <1>2, <1>3, PTL DEF L!Spec

-----------------------------------------------------------------------------
(* The text of hex (HexTools) and the uuids of uuid.cpp (Uuid)             *)

CONSTANTS Limit, Spaces   \* of HexTools

Hex == INSTANCE HexTools

Id == INSTANCE Uuid

\* The digits are the numerals and six letters, small or capital.
LEMMA DigitTables ==
  /\ \A j \in 1 .. 16 : Hex!Upper[j] = IF j = 11 THEN "A" ELSE IF j = 12 THEN "B"
        ELSE IF j = 13 THEN "C" ELSE IF j = 14 THEN "D" ELSE IF j = 15 THEN "E"
        ELSE IF j = 16 THEN "F" ELSE Hex!Lower[j]
  /\ Hex!Lower[1] = "0" /\ Hex!Lower[2] = "1" /\ Hex!Lower[3] = "2" /\ Hex!Lower[4] = "3"
  /\ Hex!Lower[5] = "4" /\ Hex!Lower[6] = "5" /\ Hex!Lower[7] = "6" /\ Hex!Lower[8] = "7"
  /\ Hex!Lower[9] = "8" /\ Hex!Lower[10] = "9" /\ Hex!Lower[11] = "a" /\ Hex!Lower[12] = "b"
  /\ Hex!Lower[13] = "c" /\ Hex!Lower[14] = "d" /\ Hex!Lower[15] = "e" /\ Hex!Lower[16] = "f"
<1>1. \A j \in 1 .. 16 : Hex!Upper[j] = IF j = 11 THEN "A" ELSE IF j = 12 THEN "B"
        ELSE IF j = 13 THEN "C" ELSE IF j = 14 THEN "D" ELSE IF j = 15 THEN "E"
        ELSE IF j = 16 THEN "F" ELSE Hex!Lower[j]
  BY DEF Hex!Upper, Hex!Lower
<1>2. QED  BY <1>1 DEF Hex!Lower

\* The sixteen digits, in either case, are characters of different values.
LEMMA DigitsDiffer ==
  ASSUME NEW i \in 1 .. 16, NEW k \in 1 .. 16,
         \/ Hex!Lower[k] \in {Hex!Lower[i], Hex!Upper[i]}
         \/ Hex!Upper[k] \in {Hex!Lower[i], Hex!Upper[i]}
  PROVE  i = k
BY DigitTables, SMTT(60)

\* A byte is read from its two digits.
LEMMA TwoDigits ==
  ASSUME NEW Chars, \A c : Hex!IsDigit(c) => c \in Chars,
         NEW b \in 0 .. 255, NEW table \in {Hex!Lower, Hex!Upper}
  PROVE  /\ Hex!Digits(table, b) \in Seq(Chars) /\ Len(Hex!Digits(table, b)) = 2
         /\ Hex!ByteOf(Hex!Digits(table, b)[1], Hex!Digits(table, b)[2]) = b
<1> DEFINE hi == b \div 16
           lo == b % 16
<1>1. hi \in 0 .. 15 /\ lo \in 0 .. 15 /\ 16 * hi + lo = b  OBVIOUS
<1>2. ASSUME NEW k \in 1 .. 16 PROVE table[k] \in Chars /\ Hex!DigitValue(table[k]) = k - 1
  <2>1. table[k] \in {Hex!Lower[k], Hex!Upper[k]}  OBVIOUS
  <2>2. k \in DOMAIN Hex!Lower /\ k \in DOMAIN Hex!Upper
    <3>1. k \in DOMAIN Hex!Lower  BY DEF Hex!Lower
    <3>2. QED  BY <3>1 DEF Hex!Upper
  <2>3. Hex!IsDigit(table[k])  BY <2>1, <2>2, Zenon DEF Hex!IsDigit, Hex!ToSet
  <2>4. \A i \in 1 .. 16 : table[k] \in {Hex!Lower[i], Hex!Upper[i]} => i = k
    BY <2>1, DigitsDiffer, Zenon
  <2>5. (CHOOSE i \in 1 .. 16 : table[k] \in {Hex!Lower[i], Hex!Upper[i]}) = k
    BY <2>1, <2>4, Zenon
  <2>6. Hex!DigitValue(table[k]) = k - 1  BY <2>3, <2>5, Zenon DEF Hex!DigitValue
  <2>7. QED  BY <2>3, <2>6
<1>3. /\ table[hi + 1] \in Chars /\ Hex!DigitValue(table[hi + 1]) = hi
      /\ table[lo + 1] \in Chars /\ Hex!DigitValue(table[lo + 1]) = lo
  <2>1. hi + 1 \in 1 .. 16 /\ lo + 1 \in 1 .. 16 /\ (hi + 1) - 1 = hi /\ (lo + 1) - 1 = lo
    BY <1>1
  <2> HIDE DEF hi, lo
  <2>2. QED  BY <1>2, <2>1
<1>4. Hex!Digits(table, b) = <<table[hi + 1], table[lo + 1]>>  BY DEF Hex!Digits
<1> HIDE DEF hi, lo
<1>5. Hex!Digits(table, b)[1] = table[hi + 1] /\ Hex!Digits(table, b)[2] = table[lo + 1]
  BY <1>4
<1>6. Hex!ByteOf(table[hi + 1], table[lo + 1]) = b  BY <1>1, <1>3 DEF Hex!ByteOf
<1>7. Hex!Digits(table, b) \in Seq(Chars) /\ Len(Hex!Digits(table, b)) = 2  BY <1>3, <1>4
<1>8. QED  BY <1>5, <1>6, <1>7

\* f[i] is what the first i pieces come to, of which text are all.
JoinedBy(f, pieces, n, T, text) ==
  /\ f \in [1 .. n -> Seq(T)]
  /\ f[1] = pieces[1] /\ \A i \in 2 .. n : f[i] = f[i - 1] \o pieces[i]
  /\ text = f[n]

\* What FlattenSeq joins is joined piece by piece.
LEMMA Flattened ==
  ASSUME NEW T, NEW n \in Nat \ {0}, NEW pieces \in [1 .. n -> Seq(T)]
  PROVE  \E f : JoinedBy(f, pieces, n, T, Hex!FlattenSeq(pieces))
<1> DEFINE S == Seq(T)
           F(f) == [i \in 1 .. n |-> IF i = 1 THEN pieces[i] ELSE f[i - 1] \o pieces[i]]
           step == [i \in 1 .. n |-> [s \in S |-> IF i = 1 THEN pieces[i] ELSE s \o pieces[i]]]
           flat == CHOOSE f : f = F(f)
<1>1. ASSUME NEW i \in 1 .. n, NEW s \in S
      PROVE  pieces[i] \in S /\ s \o pieces[i] \in S
  <2>1. pieces[i] \in Seq(T)  OBVIOUS
  <2>2. QED  BY <2>1, ConcatProperties
<1>2. PICK g : Iterates(g, step, <<>>, n, S)
  <2>1. StepsIn(step, n, S)  BY <1>1 DEF StepsIn
  <2>2. <<>> \in S  BY EmptySeq
  <2> HIDE DEF step, S
  <2>3. QED  BY <2>1, <2>2, Iterated
<1> DEFINE h == [i \in 1 .. n |-> g[i]]
<1>3. h \in [1 .. n -> S] /\ h = F(h)
  <2>1. \A i \in 1 .. n : i \in 0 .. n /\ i - 1 \in 0 .. n /\ (i # 1 => i - 1 \in 1 .. n)  OBVIOUS
  <2>2. \A i \in 1 .. n : g[i] \in S /\ g[i - 1] \in S  BY <1>2, <2>1 DEF Iterates
  <2>3. \A i \in 1 .. n : g[i] = step[i][g[i - 1]]  BY <1>2 DEF Iterates
  <2>4. \A i \in 1 .. n : g[i] = IF i = 1 THEN pieces[i] ELSE g[i - 1] \o pieces[i]  BY <2>2, <2>3
  <2> HIDE DEF S
  <2>5. \A i \in 1 .. n : h[i] = IF i = 1 THEN pieces[i] ELSE h[i - 1] \o pieces[i]  BY <2>1, <2>4
  <2>6. QED  BY <2>2, <2>5
<1>4. flat = F(flat)
  <2> HIDE DEF F, h, S
  <2>1. QED  BY <1>3
<1>5. Hex!FlattenSeq(pieces) = flat[n]
  <2>1. Len(pieces) = n  BY SeqDef, LenProperties
  <2>2. QED  BY <2>1 DEF Hex!FlattenSeq
<1> HIDE DEF flat
<1>6. \A i \in 1 .. n : flat[i] = IF i = 1 THEN pieces[i] ELSE flat[i - 1] \o pieces[i]
  <2> DEFINE Same(f, k) == f = k
  <2>1. Same(flat, F(flat))  BY <1>4
  <2>2. QED  BY <2>1, Zenon
<1>7. \A i \in 1 .. n : flat[i] \in S
  <2> DEFINE U == {i \in 0 .. n : i = 0 \/ flat[i] \in S}
  <2>1. 0 \in U  OBVIOUS
  <2>2. ASSUME NEW i \in 1 .. n, i - 1 \in U PROVE i \in U
    <3>1. pieces[i] \in S  BY EmptySeq, <1>1
    <3>2. CASE i = 1  BY <3>1, <3>2, <1>6
    <3>3. CASE i # 1
      <4>1. flat[i - 1] \in S  BY <2>2, <3>3
      <4>2. flat[i] = flat[i - 1] \o pieces[i]  BY <1>6, <3>3
      <4>3. flat[i] \in S  BY <4>1, <4>2, <1>1
      <4>4. QED  BY <4>3
    <3>4. QED  BY <3>2, <3>3
  <2> HIDE DEF U
  <2>3. 0 .. n \subseteq U  BY <2>1, <2>2, Steps
  <2>4. QED  BY <2>3 DEF U
<1>8. flat[1] = pieces[1] /\ \A i \in 2 .. n : flat[i] = flat[i - 1] \o pieces[i]
  <2> HIDE DEF S, F, step
  <2>1. \A i \in 2 .. n : i \in 1 .. n /\ i # 1  OBVIOUS
  <2>2. 1 \in 1 .. n  OBVIOUS
  <2>3. QED  BY <1>6, <2>1, <2>2
<1>9. flat \in [1 .. n -> Seq(T)]
  <2> DEFINE Same(f, k) == f = k
  <2>1. Same(flat, F(flat))  BY <1>4
  <2>2. QED  BY <1>4, <1>7
<1>10. QED  BY <1>5, <1>8, <1>9, Zenon DEF JoinedBy

\* Multiples of a number go up by it.
LEMMA Multiples ==
  ASSUME NEW s \in Nat
  PROVE  /\ \A k \in Nat : k * s \in Nat /\ (k + 1) * s = k * s + s
         /\ \A k \in Nat, i \in Nat : k < i => k * s + s <= i * s
<1>1. \A k \in Nat : k * s \in Nat /\ (k + 1) * s = k * s + s  OBVIOUS
<1>2. ASSUME NEW k \in Nat, NEW i \in Nat, k < i PROVE k * s + s <= i * s
  <2>1. i - (k + 1) \in Nat /\ i = (i - (k + 1)) + (k + 1)  BY <1>2
  <2>2. i * s = (i - (k + 1)) * s + (k + 1) * s  BY <2>1
  <2>3. (i - (k + 1)) * s \in Nat  BY <2>1
  <2>4. QED  BY <1>1, <2>2, <2>3
<1>3. QED  BY <1>1, <1>2

\* The first w characters of each piece stand at multiples of s.
Placed(text, pieces, n, s, w) ==
  /\ Len(text) = (n - 1) * s + w
  /\ \A k \in 1 .. n, c \in 1 .. w : text[(k - 1) * s + c] = pieces[k][c]

\* A text of equal pieces, but for the end of the last, holds each at its place.
LEMMA EqualPieces ==
  ASSUME NEW T, NEW n \in Nat \ {0}, NEW pieces \in [1 .. n -> Seq(T)],
         NEW f \in [1 .. n -> Seq(T)], f[1] = pieces[1],
         \A i \in 2 .. n : f[i] = f[i - 1] \o pieces[i],
         NEW s \in Nat \ {0}, NEW w \in 1 .. s,
         \A i \in 1 .. n : Len(pieces[i]) = IF i = n THEN w ELSE s
  PROVE  Placed(f[n], pieces, n, s, w)
<1> DEFINE Built(i) == /\ Len(f[i]) = (i - 1) * s + Len(pieces[i])
                       /\ \A k \in 1 .. i, c \in 1 .. w : f[i][(k - 1) * s + c] = pieces[k][c]
           U == {i \in 0 .. n : i # 0 => Built(i)}
<1>1. 0 \in U  OBVIOUS
<1>2. ASSUME NEW i \in 1 .. n, i - 1 \in U PROVE i \in U
  <2>1. CASE i = 1
    <3>1. (i - 1) * s = 0  BY <2>1
    <3>2. Len(pieces[1]) \in Nat  BY LenProperties
    <3>3. Len(f[i]) = (i - 1) * s + Len(pieces[i])  BY <2>1, <3>1, <3>2
    <3>4. ASSUME NEW k \in 1 .. i, NEW c \in 1 .. w PROVE f[i][(k - 1) * s + c] = pieces[k][c]
      <4>1. k = 1 /\ (k - 1) * s + c = c  BY <2>1, <3>1
      <4>2. QED  BY <2>1, <4>1
    <3>5. QED  BY <3>3, <3>4
  <2>2. CASE i # 1
    <3>1. i - 1 \in 1 .. n /\ i \in 2 .. n /\ i - 1 # n /\ i - 1 # 0  BY <2>2
    <3>2. Built(i - 1)  BY <1>2, <3>1
    <3>3. Len(pieces[i - 1]) = s  BY <3>1
    <3>4. ((i - 1) - 1) * s + s = (i - 1) * s /\ (i - 1) * s \in Nat
      <4>1. (i - 1) - 1 \in Nat /\ ((i - 1) - 1) + 1 = i - 1 /\ i - 1 \in Nat  BY <3>1
      <4>2. QED  BY <4>1, Multiples
    <3>5. Len(f[i - 1]) = (i - 1) * s  BY <3>2, <3>3, <3>4
    <3>6. f[i] = f[i - 1] \o pieces[i] /\ f[i - 1] \in Seq(T) /\ pieces[i] \in Seq(T)  BY <3>1
    <3>7. Len(f[i]) = (i - 1) * s + Len(pieces[i])
      <4>1. Len(f[i - 1] \o pieces[i]) = Len(f[i - 1]) + Len(pieces[i])  BY <3>6
      <4>2. QED  BY <3>5, <3>6, <4>1, Zenon
    <3>8. w <= Len(pieces[i])  OBVIOUS
    <3>9. ASSUME NEW k \in 1 .. i, NEW c \in 1 .. w PROVE f[i][(k - 1) * s + c] = pieces[k][c]
      <4>1. CASE k = i
        <5>1. c \in 1 .. Len(pieces[i])  BY <3>6, <3>8, LenProperties
        <5>2. f[i][Len(f[i - 1]) + c] = pieces[i][c]
          BY <3>6, <5>1
        <5>3. QED  BY <3>5, <4>1, <5>2
      <4>2. CASE k # i
        <5>1. k \in 1 .. i - 1 /\ k - 1 \in Nat /\ i - 1 \in Nat /\ k - 1 < i - 1  BY <4>2
        <5>2. (k - 1) * s \in Nat /\ (k - 1) * s + s <= (i - 1) * s  BY <5>1, Multiples
        <5> DEFINE at == (k - 1) * s
                   end == (i - 1) * s
        <5> HIDE DEF at, end
        <5>3. at + c \in 1 .. end
          <6>1. at \in Nat /\ end \in Nat /\ at + s <= end  BY <3>4, <5>2 DEF at, end
          <6>2. QED  BY <6>1
        <5>4. at + c \in 1 .. Len(f[i - 1])  BY <5>3, <3>5 DEF end
        <5>5. (f[i - 1] \o pieces[i])[at + c] = f[i - 1][at + c]  BY <3>6, <5>4
        <5>6. f[i - 1][at + c] = pieces[k][c]  BY <3>2, <5>1 DEF at
        <5>7. QED  BY <3>6, <5>5, <5>6 DEF at
      <4>3. QED  BY <4>1, <4>2
    <3>10. QED  BY <3>7, <3>9
  <2>3. QED  BY <2>1, <2>2
<1>3. 0 .. n \subseteq U
  <2> HIDE DEF U
  <2>1. QED  BY <1>1, <1>2, Steps
<1>4. Built(n)
  <2>1. n \in 0 .. n /\ n # 0  OBVIOUS
  <2> HIDE DEF Built
  <2>2. QED  BY <1>3, <2>1, Zenon
<1>5. Len(pieces[n]) = w  OBVIOUS
<1>6. QED  BY <1>4, <1>5 DEF Placed

\* So does what FlattenSeq makes of them.
LEMMA PiecesJoined ==
  ASSUME NEW T, NEW n \in Nat \ {0}, NEW pieces \in [1 .. n -> Seq(T)],
         NEW s \in Nat \ {0}, NEW w \in 1 .. s,
         \A i \in 1 .. n : Len(pieces[i]) = IF i = n THEN w ELSE s
  PROVE  Placed(Hex!FlattenSeq(pieces), pieces, n, s, w)
<1>1. PICK f : JoinedBy(f, pieces, n, T, Hex!FlattenSeq(pieces))
  BY Flattened, Zenon
<1>2. Placed(f[n], pieces, n, s, w)  BY <1>1, EqualPieces, Zenon DEF JoinedBy
<1>3. QED  BY <1>1, <1>2, Zenon DEF JoinedBy

\* A multiple is divided without a rest.
LEMMA QuotientUnique ==
  ASSUME NEW c \in Nat \ {0}, NEW q \in Nat
  PROVE  (q * c) % c = 0 /\ (q * c) \div c = q
BY SMTT(20)

\* What joins a, d and z, as far as it is needed.
Parted(piece, a, d, z, T) ==
  /\ piece \in Seq(T) /\ Len(piece) = Len(a) + 2 + Len(z)
  /\ piece[Len(a) + 1] = d[1] /\ piece[Len(a) + 2] = d[2]

\* A piece of three parts, the middle one of two characters.
LEMMA ThreeParts ==
  ASSUME NEW T, NEW a \in Seq(T), NEW d \in Seq(T), NEW z \in Seq(T), Len(d) = 2
  PROVE  Parted((a \o d) \o z, a, d, z, T)
<1> DEFINE h == a \o d
           m == Len(a)
           k == Len(z)
<1>1. m \in Nat /\ k \in Nat  BY LenProperties
<1>2. /\ h \in Seq(T) /\ Len(h) = m + Len(d)
      /\ \A i \in 1 .. m + Len(d) : h[i] = IF i <= m THEN a[i] ELSE d[i - m]
  BY ConcatProperties, Zenon
<1>3. /\ h \o z \in Seq(T) /\ Len(h \o z) = Len(h) + k
      /\ \A i \in 1 .. Len(h) + k : (h \o z)[i] = IF i <= Len(h) THEN h[i] ELSE z[i - Len(h)]
  <2>1. h \in Seq(T)  BY <1>2
  <2> HIDE DEF h
  <2>2. QED  BY <2>1, ConcatProperties, Zenon
<1> HIDE DEF h, m, k
<1>4. Len(h) = m + 2  BY <1>2
<1>5. m + 1 \in 1 .. m + 2 /\ m + 2 \in 1 .. m + 2 /\ ~(m + 1 <= m) /\ ~(m + 2 <= m)
      /\ (m + 1) - m = 1 /\ (m + 2) - m = 2
  BY <1>1
<1>6. h[m + 1] = d[1] /\ h[m + 2] = d[2]  BY <1>2, <1>5
<1>7. m + 1 \in 1 .. m + 2 + k /\ m + 2 \in 1 .. m + 2 + k /\ m + 1 <= m + 2 /\ m + 2 <= m + 2
  BY <1>1
<1>8. (h \o z)[m + 1] = h[m + 1] /\ (h \o z)[m + 2] = h[m + 2]  BY <1>3, <1>4, <1>7
<1>9. QED  BY <1>3, <1>4, <1>6, <1>8 DEF h, m, k, Parted

(* What hex writes of some bytes it reads as the same bytes, whatever stands  *)
(* before and between them and in either case (hex_encode_delimited and       *)
(* hex_decode of hex/lib.h).                                                  *)
THEOREM HexReadsWhatItWrites ==
  ASSUME NEW Chars, \A c : Hex!IsDigit(c) => c \in Chars,
         NEW sep \in Seq(Chars), NEW esc \in Seq(Chars), NEW upper \in BOOLEAN,
         NEW bytes \in Seq(0 .. 255), bytes # <<>>
  PROVE  LET text == Hex!HexEncodeDelimited(bytes, sep, esc, upper)
         IN  /\ Hex!HexDecode(text, Len(sep), Len(esc)) = Hex!Printed(bytes)
             /\ Len(text) = Hex!HexEncodedSize(Len(bytes), Len(sep), Len(esc))
<1> DEFINE n == Len(bytes)
           p == Len(sep)
           e == Len(esc)
           w == e + 2
           s == w + p
           table == IF upper THEN Hex!Upper ELSE Hex!Lower
           Dig(i) == Hex!Digits(table, bytes[i])
           End(i) == IF i = n THEN <<>> ELSE sep
           pieces == [i \in 1 .. n |-> (esc \o Dig(i)) \o End(i)]
           text == Hex!FlattenSeq(pieces)
<1>1. /\ n \in Nat \ {0} /\ p \in Nat /\ e \in Nat /\ p = Len(sep) /\ e = Len(esc)
      /\ w = e + 2 /\ s = w + p
  BY LenProperties, EmptySeq
<1>2. /\ DOMAIN bytes = 1 .. n /\ \A k \in 1 .. n : bytes[k] \in 0 .. 255
      /\ bytes = [i \in 1 .. n |-> bytes[i]]
  <2>1. bytes \in [1 .. n -> 0 .. 255]  BY LenProperties, Zenon
  <2>2. QED  BY <2>1, Zenon
<1>3. Hex!HexEncodeDelimited(bytes, sep, esc, upper) = text
  <2>1. Hex!HexEncodeDelimited(bytes, sep, esc, upper)
          = Hex!FlattenSeq([i \in DOMAIN bytes |-> (esc \o Dig(i)) \o End(i)])
    BY DEF Hex!HexEncodeDelimited
  <2> HIDE DEF Dig, End, n
  <2>2. QED  BY <1>2, <2>1
<1> HIDE DEF n, p, e, w, s
<1>4. w \in 1 .. s /\ s \in Nat \ {0} /\ e + 1 \in 1 .. w /\ e + 2 \in 1 .. w
  BY <1>1
<1>5. ASSUME NEW i \in 1 .. n
      PROVE  Dig(i) \in Seq(Chars) /\ Len(Dig(i)) = 2 /\ Hex!ByteOf(Dig(i)[1], Dig(i)[2]) = bytes[i]
  <2>1. bytes[i] \in 0 .. 255 /\ table \in {Hex!Lower, Hex!Upper}  BY <1>2
  <2> HIDE DEF table
  <2>2. QED  BY <2>1, TwoDigits
<1>6. ASSUME NEW i \in 1 .. n
      PROVE  /\ pieces[i] \in Seq(Chars) /\ Len(pieces[i]) = IF i = n THEN w ELSE s
             /\ pieces[i][e + 1] = Dig(i)[1] /\ pieces[i][e + 2] = Dig(i)[2]
  <2> HIDE DEF Dig
  <2>1. Dig(i) \in Seq(Chars) /\ Len(Dig(i)) = 2  BY <1>5
  <2>2. End(i) \in Seq(Chars) /\ Len(End(i)) = IF i = n THEN 0 ELSE p  BY <1>1, EmptySeq
  <2> HIDE DEF End
  <2> DEFINE piece == (esc \o Dig(i)) \o End(i)
  <2>3. /\ piece \in Seq(Chars) /\ Len(piece) = e + 2 + Len(End(i))
        /\ piece[e + 1] = Dig(i)[1] /\ piece[e + 2] = Dig(i)[2]
    <3>1. Parted(piece, esc, Dig(i), End(i), Chars)
      <4> HIDE DEF text, pieces
      <4>1. QED  BY <2>1, <2>2, ThreeParts, Zenon
    <3> HIDE DEF piece
    <3>2. QED  BY <1>1, <3>1, Zenon DEF Parted
  <2>4. pieces[i] = piece  OBVIOUS
  <2> HIDE DEF piece, pieces
  <2>5. e + 2 + Len(End(i)) = IF i = n THEN w ELSE s
    <3> DEFINE z == Len(End(i))
    <3>1. z = IF i = n THEN 0 ELSE p  BY <2>2
    <3> HIDE DEF z
    <3>2. e + 2 + 0 = w /\ e + 2 + p = s  BY <1>1
    <3>3. e + 2 + z = IF i = n THEN w ELSE s  BY <3>1, <3>2, Zenon
    <3>4. QED  BY <3>3 DEF z
  <2>6. QED  BY <2>3, <2>4, <2>5
<1>7. pieces \in [1 .. n -> Seq(Chars)]
  <2> DEFINE q(i) == (esc \o Dig(i)) \o End(i)
  <2>1. \A i \in 1 .. n : q(i) \in Seq(Chars)  BY <1>6
  <2> HIDE DEF q
  <2>2. [i \in 1 .. n |-> q(i)] \in [1 .. n -> Seq(Chars)]  BY <2>1
  <2>3. QED  BY <2>2 DEF q
<1> HIDE DEF pieces, Dig
<1>8. Placed(text, pieces, n, s, w)
  <2>1. \A i \in 1 .. n : Len(pieces[i]) = IF i = n THEN w ELSE s  BY <1>6, Zenon
  <2>2. QED  BY <1>1, <1>4, <1>7, <2>1, PiecesJoined, Zenon
<1> HIDE DEF text
<1>9. Len(text) \in Nat \ {0} /\ Len(text) + p = n * s
  <2>1. n - 1 \in Nat /\ (n - 1) + 1 = n /\ s \in Nat  BY <1>1
  <2> DEFINE least == (n - 1) * s
             all == n * s
  <2>2. least \in Nat /\ all = least + s /\ Len(text) = least + w  BY <1>8, <2>1, Multiples DEF Placed
  <2> HIDE DEF least, all
  <2>3. Len(text) \in Nat \ {0} /\ Len(text) + p = all  BY <1>1, <2>2
  <2>4. QED  BY <2>3 DEF all
<1>10. e + 2 + p = s /\ 2 + p + e = s  BY <1>1
<1>11. (Len(text) + p) % s = 0 /\ (Len(text) + p) \div s = n
  <2>1. n \in Nat  BY <1>1
  <2>2. (n * s) % s = 0 /\ (n * s) \div s = n  BY <1>4, <2>1, QuotientUnique
  <2>3. QED  BY <1>9, <2>2
<1> DEFINE Read(k) == Hex!ByteOf(text[(k - 1) * s + e + 1], text[(k - 1) * s + e + 2])
<1>12. ASSUME NEW k \in 1 .. n PROVE Read(k) = bytes[k]
  <2>1. (k - 1) * s \in Nat
    <3>1. k - 1 \in Nat /\ s \in Nat  BY <1>1
    <3>2. QED  BY <3>1, Multiples
  <2>2. (k - 1) * s + e + 1 = (k - 1) * s + (e + 1) /\ (k - 1) * s + e + 2 = (k - 1) * s + (e + 2)
    <3> DEFINE at == (k - 1) * s
    <3>1. at \in Nat  BY <2>1
    <3> HIDE DEF at
    <3>2. at + e + 1 = at + (e + 1) /\ at + e + 2 = at + (e + 2)  BY <1>1, <3>1
    <3>3. QED  BY <3>2 DEF at
  <2>4. /\ text[(k - 1) * s + (e + 1)] = pieces[k][e + 1]
        /\ text[(k - 1) * s + (e + 2)] = pieces[k][e + 2]
    BY <1>4, <1>8 DEF Placed
  <2>5. pieces[k][e + 1] = Dig(k)[1] /\ pieces[k][e + 2] = Dig(k)[2]  BY <1>6
  <2>6. Hex!ByteOf(Dig(k)[1], Dig(k)[2]) = bytes[k]  BY <1>5
  <2>7. QED  BY <2>2, <2>4, <2>5, <2>6
<1>13. [k \in 1 .. n |-> Read(k)] = bytes
  <2> HIDE DEF Read
  <2>1. QED  BY <1>12, <1>2
<1>14. Hex!IsValidHexLength(Len(text), p, e)
  <2>1. Len(text) > 0  BY <1>9
  <2>2. QED  BY <1>10, <1>11, <2>1 DEF Hex!IsValidHexLength
<1>15. Hex!HexDecode(text, p, e) = Hex!Printed([k \in 1 .. n |-> Read(k)])
  <2>1. QED  BY <1>10, <1>11, <1>14 DEF Hex!HexDecode
<1>16. Len(text) = Hex!HexEncodedSize(n, p, e)
  <2>1. n - 1 \in Nat /\ (n - 1) + 1 = n /\ w \in Nat /\ w = 2 + e  BY <1>1
  <2>2. (n - 1) * s = (n - 1) * w + (n - 1) * p  BY <1>1, <2>1
  <2>3. n * w = (n - 1) * w + w /\ (n - 1) * w \in Nat /\ (n - 1) * p \in Nat
    BY <1>1, <2>1, Multiples
  <2> DEFINE x == (n - 1) * w
             y == (n - 1) * p
  <2>4. x \in Nat /\ y \in Nat /\ Len(text) = (x + y) + w /\ n * w = x + w
    BY <1>8, <2>2, <2>3 DEF Placed
  <2> DEFINE all == n * w
  <2> HIDE DEF x, y, all
  <2>5. Len(text) = all + y  BY <2>1, <2>4 DEF all
  <2>6. Hex!HexEncodedSize(n, p, e) = n * w + (n - 1) * p
    BY <1>1, <2>1 DEF Hex!HexEncodedSize
  <2>7. QED  BY <2>5, <2>6 DEF all, y
<1>17. QED  BY <1>1, <1>3, <1>13, <1>15, <1>16, Zenon DEF n

-----------------------------------------------------------------------------
(* The order of uuids                                                      *)

Words == [1 .. 8 -> 0 .. 255]

\* The bytes of a word are numbers.
LEMMA ByteOfWord ==
  ASSUME NEW v \in Words, NEW i \in 1 .. 8
  PROVE  v[i] \in Int
<1>1. v \in [1 .. 8 -> 0 .. 255]  BY Zenon DEF Words
<1>2. v[i] \in 0 .. 255  BY <1>1, Zenon
<1>3. QED  BY <1>2

\* Words are ordered by the last byte in which they differ.
LEMMA WordOrder ==
  ASSUME NEW v \in Words, NEW w \in Words
  PROVE  /\ ~Id!Below(v, v) /\ ~(Id!Below(v, w) /\ Id!Below(w, v))
         /\ v # w => Id!Below(v, w) \/ Id!Below(w, v)
         /\ \A x \in Words : Id!Below(v, w) /\ Id!Below(w, x) => Id!Below(v, x)
<1>0. \A i \in 1 .. 8 : v[i] \in Int /\ w[i] \in Int  BY ByteOfWord, Zenon
<1>1. ~Id!Below(v, v)  BY <1>0 DEF Id!Below
<1>2. ~(Id!Below(v, w) /\ Id!Below(w, v))
  <2> SUFFICES ASSUME Id!Below(v, w), Id!Below(w, v) PROVE FALSE  OBVIOUS
  <2>1. PICK i \in 1 .. 8 : v[i] < w[i] /\ \A j \in i + 1 .. 8 : v[j] = w[j]  BY DEF Id!Below
  <2>2. PICK k \in 1 .. 8 : w[k] < v[k] /\ \A j \in k + 1 .. 8 : w[j] = v[j]  BY DEF Id!Below
  <2>3. i = k \/ k \in i + 1 .. 8 \/ i \in k + 1 .. 8  OBVIOUS
  <2>4. CASE i = k  BY <1>0, <2>1, <2>2, <2>4
  <2>5. CASE k \in i + 1 .. 8  BY <1>0, <2>1, <2>2, <2>5
  <2>6. CASE i \in k + 1 .. 8  BY <1>0, <2>1, <2>2, <2>6
  <2>7. QED  BY <2>3, <2>4, <2>5, <2>6
<1>3. ASSUME v # w PROVE Id!Below(v, w) \/ Id!Below(w, v)
  <2> DEFINE differ == {i \in 1 .. 8 : v[i] # w[i]}
  <2>1. differ # {}
    <3>1. v = [i \in 1 .. 8 |-> v[i]] /\ w = [i \in 1 .. 8 |-> w[i]]  BY Zenon DEF Words
    <3> SUFFICES ASSUME \A i \in 1 .. 8 : v[i] = w[i] PROVE FALSE  OBVIOUS
    <3>2. [i \in 1 .. 8 |-> v[i]] = [i \in 1 .. 8 |-> w[i]]  BY Zenon
    <3>3. QED  BY <1>3, <3>1, <3>2, Zenon
  <2>2. differ \in SUBSET (0 .. 8)  OBVIOUS
  <2>3. PICK m \in differ : \A k \in differ : m >= k  BY <2>1, <2>2, GreatestOf
  <2>4. m \in 1 .. 8 /\ \A j \in m + 1 .. 8 : v[j] = w[j]  BY <2>3
  <2>5. v[m] < w[m] \/ w[m] < v[m]
    <3>1. m \in 1 .. 8 /\ v[m] # w[m]  OBVIOUS
    <3>2. v[m] \in Int /\ w[m] \in Int  BY <1>0, <3>1
    <3> HIDE DEF differ
    <3>3. QED  BY <3>1, <3>2
  <2> HIDE DEF differ
  <2>6. QED  BY <2>4, <2>5 DEF Id!Below
<1>4. ASSUME NEW x \in Words, Id!Below(v, w), Id!Below(w, x) PROVE Id!Below(v, x)
  <2>1. PICK i \in 1 .. 8 : v[i] < w[i] /\ \A j \in i + 1 .. 8 : v[j] = w[j]
    BY <1>4 DEF Id!Below
  <2>2. PICK k \in 1 .. 8 : w[k] < x[k] /\ \A j \in k + 1 .. 8 : w[j] = x[j]
    BY <1>4 DEF Id!Below
  <2>0. \A j \in 1 .. 8 : v[j] \in Int /\ w[j] \in Int /\ x[j] \in Int  BY ByteOfWord, Zenon
  <2>3. CASE i >= k
    <3>1. v[i] < x[i]
      <4>1. CASE i = k  BY <2>0, <2>1, <2>2, <4>1
      <4>2. CASE i # k
        <5>1. i \in k + 1 .. 8  BY <2>3, <4>2
        <5>2. w[i] = x[i]  BY <2>2, <5>1
        <5>3. QED  BY <2>1, <5>2
      <4>3. QED  BY <4>1, <4>2
    <3>2. \A j \in i + 1 .. 8 : v[j] = x[j]  BY <2>1, <2>2, <2>3
    <3>3. QED  BY <3>1, <3>2 DEF Id!Below
  <2>4. CASE i < k
    <3>1. v[k] < x[k]  BY <2>1, <2>2, <2>4
    <3>2. \A j \in k + 1 .. 8 : v[j] = x[j]  BY <2>1, <2>2, <2>4
    <3>3. QED  BY <3>1, <3>2 DEF Id!Below
  <2>5. QED  BY <2>3, <2>4
<1>5. QED  BY <1>1, <1>2, <1>3, <1>4

(* The operators == and < of uuid.cpp are a total order of all uuids: of two  *)
(* that differ just one is less, and what is less than a lesser one is less.  *)
THEOREM UuidsOrdered ==
  \A u, v, x \in [hi : Words, lo : Words] :
    /\ Id!Equal(u, v) <=> u = v
    /\ ~Id!Less(u, u) /\ ~(Id!Less(u, v) /\ Id!Less(v, u))
    /\ u # v => Id!Less(u, v) \/ Id!Less(v, u)
    /\ Id!Less(u, v) /\ Id!Less(v, x) => Id!Less(u, x)
<1> SUFFICES ASSUME NEW u \in [hi : Words, lo : Words], NEW v \in [hi : Words, lo : Words],
                    NEW x \in [hi : Words, lo : Words]
             PROVE  /\ Id!Equal(u, v) <=> u = v
                    /\ ~Id!Less(u, u) /\ ~(Id!Less(u, v) /\ Id!Less(v, u))
                    /\ u # v => Id!Less(u, v) \/ Id!Less(v, u)
                    /\ Id!Less(u, v) /\ Id!Less(v, x) => Id!Less(u, x)
  OBVIOUS
<1>1. /\ u.hi \in Words /\ u.lo \in Words /\ v.hi \in Words /\ v.lo \in Words
      /\ x.hi \in Words /\ x.lo \in Words
  OBVIOUS
<1>2. u = v <=> u.hi = v.hi /\ u.lo = v.lo  OBVIOUS
<1>3. Id!Equal(u, v) <=> u = v  BY <1>2 DEF Id!Equal
<1>4. ~Id!Less(u, u)  BY <1>1, WordOrder, Zenon DEF Id!Less
<1>5. ~(Id!Less(u, v) /\ Id!Less(v, u))
  <2>1. /\ ~(Id!Below(u.hi, v.hi) /\ Id!Below(v.hi, u.hi))
        /\ ~(Id!Below(u.lo, v.lo) /\ Id!Below(v.lo, u.lo))
        /\ ~Id!Below(u.hi, u.hi) /\ ~Id!Below(v.hi, v.hi)
    BY <1>1, WordOrder, Zenon
  <2>2. QED  BY <2>1 DEF Id!Less
<1>6. u # v => Id!Less(u, v) \/ Id!Less(v, u)
  <2>1. /\ u.hi # v.hi => Id!Below(u.hi, v.hi) \/ Id!Below(v.hi, u.hi)
        /\ u.lo # v.lo => Id!Below(u.lo, v.lo) \/ Id!Below(v.lo, u.lo)
    BY <1>1, WordOrder, Zenon
  <2>2. QED  BY <1>2, <2>1 DEF Id!Less
<1>7. Id!Less(u, v) /\ Id!Less(v, x) => Id!Less(u, x)
  <2>1. /\ Id!Below(u.hi, v.hi) /\ Id!Below(v.hi, x.hi) => Id!Below(u.hi, x.hi)
        /\ Id!Below(u.lo, v.lo) /\ Id!Below(v.lo, x.lo) => Id!Below(u.lo, x.lo)
    BY <1>1, WordOrder, Zenon
  <2>2. QED  BY <2>1 DEF Id!Less
<1>8. QED  BY <1>3, <1>4, <1>5, <1>6, <1>7
=============================================================================
