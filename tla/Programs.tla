------------------------------ MODULE Programs ------------------------------
(***************************************************************************)
(* The small programs that keep a state: cexec (C), drun (D), the id map   *)
(* (M), the ldap cache (L), cpy (Y) and the files of the mpv scripts (P),  *)
(* side by side.  They have nothing to do with one another; what must hold *)
(* of each is named here for the runs and the proofs.                      *)
(***************************************************************************)

CONSTANTS
  Calls, MaxStops,                                                \* Cexec, Drun
  Dirs, Entries, BoxNames, NoImage, Images,                       \* Cexec
  WorkDirs, BaseName, NoName, Given, NoNetwork, Networks, Bridge, \* Drun
  MCap, Factor, Keys, Values, IdMod,                              \* SfMap
  MaxUsers, MaxGroups, MaxNameLen, Inputs, Answers, Probes,       \* LdapCache
  InMax, ToCopy, MaxChunk,                                        \* Cpy
  Players, Stems, Extensions, Films, NoFilm, Stream, MaxKeys      \* MpvFiles

VARIABLES
  boxes, pc, ret, ranIn, touched, faulted, stops, config, seenUp, \* Cexec
  drunBoxes, drunPc, drunRet, drunRanIn, drunTouched, drunFaulted, drunStops,
  asked, tmp,                                                     \* Drun
  slot, next_id, mapRet, hung, reassigned,                        \* SfMap
  ldapStage, users, groups, userIndex, groupIndex, answered,      \* LdapCache
  cpyStage, options, content, status, in, out, written,           \* Cpy
  disk, keepers, path, film, prompt, act, keys, given, raced      \* MpvFiles

C == INSTANCE Cexec WITH Names <- BoxNames

D == INSTANCE Drun WITH
  Dirs <- WorkDirs, boxes <- drunBoxes, pc <- drunPc, ret <- drunRet,
  ranIn <- drunRanIn, touched <- drunTouched, faulted <- drunFaulted, stops <- drunStops

M == INSTANCE SfMap WITH ret <- mapRet

L == INSTANCE LdapCache WITH stage <- ldapStage

Y == INSTANCE Cpy WITH Contents <- ToCopy, stage <- cpyStage

P == INSTANCE MpvFiles WITH Nothing <- NoFilm

ASSUME ProgramsAssumption ==
  /\ C!CexecAssumption /\ D!DrunAssumption /\ M!SfMapAssumption
  /\ L!LdapAssumption /\ Y!CpyAssumption /\ P!MpvFilesAssumption

-----------------------------------------------------------------------------
(* Properties, each with the inductive invariant behind it.                *)

\* What a call of cexec comes to, and why.
CexecOutcomeExplained == C!CexecOutcomeExplained /\ [](C!TypeOK /\ C!Undisturbed)

\* What a call of drun comes to, and why.
DrunOutcomeExplained ==
  D!DrunOutcomeExplained /\ [](D!TypeOK /\ D!Undisturbed /\ D!Unanswered)

\* "Run commands inside a container with the current directory mounted."
\* (executable_drun.sh:13)
CurrentDirectoryMounted ==
  \A c \in Calls : drunRet[c] = "ran" => drunRanIn[c].dir = asked[c].dir

\* A search of the id map can go on for ever only in a table without a free slot.
HangsOnlyWhenAllUsed == M!HangsOnlyWhenAllUsed /\ M!IInv

\* The table is a map, and a created id is new.
IdMapKept == M!IdMapKept

\* The ldap cache says what the directory has said.
CacheAsTold == L!CacheAsTold /\ L!IInv

\* What cpy sends to the clipboard is its input.
ClipboardIsInput == Y!ClipboardIsInput /\ Y!IInv

\* The mpv scripts lose no film, but to a name two players wanted at once.
FilmsKept == P!FilmsKept /\ P!IInv
=============================================================================
