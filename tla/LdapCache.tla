----------------------------- MODULE LdapCache -----------------------------
(***************************************************************************)
(* The user and group cache of nvim/skeletons/ldp.c: users are read from   *)
(* stdin, each is looked up in a directory, and the groups it is a member  *)
(* of are collected; indexes by name are sorted once, in the end.          *)
(*                                                                         *)
(* A name is a sequence of numbers, compared as strcmp does.  The          *)
(* directory is external: for each user it fails, knows nothing, or        *)
(* answers with the distinguished names of groups.                         *)
(***************************************************************************)
EXTENDS Integers, Sequences, FiniteSets, SequencesExt

CONSTANTS
  MaxUsers, MaxGroups,  \* MAX_USERS, MAX_GROUPS
  MaxNameLen,           \* MAX_NAME_LEN, with the NUL
  Inputs,               \* the sequences of lines that may stand on stdin
  Answers,              \* the sequences of groups a search may find
  Probes                \* names that are looked for besides

Names == Seq(Nat)
Dns == [cn : BOOLEAN, name : Names]  \* distinguished names

\* What the constants must satisfy; assumed where they get their values.
LdapAssumption ==
  /\ MaxUsers \in Nat \ {0} /\ MaxGroups \in Nat /\ MaxNameLen \in Nat \ {0}
  /\ Inputs \subseteq Seq(Names) /\ Answers \subseteq Seq(Dns) /\ Probes \subseteq Names

VARIABLES
  stage,       \* start, populate, done, or failed
  users,       \* cache.users
  groups,      \* cache.groups: name and member set
  userIndex, groupIndex,
  answered     \* history: what the directory has answered, user by user

vars == <<stage, users, groups, userIndex, groupIndex, answered>>

Init ==
  /\ stage = "start" /\ users = <<>> /\ groups = <<>>
  /\ userIndex = <<>> /\ groupIndex = <<>> /\ answered = <<>>

-----------------------------------------------------------------------------
\* read_users_stdin: lines that are not empty, cut where the buffer ends.
Cut(line) == SubSeq(line, 1, Min({Len(line), MaxNameLen - 1}))

ReadUsers(lines) ==
  LET read[n \in 0 .. Len(lines)] ==
        IF n = 0 THEN <<>>
        ELSE IF Cut(lines[n]) = <<>> \/ Len(read[n - 1]) >= MaxUsers THEN read[n - 1]
        ELSE Append(read[n - 1], Cut(lines[n]))
  IN  read[Len(lines)]

\* main up to cuteldap_connect, with cache_insert_user for each line.  It ends
\* when there is no password to read, no user, or no connection.  The index is
\* in order of insertion.
Start(lines, password, connects) ==
  /\ stage = "start"
  /\ users' = IF password THEN ReadUsers(lines) ELSE users
  /\ userIndex' = [i \in DOMAIN users' |-> i]
  /\ stage' = IF users' # <<>> /\ connects THEN "populate" ELSE "failed"
  /\ UNCHANGED <<groups, groupIndex, answered>>

\* extract_cn: the name of a group that begins with CN= and fits the buffer.
CnOk(dn) == dn.cn /\ Len(dn.name) \in 1 .. MaxNameLen - 1

GroupAt(gs, name) == {i \in DOMAIN gs : gs[i].name = name}

\* (Mutant of AddMembership: the first group, not the one found.)
AddMembership_First(gs, dn, ui) ==
  IF ~CnOk(dn) THEN gs
  ELSE IF GroupAt(gs, dn.name) # {} THEN [gs EXCEPT ![1].members = @ \cup {ui}]
  ELSE IF Len(gs) >= MaxGroups THEN gs
  ELSE Append(gs, [name |-> dn.name, members |-> {ui}])

\* cache_find_or_insert_group and cache_group_add_member
AddMembership(gs, dn, ui) ==
  IF ~CnOk(dn) THEN gs
  ELSE IF GroupAt(gs, dn.name) # {}
    THEN [gs EXCEPT ![Min(GroupAt(gs, dn.name))].members = @ \cup {ui}]
  ELSE IF Len(gs) >= MaxGroups THEN gs
  ELSE Append(gs, [name |-> dn.name, members |-> {ui}])

\* What cache_populate_user makes of an answer, one group after another.
Memberships(gs, answer, ui) ==
  LET after[n \in 0 .. Len(answer)] ==
        IF n = 0 THEN gs ELSE AddMembership(after[n - 1], answer[n], ui)
  IN  after[Len(answer)]

\* cache_populate_user for the next user; a search that fails and one that
\* finds nobody leave the cache alone.
PopulateUser(answer) ==
  LET ui == Len(answered) + 1 IN
  /\ stage = "populate" /\ ui <= Len(users)
  /\ groups' = Memberships(groups, answer, ui)
  /\ groupIndex' = groupIndex \o [i \in 1 .. Len(groups') - Len(groups) |-> Len(groups) + i]
  /\ answered' = Append(answered, answer)
  /\ UNCHANGED <<stage, users, userIndex>>

\* strcmp(a, b) <= 0: behind what they share, a ends or goes on with less.
AtMost(a, b) ==
  \E k \in 0 .. Len(a) :
    /\ \A i \in 1 .. k : i <= Len(b) /\ a[i] = b[i]
    /\ k = Len(a) \/ (k < Len(b) /\ a[k + 1] < b[k + 1])

\* qsort with cmp_name_index; of equal names one order is as good as the other.
Sortings(index, names) ==
  {s \in [DOMAIN index -> ToSet(index)] :
     /\ ToSet(s) = ToSet(index)
     /\ \A i, j \in DOMAIN index : i < j => AtMost(names[s[i]], names[s[j]])}

NamesOf(gs) == [gi \in DOMAIN gs |-> gs[gi].name]

\* The end of cache_populate; main then lists every group.
Finish ==
  /\ stage = "populate" /\ Len(answered) = Len(users)
  /\ stage' = "done"
  /\ userIndex' \in Sortings(userIndex, users)
  /\ groupIndex' \in Sortings(groupIndex, NamesOf(groups))
  /\ UNCHANGED <<users, groups, answered>>

Next ==
  \/ \E lines \in Inputs, password, connects \in BOOLEAN : Start(lines, password, connects)
  \/ \E answer \in Answers : PopulateUser(answer)
  \/ Finish

Spec == Init /\ [][Next]_vars

-----------------------------------------------------------------------------
\* bsearch in a sorted index, 0 when nothing is found (cache_lookup_user and
\* cache_lookup_group return -1).
Bsearch(index, names, key) ==
  LET find[range \in (1 .. Len(index) + 1) \X (0 .. Len(index))] ==
        LET lo  == range[1]
            hi  == range[2]
            mid == (lo + hi) \div 2
        IN  IF lo > hi THEN 0
            ELSE IF names[index[mid]] = key THEN index[mid]
            ELSE IF AtMost(key, names[index[mid]]) THEN find[<<lo, mid - 1>>]
            ELSE find[<<mid + 1, hi>>]
  IN  find[<<1, Len(index)>>]

LookupUser(name) == Bsearch(userIndex, users, name)
LookupGroup(name) == Bsearch(groupIndex, NamesOf(groups), name)

\* cache_list_group_members: the bits from the lowest on.
ListGroupMembers(gi) ==
  LET listed[n \in 0 .. Len(users)] ==
        IF n = 0 THEN <<>>
        ELSE IF n \in groups[gi].members THEN Append(listed[n - 1], users[n])
        ELSE listed[n - 1]
  IN  listed[Len(users)]

-----------------------------------------------------------------------------
\* Once it is built, the cache says of every user and every group what the
\* directory has said, short of groups that came when the table was full; and
\* a name is found exactly when it is there.
Told(ui) == {dn.name : dn \in {d \in ToSet(answered[ui]) : CnOk(d)}}
GroupNames(gs) == {gs[gi].name : gi \in DOMAIN gs}

CacheAsTold ==
  stage = "done" =>
    /\ \A gi \in DOMAIN groups :
         /\ groups[gi].members = {ui \in DOMAIN users : groups[gi].name \in Told(ui)}
         /\ LookupGroup(groups[gi].name) = gi
         /\ ToSet(ListGroupMembers(gi)) = {users[ui] : ui \in groups[gi].members}
         /\ Len(ListGroupMembers(gi)) = Cardinality(groups[gi].members)
    /\ \A ui \in DOMAIN users :
         /\ Told(ui) \subseteq GroupNames(groups) \/ Len(groups) = MaxGroups
         /\ LookupUser(users[ui]) \in {i \in DOMAIN users : users[i] = users[ui]}
    /\ \A name \in Probes :
         /\ (LookupGroup(name) = 0) <=> (name \notin GroupNames(groups))
         /\ (LookupUser(name) = 0) <=> (name \notin ToSet(users))

\* The inductive invariant behind it: what fits, what the table says of the
\* users answered for so far, and the indexes, which are sorted in the end.
Fitting == {name \in Names : Len(name) \in 1 .. MaxNameLen - 1}

TypeOK ==
  /\ stage \in {"start", "populate", "done", "failed"}
  /\ users \in Seq(Fitting) /\ Len(users) <= MaxUsers
  /\ groups \in Seq([name : Fitting, members : SUBSET Nat]) /\ Len(groups) <= MaxGroups
  /\ answered \in Seq(Seq(Dns)) /\ Len(answered) <= Len(users)
  /\ stage = "start" => answered = <<>>

TableSays(gs, told) ==
  /\ \A gi, gj \in DOMAIN gs : gs[gi].name = gs[gj].name => gi = gj
  /\ \A gi \in DOMAIN gs : gs[gi].members = {ui \in DOMAIN told : gs[gi].name \in told[ui]}
  /\ \A ui \in DOMAIN told : told[ui] \subseteq GroupNames(gs) \/ Len(gs) = MaxGroups

Indexed ==
  LET us == [i \in DOMAIN users |-> i]
      gs == [i \in DOMAIN groups |-> i]
  IN  IF stage = "done"
      THEN /\ Len(answered) = Len(users)
           /\ userIndex \in Sortings(us, users) /\ groupIndex \in Sortings(gs, NamesOf(groups))
      ELSE userIndex = us /\ groupIndex = gs

IInv == TypeOK /\ TableSays(groups, [ui \in DOMAIN answered |-> Told(ui)]) /\ Indexed
=============================================================================
