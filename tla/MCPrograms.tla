----------------------------- MODULE MCPrograms -----------------------------
(***************************************************************************)
(* The small programs and headers for TLC, each a behaviour of its own:    *)
(* those of Programs, and the converters, filters and loaders that turn    *)
(* one input into one output.  Which of them runs is chosen in the         *)
(* beginning; the variables of the others stay as they are.                *)
(***************************************************************************)
EXTENDS Programs, Integers, Sequences, SequencesExt, FiniteSets, TLC

CONSTANTS Chosen, Null    \* the programs to run; no text

VARIABLES program, job, result

cexecVars == <<boxes, pc, ret, ranIn, touched, faulted, stops, config, seenUp>>
drunVars == <<drunBoxes, drunPc, drunRet, drunRanIn, drunTouched, drunFaulted, drunStops, asked, tmp>>
mapVars == <<slot, next_id, mapRet, hung, reassigned>>
ldapVars == <<ldapStage, users, groups, userIndex, groupIndex, answered>>
cpyVars == <<cpyStage, options, content, status, in, out, written>>
playerVars == <<disk, keepers, path, film, prompt, act, keys, given, raced>>
jobVars == <<job, result>>
allVars == <<program, cexecVars, drunVars, mapVars, ldapVars, cpyVars, playerVars, jobVars>>

-----------------------------------------------------------------------------
(* Values for the constants of Programs.                                   *)

\* cexec: a C project, a CMake project inside it, a directory with no marker.
SomeDirs == {<<"p">>, <<"p", "q">>, <<"r">>}
SomeEntries == [d \in SomeDirs |->
    CASE d = <<"p">> -> {".git", "Makefile", ".c"}
      [] d = <<"p", "q">> -> {"CMakeLists.txt", ".cpp"}
      [] d = <<"r">> -> {".c", "notes"}]

\* drun: two directories of one base name and one of another.
SomeBaseNames == [d \in WorkDirs |-> IF d = "z/lib" THEN "drun-lib" ELSE "drun-src"]

\* The ldap cache: two lines with the same first two characters, a name twice,
\* more lines than users, more groups than the table takes.
Dn(cn, name) == [cn |-> cn, name |-> name]
Dns == {Dn(TRUE, <<1>>), Dn(TRUE, <<2, 1>>), Dn(TRUE, <<2>>), Dn(TRUE, <<1, 1, 1>>), Dn(FALSE, <<1>>)}
SomeInputs ==
  {<<>>, <<<<2>>, <<>>, <<1>>>>, <<<<1, 2, 1>>, <<1, 2, 2>>, <<1>>>>, <<<<2>>, <<1>>, <<2>>, <<1, 1>>>>}
SomeAnswers ==
  {<<>>} \cup {<<d>> : d \in Dns}
  \cup {<<Dn(TRUE, <<2>>), d>> : d \in Dns} \cup {<<Dn(TRUE, <<1>>), d>> : d \in Dns}
SomeProbes == {<<1>>, <<2>>, <<1, 2>>, <<1, 1>>, <<2, 1>>, <<1, 1, 1>>}

\* cpy: contents of every length up to one more than fits, with and without
\* newlines at the end.
SomeContents ==
  {SubSeq(<<255, 10, 171, 0, 13, 10>>, 1, n) : n \in 0 .. 6}
  \cup {<<10, 13>>, <<104, 105, 10>>, <<104, 105, 106, 107, 10, 10>>}

\* The mpv scripts: two films, and of their three names one that is free.
SomeFilms == {<<"s", "x">>, <<"t", "x">>}

-----------------------------------------------------------------------------
(* The scenario loaders                                                    *)
MaxLabels == 3
MaxAlerts == 2
MaxUint32 == 3
NumberOf == ("0" :> 0) @@ ("1" :> 1) @@ ("2" :> 2) @@ ("3" :> 3) @@ ("4" :> 4)
Cap == 13

S == INSTANCE ScenarioDocs

Labels == {<<>>, <<<<"a">>>>, <<<<"b", "\\">>, <<"\"">>>>, <<<<"a", ",">>>>}
AlertsOf(ls) ==
  [title : {Null, <<"a">>}, level : {<<"Fatal">>}, labels : ls, count : {0, 2}]
  \cup [title : {<<>>}, level : {<<"odd">>}, labels : {<<>>}, count : {1, 3, 4}]

Docs ==
  [name : {Null, <<"a">>}, host : {Null, <<"b">>}, status : {<<"Dead">>, <<"odd">>},
   handle : {0, 2}, labels : {<<>>}, defaults : {<<>>}, alerts : {<<>>}]
  \cup
  [name : {<<"a">>}, host : {Null}, status : {<<"Up">>}, handle : {1}, labels : Labels,
   defaults : {<<>>} \cup {<<[level |-> <<"Warning">>, labels |-> l]>> : l \in Labels},
   alerts : {<<a>> : a \in AlertsOf(Labels)}
            \cup {<<a, b>> : a \in AlertsOf({<<<<"a">>>>}), b \in AlertsOf({<<>>})}]
  \cup
  [name : {<<"a">>}, host : {Null}, status : {<<"Up">>}, handle : {1}, labels : {<<>>},
   defaults : {<<>>},
   alerts : {[i \in 1 .. 3 |-> a] : a \in AlertsOf({<<>>})}]

ArrayTexts == {<<"[">> \o t : t \in SeqOf({"[", "]", ",", "\"", " ", "a", "\\"}, 5)}

-----------------------------------------------------------------------------
(* hex, itoh, htoi, cuteid and uuid                                        *)
X == INSTANCE HexTools WITH Limit <- 5, Spaces <- {" ", "\n", "\t"}
K == INSTANCE CuteId
U == INSTANCE Uuid

ByteStrings == SeqOf({0, 10, 171}, 3) \cup {<<10, 171, 60, 1, 2, 10>>}
HexOptions ==
  [stdin : BOOLEAN, keep : BOOLEAN, upper : BOOLEAN, sep : {<<>>, <<":">>, <<",", " ">>},
   esc : {<<>>, <<"\\", "x">>}]

\* Numbers of eight bytes with every number of leading zeros.
Numbers == {[i \in 1 .. 8 |-> IF i <= z THEN 0 ELSE (i * m) % 256] : z \in 0 .. 8, m \in {1, 37, 251}}
           \cup {[i \in 1 .. 8 |-> IF i = k THEN 1 ELSE 0] : k \in 1 .. 8}
NumberOptions ==
  [le : BOOLEAN, minw : BOOLEAN, width : {1, 4, 8}, sep : {<<>>, <<":">>, <<" ">>},
   esc : {<<>>, <<"\\", "x">>}, trim : BOOLEAN]

Pattern(n, p) == [i \in 1 .. n |-> CASE p = "zeros" -> 0 [] p = "ones" -> 1
                                     [] p = "odd" -> i % 2 [] p = "last" -> IF i = n THEN 1 ELSE 0
                                     [] p = "first" -> IF i = 1 THEN 1 ELSE 0]
Patterns == {"zeros", "ones", "odd", "last", "first"}
Fields ==
  [start_time : {Pattern(64, p) : p \in Patterns}
                \cup {[i \in 1 .. 64 |-> IF i > 52 THEN 1 ELSE 0], [i \in 1 .. 64 |-> IF i = 20 THEN 1 ELSE 0]},
   server_id : {Pattern(8, p) : p \in Patterns},
   schema : {Pattern(8, p) : p \in Patterns}, process_handle : {Pattern(32, p) : p \in Patterns},
   alert_handle : {Pattern(32, p) : p \in Patterns}]

Alone(at, b) == [i \in 1 .. 16 |-> IF i = at THEN b ELSE 0]
Uuids == {Alone(9, 1)} \cup {[i \in 1 .. 16 |-> (i * m + (i \div 9) * k) % 256] : m \in {0, 1, 17, 239}, k \in {0, 77}}

\* Texts that are nearly a uuid's: one character more, less or other.
Nearly(text) ==
  {text, <<" ">> \o text, text \o <<"\n">>, text \o <<"0">>, SubSeq(text, 1, 35)}
  \cup {SubSeq(text, 1, i - 1) \o mid \o SubSeq(text, i + 1, Len(text)) :
          i \in DOMAIN text, mid \in {<<>>, <<"g">>, <<"-">>, <<"-", text[1]>>, <<"0", "0">>, <<"A">>}}
UuidTexts ==
  UNION {Nearly(U!WriteString(U!FromBytes(u))) : u \in Uuids} \cup {K!UuidFormat(u, FALSE) : u \in Uuids}

-----------------------------------------------------------------------------
(* codec.c reads what cpy's encoder writes, and texts that are nearly that:  *)
(* with the padding elsewhere, with other characters, cut off.               *)
O == INSTANCE MCTools

Groups == {<<0, 0, 0, 0>>, <<1, 2, 62, 63>>, <<62, 16, 64, 64>>, <<62, 17, 64, 64>>, <<2, 4, 8, 64>>,
           <<2, 5, 8, 64>>, <<1, 64, 64, 64>>, <<1, 2, 64, 3>>, <<65, 0, 0, 0>>}
Base64Texts ==
  {Y!Encode(b) : b \in ByteStrings \cup {<<b>> : b \in 0 .. 255}}
  \cup SeqOf({0, 3, 62, 64, 65}, 4) \cup {a \o b : a, b \in Groups}

-----------------------------------------------------------------------------
\* Documents in the form of config_example.toml, with a blank before each array.
SampleJobs == [kind : {"scenario"}, doc : {d \in Docs : S!Plain(d)}, gap : {TRUE}, full : {FALSE}]

Jobs ==
  [kind : {"scenario"}, doc : Docs, gap : BOOLEAN, full : {FALSE}]
  \cup [kind : {"scenario"}, doc : {CHOOSE d \in Docs : d.alerts = <<>>}, gap : {FALSE}, full : {TRUE}]
  \cup [kind : {"array"}, text : ArrayTexts]
  \cup [kind : {"hex"}, bytes : ByteStrings, o : HexOptions]
  \cup [kind : {"number"}, n : Numbers, o : NumberOptions]
  \cup [kind : {"fields"}, f : Fields]
  \cup [kind : {"uuid"}, text : UuidTexts]
  \cup [kind : {"pair"}, u : Uuids, v : Uuids]
  \cup [kind : {"base64"}, coded : Base64Texts]
  \cup O!ToolJobs

\* What the programs make of a job.
Outcome(j) ==
  CASE j.kind = "scenario" ->
         LET size == IF j.full THEN Cap ELSE Cap - 1
             json == IF S!J!ReadConfig(size, TRUE, Cap)
                     THEN S!J!LoadFromJson(S!JsonRoot(j.doc), Cap) ELSE S!J!Fail(S!J!Empty)
         IN  [toml |-> S!T!LoadFromFile([regular |-> TRUE, size |-> size,
                                         lines |-> S!TomlLines(j.doc, j.gap)], Cap),
              json |-> json, events |-> S!J!Emitted(json)]
    [] j.kind = "array" -> S!T!ParseStringArray(j.text, MaxLabels)
    [] j.kind = "hex" ->
         LET text == X!HexMainEncode(j.bytes, j.o)
         IN  [text |-> text, back |-> X!HexMainDecode(text, [j.o EXCEPT !.stdin = FALSE])]
    [] j.kind = "number" ->
         LET text == X!Itoh(j.n, j.o)
         IN  [text |-> text, back |-> X!Htoi(text.out, [j.o EXCEPT !.width = 8])]
    [] j.kind = "fields" ->
         LET u == K!CuteidEncode(j.f)
             text == K!UuidFormat(u, TRUE)
         IN  [uuid |-> u, fields |-> K!CuteidDecode(u), text |-> text,
              cmd |-> K!CmdEncode(j.f.server_id, j.f.start_time, j.f.process_handle, j.f.alert_handle),
              before |-> K!CmdEncode(j.f.server_id, K!BeforeEpoch, j.f.process_handle, j.f.alert_handle),
              decoded |-> K!CmdDecode(text, TRUE), info |-> K!CmdInfo(text, FALSE)]
    [] j.kind = "uuid" ->
         [cute |-> K!UuidParse(j.text), uuid |-> U!UuidFromString(j.text)]
    [] j.kind = "pair" ->
         LET u == U!FromBytes(j.u)  v == U!FromBytes(j.v)
         IN  [equal |-> U!Equal(u, v), less |-> U!Less(u, v), greater |-> U!Less(v, u),
              sameHash |-> U!Hash(u) = U!Hash(v), number |-> U!ToU128(u)]
    [] j.kind = "base64" -> O!B!Base64Decode(j.coded)
    [] j.kind \in O!ToolKinds -> O!ToolOutcome(j)

NoJob == [kind |-> "none"]
Run == job.kind # "none" /\ result = Null /\ result' = Outcome(job) /\ UNCHANGED job

-----------------------------------------------------------------------------
MCInit ==
  /\ program \in Chosen
  /\ C!Init /\ D!Init /\ M!Init /\ L!Init /\ Y!Init /\ P!Init
  /\ program # "players" => path = [p \in Players |-> <<"s", "x">>]
  /\ program # "cpy" => /\ content = <<>> /\ status = TRUE
                        /\ options = [source |-> "file", keep |-> FALSE, newline |-> FALSE]
  /\ job \in CASE program = "convert" -> Jobs
               [] program = "ranges" -> O!RangeJobs
               [] program = "samples" -> SampleJobs
               [] OTHER -> {NoJob}
  /\ result = Null

\* A step of the program that runs; the others stay as they are.
Cexec == program = "cexec" /\ C!Next
         /\ UNCHANGED <<program, drunVars, mapVars, ldapVars, cpyVars, playerVars, jobVars>>
Drun == program = "drun" /\ D!Next
        /\ UNCHANGED <<program, cexecVars, mapVars, ldapVars, cpyVars, playerVars, jobVars>>
Map == program = "map" /\ M!Next
       /\ UNCHANGED <<program, cexecVars, drunVars, ldapVars, cpyVars, playerVars, jobVars>>
Ldap == program = "ldap" /\ L!Next
        /\ UNCHANGED <<program, cexecVars, drunVars, mapVars, cpyVars, playerVars, jobVars>>
Cpy == program = "cpy" /\ Y!Next
       /\ UNCHANGED <<program, cexecVars, drunVars, mapVars, ldapVars, playerVars, jobVars>>
Scripts == program = "players" /\ P!Next
           /\ UNCHANGED <<program, cexecVars, drunVars, mapVars, ldapVars, cpyVars, jobVars>>
Convert == program \in {"convert", "ranges", "samples"} /\ Run
           /\ UNCHANGED <<program, cexecVars, drunVars, mapVars, ldapVars, cpyVars, playerVars>>

MCNext == Cexec \/ Drun \/ Map \/ Ldap \/ Cpy \/ Scripts \/ Convert

MCSpec == MCInit /\ [][MCNext]_allVars

-----------------------------------------------------------------------------
(* Properties of the conversions                                           *)

Done(kind) == job.kind = kind /\ result # Null

\* Whatever document a loader takes it has read as it says, and every alert is
\* emitted as often as it asks, with the labels of all and its own.  The JSON
\* loader takes just the documents with all names that it has room for; toml.c
\* none without room, and all with plain labels and no blank before their array.
ScenarioReadAsWritten ==
  Done("scenario") =>
    /\ S!Plain(job.doc) /\ ~job.gap /\ ~job.full => result.toml.ok
    /\ result.toml.ok => S!Fits(job.doc) /\ ~job.full /\ S!Says(result.toml, job.doc)
    /\ result.json.ok <=> (S!JsonReadable(job.doc, Cap) /\ ~job.full)
    /\ result.json.ok =>
         /\ S!Says(result.json, job.doc)
         /\ Tail(result.events) # <<>> => result.events[1].labels = job.doc.labels
         /\ [i \in 1 .. Len(result.events) - 1 |->
               [title |-> result.events[i + 1].title, labels |-> result.events[i + 1].labels]]
            = S!WantedAlerts(job.doc)

\* Whatever text is taken for an array of labels is one, written in one of the
\* ways that TOML allows, with these labels.
ArrayReadAsWritten == Done("array") => (result.ok => S!WrittenAs(result.val, job.text))

ScenariosLoadAsWritten == ScenarioReadAsWritten /\ ArrayReadAsWritten

\* hex: what is encoded has the size that was computed for it, and decodes to
\* the bytes that were given, short of what lies behind a NUL, behind the end
\* of the buffer, or of newlines at the end.
HexKept ==
  Done("hex") =>
    LET read == IF job.o.stdin THEN SubSeq(job.bytes, 1, Min({4, Len(job.bytes)})) ELSE job.bytes
        kept == IF \E i \in DOMAIN read : read[i] = 0
                THEN SubSeq(read, 1, Min({i \in DOMAIN read : read[i] = 0}) - 1) ELSE read
    IN  /\ result.back.ok <=> (result.text # <<>>)
        /\ result.back.ok =>
             /\ IsPrefix(result.back.out, kept)
             /\ ToSet(SubSeq(kept, Len(result.back.out) + 1, Len(kept))) \subseteq {10}
             /\ job.o.keep => result.back.out = kept
             /\ Len(result.text) = X!HexEncodedSize(Len(result.back.out), Len(job.o.sep), Len(job.o.esc))

\* itoh and htoi: itoh returns unless it looks for the least width of a number
\* that needs all eight bytes, and what it writes without a prefix comes back
\* as what of the number fits the width.
NumberKept ==
  Done("number") =>
    LET width == IF job.o.minw THEN 8 ELSE job.o.width
    IN  /\ ~(job.o.minw /\ ~job.o.le /\ job.n[1] # 0) => result.text.ok
        /\ result.text.ok /\ job.o.esc = <<>> =>
             /\ result.back.ok
             /\ result.back.out = [i \in 1 .. 8 |-> IF i > 8 - width THEN job.n[i] ELSE 0]

\* cuteid: an entity comes back from its uuid, which is one of version 8 and of
\* the variant of RFC 9562; the text a command prints is read by the others.
\* encode refuses times before its epoch and beyond 42 bits of milliseconds, but
\* that is said of no more than 54 bits of seconds: of more, the product that is
\* checked may have run over its 64 bits.
EntityKept ==
  Done("fields") =>
    /\ result.fields = [start_time |-> K!Low(job.f.start_time, 42),
                        server_id |-> K!Low(job.f.server_id, 4), schema |-> K!Low(job.f.schema, 4),
                        process_handle |-> job.f.process_handle, alert_handle |-> job.f.alert_handle]
    /\ K!UuidVersion(result.uuid) = 8 /\ K!UuidVariant(result.uuid) = 1
    /\ result.decoded.ok <=> (K!Low(job.f.schema, 4) = K!Zeros(4))
    /\ result.info.ok /\ result.info.text = result.text
    /\ result.info.entity = IF result.decoded.ok THEN <<result.decoded.entity>> ELSE <<>>
    /\ ~result.before.ok
    /\ K!Fits(job.f.start_time, 20) => (result.cmd.ok <=> K!Fits(job.f.server_id, 4))
    /\ K!Fits(job.f.start_time, 54) /\ ~K!Fits(job.f.start_time, 42) => ~result.cmd.ok
    /\ K!Fits(job.f.start_time, 20) /\ result.cmd.ok =>
         LET back == K!CmdDecode(result.cmd.text, FALSE)
         IN  back.ok /\ K!ByteFromBits(back.entity.start_time) = 1000 * K!ByteFromBits(job.f.start_time)
                     /\ back.entity.server_id = K!Low(job.f.server_id, 4)

\* The two readers of uuids agree on what they both read.  cuteid reads less: it
\* allows only blanks behind a uuid; uuid.cpp allows none before it.  What is
\* read is written in the usual form, from which it is read again.
UuidReadAlike ==
  Done("uuid") =>
    /\ result.cute.ok /\ job.text[1] \notin K!Blanks =>
         result.uuid.ok /\ result.uuid.bytes = result.cute.u
    /\ result.uuid.ok =>
         LET u == U!FromBytes(result.uuid.bytes)
             text == U!WriteString(u)
         IN  /\ U!UuidFromString(text) = result.uuid
             /\ text = K!UuidFormat(result.uuid.bytes, TRUE)
             /\ K!UuidParse(text) = [ok |-> TRUE, u |-> U!ToBytes(u)]
             /\ K!UuidParse(K!UuidFormat(result.uuid.bytes, FALSE)).u = U!ToBytes(u)
    /\ result.uuid.ok /\ ~result.cute.ok =>
         \E n \in DOMAIN job.text : K!UuidParse(SubSeq(job.text, 1, n)).ok

\* uuid.cpp: of two uuids that are not the same just one is less, and the same
\* ones have the same hash; nil and no other uuid is the number 0.
UuidOrdered ==
  Done("pair") =>
    /\ result.equal <=> (job.u = job.v)
    /\ Cardinality({r \in {"equal", "less", "greater"} : result[r]}) = 1
    /\ result.equal => result.sameHash
    /\ result.number = 0 <=> job.u = Alone(1, 0)
    /\ result.number = 0 => U!ToBytes(U!FromU128(result.number)) = job.u

\* codec.c: what is read is base64 in whole groups, padded at its end or not at
\* all, and its bytes are written as that text again, up to the bits of the last
\* digit that stand for no byte.  All such text without padding is read, and with
\* padding that whose last group has no odd digit.
Base64Read ==
  Done("base64") =>
    LET t == job.coded
        n == Len(t)
        pads == Cardinality({i \in DOMAIN t : t[i] = 64})
        legal == /\ n % 4 = 0 /\ ToSet(t) \subseteq 0 .. 64
                 /\ pads <= 2 /\ \A i \in DOMAIN t : t[i] = 64 <=> i > n - pads
        again == Y!Encode(result.out)
    IN  /\ legal /\ (pads = 0 \/ \A i \in n - 3 .. n : t[i] % 2 = 0) => result.ok
        /\ result.ok =>
             /\ legal /\ Len(again) = n
             /\ \A i \in DOMAIN t :
                  IF pads > 0 /\ i = n - pads
                  THEN t[i] \div 4 ^ pads = again[i] \div 4 ^ pads
                  ELSE t[i] = again[i]

\* Every other filter and function gives what MCTools says of it.
ToolsRight == job.kind \in O!ToolKinds /\ (result # Null) => O!ToolRight(job, result)

CodesRoundTrip == HexKept /\ NumberKept /\ EntityKept /\ UuidReadAlike /\ UuidOrdered /\ Base64Read

-----------------------------------------------------------------------------
(* What the repository's own documents say                                 *)

\* "labels = ["env:test", "service:demo"]" (config_example.toml:6): a document in
\* the form of the sample is read.
SampleFormRead == Done("scenario") /\ job.gap /\ S!Plain(job.doc) => result.toml.ok

\* "Adding `=` to the end specifier will make the range inclusive of that index;
\* e.g. `1..=-1` is equivalent to `1..`." (the README of ss, line 30)
NegativeEndIncluded == Done("range") => O!NegativeEndIncluded(job, result)
=============================================================================
