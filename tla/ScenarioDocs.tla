---------------------------- MODULE ScenarioDocs ----------------------------
(***************************************************************************)
(* What the two scenario loaders should make of the same document: its     *)
(* written forms in TOML and in JSON, and what is read when it is read     *)
(* right.  Nothing here models code.  A number is written as a word.       *)
(***************************************************************************)
EXTENDS Naturals, Sequences, SequencesExt, FiniteSets, TLC

CONSTANTS MaxLabels, MaxAlerts, MaxUint32, NumberOf, Null

T == INSTANCE ScenarioToml
J == INSTANCE ScenarioJson

\* The words for a number, and the number itself.
Word(n) == CHOOSE w \in DOMAIN NumberOf : NumberOf[w] = n

-----------------------------------------------------------------------------
(* TOML                                                                    *)

WriteString(text) ==
  <<T!Quote>>
  \o FlattenSeq([i \in DOMAIN text |->
       IF text[i] \in {T!Quote, T!Escape} THEN <<T!Escape, text[i]>> ELSE <<text[i]>>])
  \o <<T!Quote>>

WriteArray(labels) ==
  <<"[">>
  \o FlattenSeq([i \in DOMAIN labels |->
       WriteString(labels[i]) \o IF i = Len(labels) THEN <<>> ELSE <<",", T!Blank>>])
  \o <<"]">>

Header(name, double) == [kind |-> "header", name |-> name, double |-> double]
Pair(key, val) == [kind |-> "pair", key |-> key, val |-> val]
StringLine(key, text) == IF text = Null THEN <<>> ELSE <<Pair(key, <<T!Blank>> \o WriteString(text))>>
NumberLine(key, n) == <<Pair(key, <<T!Blank, Word(n)>>)>>

\* gap: a blank stands before the array, as in config_example.toml.
LabelLine(labels, gap) ==
  IF labels = <<>> THEN <<>>
  ELSE <<Pair("labels", (IF gap THEN <<T!Blank>> ELSE <<>>) \o WriteArray(labels))>>

TomlLines(doc, gap) ==
  <<[kind |-> "blank"], Header("app", FALSE)>> \o NumberLine("handle", doc.handle)
  \o StringLine("name", doc.name) \o StringLine("host_name", doc.host)
  \o StringLine("status", doc.status) \o LabelLine(doc.labels, gap) \o <<Pair("other", <<"a">>)>>
  \o (IF doc.defaults = <<>> THEN <<>>
      ELSE <<Header("alert_defaults", FALSE)>> \o StringLine("level", doc.defaults[1].level)
           \o LabelLine(doc.defaults[1].labels, gap) \o <<Pair("other", <<"a">>)>>)
  \o FlattenSeq([i \in DOMAIN doc.alerts |->
       LET a == doc.alerts[i]
       IN  <<Header("alerts", TRUE)>> \o StringLine("title", a.title) \o StringLine("body", a.title)
           \o StringLine("level", a.level) \o LabelLine(a.labels, gap) \o NumberLine("count", a.count)
           \o NumberLine("period_ms", a.count) \o NumberLine("at_ms", a.count)
           \o <<Pair("other", <<"a">>)>>])

-----------------------------------------------------------------------------
(* JSON                                                                    *)

Value(type, is) == [type |-> type, is |-> is]
StringField(key, text) == IF text = Null THEN <<>> ELSE key :> Value("string", text)
LabelField(labels) ==
  "labels" :> Value("array", [i \in DOMAIN labels |-> Value("string", labels[i])])

JsonRoot(doc) ==
  LET alert(a) == StringField("title", a.title) @@ StringField("body", a.title)
                  @@ StringField("level", a.level) @@ LabelField(a.labels)
                  @@ [k \in {"count", "period_ms", "at_ms"} |-> Value("number", a.count)]
  IN  "app" :> Value("object", "handle" :> Value("number", doc.handle)
                @@ StringField("name", doc.name) @@ StringField("host_name", doc.host)
                @@ StringField("status", doc.status) @@ LabelField(doc.labels))
      @@ (IF doc.defaults = <<>> THEN <<>>
          ELSE "alert_defaults" :> Value("object", StringField("level", doc.defaults[1].level)
                                         @@ LabelField(doc.defaults[1].labels)))
      @@ "alerts" :> Value("array", [i \in DOMAIN doc.alerts |-> Value("object", alert(doc.alerts[i]))])

-----------------------------------------------------------------------------
(* What should be read                                                     *)

Known(names, text) == IF \E w \in names : text = <<w>> THEN text[1] ELSE "Unknown"
DefaultsOf(doc) == IF doc.defaults = <<>> THEN <<>> ELSE doc.defaults[1].labels

Lists(doc) == <<doc.labels, DefaultsOf(doc)>> \o [i \in DOMAIN doc.alerts |-> doc.alerts[i].labels]
AllLabels(doc) == FlattenSeq(Lists(doc))

Fits(doc) ==
  /\ Len(AllLabels(doc)) <= MaxLabels /\ Len(doc.alerts) <= MaxAlerts
  /\ \A i \in DOMAIN doc.alerts : doc.alerts[i].count \in 1 .. MaxUint32

\* The labels a loader has read for a part of the document.
LabelsOf(sc, range) == SubSeq(sc.labels, range.start + 1, range.start + range.count)

\* A scenario says what the document says.
Says(sc, doc) ==
  /\ sc.app.handle = doc.handle /\ sc.app.name = doc.name /\ sc.app.host = doc.host
  /\ sc.app.status = Known(T!Statuses, doc.status)
  /\ LabelsOf(sc, sc.app.labels) = doc.labels
  /\ LabelsOf(sc, sc.defaultLabels) = DefaultsOf(doc)
  /\ doc.defaults # <<>> => sc.defaultLevel = Known(T!Levels, doc.defaults[1].level)
  /\ Len(sc.alerts) = Len(doc.alerts)
  /\ \A i \in DOMAIN doc.alerts :
       LET a == sc.alerts[i]  d == doc.alerts[i] IN
       /\ a.title = d.title /\ a.body = d.title /\ a.level = Known(T!Levels, d.level)
       /\ LabelsOf(sc, a.labels) = d.labels
       /\ a.count = d.count /\ a.period = d.count /\ a.at = d.count

\* The alert events a document asks for, in order; the alert's labels follow
\* those that all alerts share.
WantedAlerts(doc) ==
  FlattenSeq([i \in DOMAIN doc.alerts |->
    [j \in 1 .. doc.alerts[i].count |->
      [title |-> doc.alerts[i].title, labels |-> DefaultsOf(doc) \o doc.alerts[i].labels]]])

\* A document there is room for, with neither a comma nor a bracket in a label.
Plain(doc) ==
  /\ Fits(doc)
  /\ \A l \in ToSet(AllLabels(doc)) : ToSet(l) \cap {",", "]"} = {}

\* JSON: an application and an alert need a name, and the strings must fit.
Strings(doc) ==
  AllLabels(doc) \o SelectSeq(<<doc.name, doc.host>>
    \o FlattenSeq([i \in DOMAIN doc.alerts |-> <<doc.alerts[i].title, doc.alerts[i].title>>]),
    LAMBDA s : s # Null)

JsonReadable(doc, cap) ==
  /\ Fits(doc) /\ doc.name # Null /\ \A i \in DOMAIN doc.alerts : doc.alerts[i].title # Null
  /\ FoldLeft(LAMBDA n, s : n + Len(s) + 1, 0, Strings(doc)) <= cap

\* A text with these labels as an array, whatever blanks it has and whether or
\* not a comma follows the last.
Squeezed(text) == SelectSeq(text, LAMBDA c : c # T!Blank)
WrittenAs(labels, text) ==
  LET exact == Squeezed(WriteArray(labels))
  IN  Squeezed(text) \in {exact, Front(exact) \o <<",", "]">>}
=============================================================================
