---------------------------- MODULE ScenarioToml ----------------------------
(***************************************************************************)
(* The TOML scenario loader (dot_examples/c/toml/toml.c).  A text is a     *)
(* sequence of symbols: a quote, a backslash, a blank, a bracket, a comma, *)
(* an equals sign, or a word.  The loader takes a sequence of lines, each  *)
(* trimmed as parse_buffer trims them, and works in place; a NUL it writes *)
(* over a delimiter is what makes it refuse unquoted elements.             *)
(***************************************************************************)
EXTENDS Naturals, Sequences, SequencesExt, FiniteSets

CONSTANTS
  MaxLabels, MaxAlerts,  \* SCENARIO_MAX_LABELS, SCENARIO_MAX_ALERTS
  MaxUint32,             \* the largest value of count and period_ms
  NumberOf,              \* what strtoull makes of a word, a function on the numerals
  Null                   \* a string that is not set

Quote == "\""
Escape == "\\"
Blank == " "

Statuses == {"Unknown", "Up", "Weak", "Dead", "Ended"}
Levels == {"Unknown", "Positive", "Information", "Warning", "Critical", "Fatal"}

Bad == [ok |-> FALSE, val |-> <<>>]
Good(v) == [ok |-> TRUE, val |-> v]
Before(x, r) == IF r.ok THEN Good(<<x>> \o r.val) ELSE Bad

AllBlank(s) == ToSet(s) \subseteq {Blank}
Suffix(s, i) == SubSeq(s, i, Len(s))

TrimLeft(s) ==
  LET solid == {i \in DOMAIN s : s[i] # Blank}
  IN  IF solid = {} THEN <<>> ELSE Suffix(s, Min(solid))

TrimRight(s) == Reverse(TrimLeft(Reverse(s)))

-----------------------------------------------------------------------------
(* Values                                                                  *)

\* parse_string_literal: the text between two quotes; only a quote and a
\* backslash may be escaped, and only blanks may follow.
ParseStringLiteral(s) ==
  LET from[i \in 2 .. Len(s) + 2] ==
        IF i > Len(s) THEN Bad
        ELSE IF s[i] = Quote
          THEN IF AllBlank(Suffix(s, i + 1)) THEN Good(<<>>) ELSE Bad
        ELSE IF s[i] # Escape THEN Before(s[i], from[i + 1])
        ELSE IF i < Len(s) /\ s[i + 1] \in {Quote, Escape} THEN Before(s[i + 1], from[i + 2])
        ELSE Bad
  IN  IF s # <<>> /\ s[1] = Quote THEN from[2] ELSE Bad

Quoted(s) == Len(s) > 1 /\ s[1] = Quote /\ s[Len(s)] = Quote

\* (Mutant of ParseStringArray: a bracket is looked for in the whole element.)
ParseStringArray_ToBracket(s, room) ==
  IF s = <<>> \/ s[1] # "[" \/ s[Len(s)] # "]" THEN Bad
  ELSE LET item == ParseStringLiteral(TrimRight(TrimLeft(SubSeq(s, 2, Len(s) - 1))))
       IN  IF Len(s) = 2 THEN Good(<<>>)
           ELSE IF item.ok /\ room > 0 THEN Good(<<item.val>>) ELSE Bad

\* parse_string_array, with so much room for labels.  It does not trim what it
\* is given.  An element ends at the next comma or bracket, quoted or not; one
\* that is not quoted is ended by a NUL, which is then met in place of the
\* delimiter, or of the blank before it.
ParseStringArray(s, room) ==
  LET from[i \in 2 .. Len(s) + 1] ==
        LET rest  == TrimLeft(Suffix(s, i))
            stops == {j \in i .. Len(s) : s[j] \in {",", "]"}}
            stop  == Min(stops)
            item  == TrimRight(TrimLeft(SubSeq(s, i, stop - 1)))
            value == ParseStringLiteral(item)
            end   == IF AllBlank(Suffix(s, stop + 1)) THEN Good(<<>>) ELSE Bad
        IN  IF stops = {} THEN Bad
            ELSE IF rest[1] = "]" THEN end
            ELSE IF ~Quoted(item) \/ ~value.ok THEN Bad
            ELSE Before(value.val, IF s[stop] = "," THEN from[stop + 1] ELSE end)
      all == IF s # <<>> /\ s[1] = "[" THEN from[2] ELSE Bad
  IN  IF Len(all.val) <= room THEN all ELSE Bad

\* parse_value_string_or_ident
ParseValue(s) ==
  LET v == TrimRight(TrimLeft(s))
  IN  IF v = <<>> THEN Bad ELSE IF Quoted(v) THEN ParseStringLiteral(v) ELSE Good(v)

\* parse_uint64, of a numeral.
Number(s) ==
  LET v == ParseValue(s)
  IN  IF v.ok /\ Len(v.val) = 1 /\ v.val[1] \in DOMAIN NumberOf
      THEN Good(NumberOf[v.val[1]]) ELSE Bad

\* parse_app_status and parse_alert_level: what they do not know is Unknown.
OneOf(names, text) == IF Len(text) = 1 /\ text[1] \in names THEN text[1] ELSE "Unknown"

-----------------------------------------------------------------------------
(* Lines                                                                   *)

NoLabels == [start |-> 0, count |-> 0]

NewApp == [handle |-> 1, name |-> Null, host |-> Null, status |-> "Up", labels |-> NoLabels]

NewAlert ==
  [title |-> Null, body |-> Null, level |-> "Unknown", labels |-> NoLabels,
   count |-> 1, period |-> 0, at |-> Null]

Empty ==
  [ok |-> TRUE, section |-> "none", app |-> NewApp, defaultLevel |-> Null,
   defaultLabels |-> NoLabels, alerts |-> <<>>, labels |-> <<>>]

Fail(sc) == [sc EXCEPT !.ok = FALSE]

\* parse_section_header: [app] and [alert_defaults] begin anew, [[alerts]] adds one.
ParseSectionHeader(sc, line) ==
  CASE line.name = "alerts" /\ line.double ->
         IF Len(sc.alerts) >= MaxAlerts THEN Fail(sc)
         ELSE [sc EXCEPT !.section = "alert", !.alerts = Append(@, NewAlert)]
    [] line.name = "app" /\ ~line.double ->
         [sc EXCEPT !.section = "app", !.app = NewApp]
    [] line.name = "alert_defaults" /\ ~line.double ->
         [sc EXCEPT !.section = "defaults", !.defaultLevel = Null,
                    !.defaultLabels = [start |-> Len(sc.labels), count |-> 0]]
    [] OTHER -> Fail(sc)

\* A field that is set to what was read, or a failure.
SetTo(sc, r, set(_)) == IF r.ok THEN set(r.val) ELSE Fail(sc)

\* The labels go to the next slots.
SetLabels(sc, val, set(_, _)) ==
  LET r == ParseStringArray(val, MaxLabels - Len(sc.labels))
  IN  SetTo(sc, r, LAMBDA v :
        set([sc EXCEPT !.labels = @ \o v], [start |-> Len(sc.labels), count |-> Len(v)]))

HandleKvApp(sc, key, val) ==
  CASE key = "handle" -> SetTo(sc, Number(val), LAMBDA v : [sc EXCEPT !.app.handle = v])
    [] key = "name" -> SetTo(sc, ParseValue(val), LAMBDA v : [sc EXCEPT !.app.name = v])
    [] key = "host_name" -> SetTo(sc, ParseValue(val), LAMBDA v : [sc EXCEPT !.app.host = v])
    [] key = "status" -> SetTo(sc, ParseValue(val), LAMBDA v :
         [sc EXCEPT !.app.status = OneOf(Statuses, v)])
    [] key = "labels" -> SetLabels(sc, val, LAMBDA s, range : [s EXCEPT !.app.labels = range])
    [] OTHER -> sc

HandleKvAlertDefaults(sc, key, val) ==
  CASE key = "level" -> SetTo(sc, ParseValue(val), LAMBDA v :
         [sc EXCEPT !.defaultLevel = OneOf(Levels, v)])
    [] key = "labels" -> SetLabels(sc, val, LAMBDA s, range : [s EXCEPT !.defaultLabels = range])
    [] OTHER -> sc

HandleKvAlert(sc, key, val) ==
  LET cur == Len(sc.alerts)
      number == Number(val)
      text == ParseValue(val)
  IN
  CASE key = "title" -> SetTo(sc, text, LAMBDA v : [sc EXCEPT !.alerts[cur].title = v])
    [] key = "body" -> SetTo(sc, text, LAMBDA v : [sc EXCEPT !.alerts[cur].body = v])
    [] key = "level" -> SetTo(sc, text, LAMBDA v :
         [sc EXCEPT !.alerts[cur].level = OneOf(Levels, v)])
    [] key = "labels" -> SetLabels(sc, val, LAMBDA s, range :
         [s EXCEPT !.alerts[cur].labels = range])
    [] key = "count" -> SetTo(sc, number, LAMBDA v :
         IF v \in 1 .. MaxUint32 THEN [sc EXCEPT !.alerts[cur].count = v] ELSE Fail(sc))
    [] key = "period_ms" -> SetTo(sc, number, LAMBDA v :
         IF v <= MaxUint32 THEN [sc EXCEPT !.alerts[cur].period = v] ELSE Fail(sc))
    [] key = "at_ms" -> SetTo(sc, number, LAMBDA v : [sc EXCEPT !.alerts[cur].at = v])
    [] OTHER -> sc

\* One round of parse_buffer: a blank line or a comment, a header, or a key,
\* an equals sign and what follows it.
ParseLine(sc, line) ==
  IF ~sc.ok \/ line.kind = "blank" THEN sc
  ELSE IF line.kind = "header" THEN ParseSectionHeader(sc, line)
  ELSE IF line.kind # "pair" THEN Fail(sc)
  ELSE CASE sc.section = "app" -> HandleKvApp(sc, line.key, line.val)
         [] sc.section = "defaults" -> HandleKvAlertDefaults(sc, line.key, line.val)
         [] sc.section = "alert" -> HandleKvAlert(sc, line.key, line.val)
         [] OTHER -> Fail(sc)

ParseBuffer(lines) == FoldLeft(ParseLine, Empty, lines)

\* read_all_fd: it fails as soon as the buffer is full, before it knows
\* whether there is more; so does a file of just the size that stat admits.
ReadAllFd(size, cap) == size < cap

\* scenario_load_from_file, of a file with these lines and this size; stdin is
\* not looked at with stat and stands here as a regular file.
LoadFromFile(file, cap) ==
  IF file.regular /\ file.size <= cap /\ ReadAllFd(file.size, cap)
  THEN ParseBuffer(file.lines) ELSE Fail(Empty)
=============================================================================
