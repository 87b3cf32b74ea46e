---------------------------- MODULE ScenarioJson ----------------------------
(***************************************************************************)
(* The JSON scenario loader and what is made of a scenario                 *)
(* (dot_examples/c/cppjson/scenario_json.cpp, main.cpp).  simdjson is      *)
(* external: a value is a record of its type and what it holds, an object  *)
(* a function on its keys.  A field of another type than the loader asks   *)
(* for is as good as missing.  Strings are sequences; each takes its       *)
(* length and a NUL in the arena.                                          *)
(***************************************************************************)
EXTENDS Naturals, Sequences, SequencesExt

CONSTANTS
  MaxLabels, MaxAlerts,  \* SCENARIO_MAX_LABELS, SCENARIO_MAX_ALERTS
  MaxUint32,             \* the largest value of count and period_ms
  Null                   \* a pointer that is not set

Statuses == {"Unknown", "Up", "Weak", "Dead", "Ended"}
Levels == {"Unknown", "Positive", "Information", "Warning", "Critical", "Fatal"}

\* obj[key].get(...) succeeds.
Has(obj, key, type) == key \in DOMAIN obj /\ obj[key].type = type

\* parse_app_status_sv, parse_alert_level_sv
OneOf(names, text) == IF Len(text) = 1 /\ text[1] \in names THEN text[1] ELSE "Unknown"

NoLabels == [start |-> 0, count |-> 0]

NewApp == [handle |-> 1, name |-> Null, host |-> Null, status |-> "Up", labels |-> NoLabels]

NewAlert ==
  [title |-> Null, body |-> Null, level |-> "Unknown", labels |-> NoLabels,
   count |-> 1, period |-> 0, at |-> Null]

Empty ==
  [ok |-> TRUE, used |-> 0, app |-> NewApp, defaultLevel |-> Null,
   defaultLabels |-> NoLabels, alerts |-> <<>>, labels |-> <<>>]

Fail(s) == [s EXCEPT !.ok = FALSE]

\* A step is taken only when those before it have succeeded.
Then(s, step(_)) == IF s.ok THEN step(s) ELSE s

\* arena_copy_sv
ArenaCopy(s, text, cap) ==
  IF s.used + Len(text) + 1 > cap THEN Fail(s) ELSE [s EXCEPT !.used = @ + Len(text) + 1]

\* One label of parse_labels_array.
AddLabel(s, elem, cap) ==
  IF elem.type # "string" \/ Len(s.labels) >= MaxLabels THEN Fail(s)
  ELSE Then(ArenaCopy(s, elem.is, cap), LAMBDA t : [t EXCEPT !.labels = Append(@, elem.is)])

\* parse_labels_array, for the field labels of obj, if it is an array.
ParseLabelsArray(s, obj, cap, set(_, _)) ==
  IF ~Has(obj, "labels", "array") THEN s
  ELSE Then(FoldLeft(LAMBDA t, e : Then(t, LAMBDA u : AddLabel(u, e, cap)), s, obj["labels"].is),
            LAMBDA t : set(t, [start |-> Len(s.labels), count |-> Len(obj["labels"].is)]))

\* A string field that may be missing, or must not be.
OptionalString(s, obj, key, cap, set(_, _)) ==
  IF Has(obj, key, "string")
  THEN Then(ArenaCopy(s, obj[key].is, cap), LAMBDA t : set(t, obj[key].is)) ELSE s

RequiredString(s, obj, key, cap, set(_, _)) ==
  IF Has(obj, key, "string") THEN OptionalString(s, obj, key, cap, set) ELSE Fail(s)

ParseApp(s0, obj, cap) ==
  LET s1 == IF Has(obj, "handle", "number") THEN [s0 EXCEPT !.app.handle = obj["handle"].is] ELSE s0
      s2 == RequiredString(s1, obj, "name", cap, LAMBDA t, v : [t EXCEPT !.app.name = v])
      s3 == Then(s2, LAMBDA s : OptionalString(s, obj, "host_name", cap,
                                  LAMBDA t, v : [t EXCEPT !.app.host = v]))
      s4 == IF Has(obj, "status", "string")
            THEN [s3 EXCEPT !.app.status = OneOf(Statuses, obj["status"].is)] ELSE s3
  IN  Then(s4, LAMBDA s : ParseLabelsArray(s, obj, cap, LAMBDA t, r : [t EXCEPT !.app.labels = r]))

ParseAlertDefaults(s0, obj, cap) ==
  LET s1 == [s0 EXCEPT !.defaultLabels = [start |-> Len(s0.labels), count |-> 0],
                       !.defaultLevel =
                          IF Has(obj, "level", "string") THEN OneOf(Levels, obj["level"].is) ELSE Null]
  IN  ParseLabelsArray(s1, obj, cap, LAMBDA t, r : [t EXCEPT !.defaultLabels = r])

\* A number that must be one of range when it is there.
NumberIn(s, obj, key, range, set(_, _)) ==
  IF ~Has(obj, key, "number") THEN s
  ELSE IF obj[key].is \in range THEN set(s, obj[key].is) ELSE Fail(s)

ParseSingleAlert(s0, obj, cap) ==
  LET i  == Len(s0.alerts) + 1
      s1 == [s0 EXCEPT !.alerts = Append(@, NewAlert)]
      s2 == RequiredString(s1, obj, "title", cap, LAMBDA t, v : [t EXCEPT !.alerts[i].title = v])
      s3 == Then(s2, LAMBDA s : OptionalString(s, obj, "body", cap,
                                  LAMBDA t, v : [t EXCEPT !.alerts[i].body = v]))
      s4 == IF Has(obj, "level", "string")
            THEN [s3 EXCEPT !.alerts[i].level = OneOf(Levels, obj["level"].is)] ELSE s3
      s5 == Then(s4, LAMBDA s : ParseLabelsArray(s, obj, cap,
                                  LAMBDA t, r : [t EXCEPT !.alerts[i].labels = r]))
      s6 == Then(s5, LAMBDA s : NumberIn(s, obj, "count", 1 .. MaxUint32,
                                  LAMBDA t, v : [t EXCEPT !.alerts[i].count = v]))
      s7 == Then(s6, LAMBDA s : NumberIn(s, obj, "period_ms", 0 .. MaxUint32,
                                  LAMBDA t, v : [t EXCEPT !.alerts[i].period = v]))
  IN  IF Has(obj, "at_ms", "number") THEN [s7 EXCEPT !.alerts[i].at = obj["at_ms"].is] ELSE s7

\* scenario_load_from_json: what it fills is handed over only in the end.
LoadFromJson(root, cap) ==
  LET app == IF Has(root, "app", "object") THEN ParseApp(Empty, root["app"].is, cap) ELSE Fail(Empty)
      defaults == Then(app, LAMBDA s :
        IF Has(root, "alert_defaults", "object")
        THEN ParseAlertDefaults(s, root["alert_defaults"].is, cap)
        ELSE [s EXCEPT !.defaultLabels = [start |-> Len(s.labels), count |-> 0]])
      addAlert(t, el) == Then(t, LAMBDA u :
        IF el.type # "object" \/ Len(u.alerts) >= MaxAlerts THEN Fail(u)
        ELSE ParseSingleAlert(u, el.is, cap))
  IN  Then(defaults, LAMBDA s :
        IF Has(root, "alerts", "array") THEN FoldLeft(addAlert, s, root["alerts"].is) ELSE s)

-----------------------------------------------------------------------------
(* main.cpp                                                                *)

\* read_config: as in the other loader, a buffer that is just full is refused.
ReadConfig(size, regular, cap) == regular /\ size <= cap /\ size < cap

LabelsIn(sc, range) ==
  SubSeq(sc.labels, range.start + 1, range.start + range.count)

\* build_and_emit_application
ApplicationEvent(sc) ==
  [type |-> "application", handle |-> sc.app.handle, name |-> sc.app.name,
   host |-> sc.app.host, status |-> sc.app.status, labels |-> LabelsIn(sc, sc.app.labels)]

\* (Mutant of AlertEvent: only the alert's own labels.)
AlertEvent_OwnLabels(sc, alert) ==
  [type |-> "alert", handle |-> sc.app.handle, title |-> alert.title, body |-> alert.body,
   level |-> alert.level, labels |-> LabelsIn(sc, alert.labels)]

\* The default level, the period and the time have no part in it.
AlertEvent(sc, alert) ==
  [type |-> "alert", handle |-> sc.app.handle, title |-> alert.title, body |-> alert.body,
   level |-> alert.level,
   labels |-> LabelsIn(sc, sc.defaultLabels) \o LabelsIn(sc, alert.labels)]

\* build_and_emit_alerts: each alert as often as it says.
AlertEvents(sc) ==
  FlattenSeq([i \in DOMAIN sc.alerts |->
    [j \in 1 .. sc.alerts[i].count |-> AlertEvent(sc, sc.alerts[i])]])

\* What main prints of a scenario.
Emitted(sc) == IF sc.ok THEN <<ApplicationEvent(sc)>> \o AlertEvents(sc) ELSE <<>>
=============================================================================
