---------------------------- MODULE MCLoggerModule ----------------------------
(* Applications that vary one part of their setup each, so that variety in options and
   variety in calls do not multiply. *)
EXTENDS LoggerModule

CONSTANTS a, b, file, socket

Value(is, clear) == [is |-> is, clear |-> clear]

Secret   == {"password", "ssn", "0"}
Readable(fields) == [readable |-> TRUE, fields |-> fields]
Hostile  == [readable |-> FALSE, fields |-> Empty]
None     == Readable(Empty)
Call(method, message, tail, userId, metadata) ==
  [method |-> method, message |-> message, tail |-> tail, userId |-> userId, metadata |-> metadata]
Text     == Plain("text")

-----------------------------------------------------------------------------
\* Uses.
Boring   == Call("info", Text, << >>, Undefined, None)
Unreadable == Call("record", Value("error", {}), << >>, Undefined, Hostile)
Failing  == Call("errorStructured", Value("error", Secret), << >>, Undefined, None)

Outside  == [store |-> Empty, span |-> "none"]
Request(span) == [store |-> [requestId |-> Plain("r"), userId |-> Plain("stored")], span |-> span]

Forged ==
  [logKey |-> Plain("forged"), userId |-> Plain("forged"), context |-> Plain("forged"),
   plan |-> Value("object", Secret), password |-> Text]

AttributionCalls ==
  { Call("info", Text, << >>, user, metadata) :
      user \in {Undefined, Plain("given")},
      metadata \in {Readable(Forged), Hostile, Readable(Field("plan", Plain("hostile")))} }
  \cup { Call("raw", Text, << >>, Undefined, metadata) : metadata \in {Readable(Forged), Hostile} }

Errors == { Value(is, Secret) : is \in {"error", "large", "unreadable", "errorLike"} }

CauseCalls ==
  { Call("errorStructured", e, << >>, Plain("given"), metadata) :
      e \in Errors,
      metadata \in {None, Readable(Forged), Readable(Field("exception.message", Text))} }
  \cup { Call("record", e, << >>, Undefined, metadata) :
           e \in {Value("error", Secret), Plain("hostile"), Undefined},
           metadata \in {None, Hostile} }
  \cup { Call(method, message, tail, Undefined, None) :
           method \in {"log", "error"},
           message \in {Text, Value("unreadable", Secret), Plain("hostile")},
           tail \in {<< >>, << Value("large", Secret) >>,
                     << Text, Value("error", Secret) >>, << Value("errorLike", Secret), Text >>} }

LabelCalls ==
  { Boring, Call("raw", Text, << >>, Undefined, None),
    Call("log", Text, << Text >>, Undefined, None) }
  \cup { Call("error", message, tail, Undefined, None) :
           message \in {Text, Value("error", {})},
           tail \in { << Text >>, << Text, Text >>, << Text, Text, Value("error", {}) >> } }

MC_Usage ==
  [ quiet   |-> [bound |-> 0, calls |-> {}, ambients |-> {Outside}, labels |-> {}],
    mixed   |-> [bound |-> 1, calls |-> {Boring, Failing}, ambients |-> {Outside}, labels |-> {}],
    traced  |-> [bound |-> 2, calls |-> {Boring, Failing},
                 ambients |-> {Request(span) : span \in Spans}, labels |-> {}],
    entries |-> [bound |-> 1, calls |-> AttributionCalls \cup CauseCalls,
                 ambients |-> {Outside, Request("whole")}, labels |-> {}],
    labels  |-> [bound |-> 2, calls |-> LabelCalls, ambients |-> {Outside},
                 labels |-> {Plain("label")}],
    piped   |-> [bound |-> 3, calls |-> {Boring, Unreadable},
                 ambients |-> {Outside, Request("throws")}, labels |-> {}] ]

-----------------------------------------------------------------------------
\* Options and setups.
Options == DOMAIN Defaults(TRUE)
Only(option, value) ==
  [ x \in Options \cup {"service"} |->
      IF x = option THEN value ELSE IF x = "service" THEN "named" ELSE Absent ]
Bare == Only("service", "named")

Setup(usage, given) ==
  [ usage |-> usage, given |-> given, mode |-> "sync", production |-> TRUE,
    anchors |-> << "missing", "missing" >>, pipes |-> "whole", injected |-> {} ]

\* One option at a time, good or bad, in both modes, with two contexts to declare.
OptionSetups ==
  { [Setup("quiet", Only(option, value)) EXCEPT !.mode = mode, !.injected = injected] :
      mode \in {"sync", "async"},
      injected \in {{}, {a, b}},
      option \in Options \cup {"service"},
      value \in {"other"} }
  \cup
  { [Setup("quiet", given) EXCEPT !.mode = mode, !.injected = {a}, !.production = production] :
      mode \in {"sync", "async"}, production \in BOOLEAN,
      given \in { Bare, Only("http", "accessLog"), Only("http", "capturing"),
                  Only("shouldDisableDefaultRedact", "true"), Only("timestamp", "throws"),
                  Only("level", "fatal"), Only("destinations", "unreadable"),
                  Only("otel", "off"), Only("otel", "undefinedSwitch"),
                  Only("http", "undefinedSwitch"), Only("http", "undefinedCapture"),
                  Only("http", "undefinedPaths"), Only("redactPaths", "malformed"),
                  [Only("timestamp", "throws") EXCEPT !["level"] = "error"] } }

LevelSetups ==
  { Setup("mixed", [Only("destinations", "conforming") EXCEPT !["level"] = level]) :
      level \in {Absent, "error"} }

TraceSetups ==
  { [Setup("traced", Only("otel", otel)) EXCEPT !.anchors = << first, second >>] :
      otel \in {Absent, "off"}, first \in Outcomes, second \in Outcomes }

Entries(given) == Setup("entries", given)

EntrySetups ==
  { Entries([Bare EXCEPT !["redactStrategy"] = strategy, !["errorFormat"] = format,
                         !["errorOwnFields"] = own, !["serializers"] = serializers]) :
      strategy \in {Absent, "paths"}, format \in {Absent, "semconv", "both"},
      own \in {Absent, "safe"}, serializers \in {Absent, "return"} }
  \cup
  { Entries([Bare EXCEPT !["redactStrategy"] = strategy, !["errorOwnFields"] = own,
                         !["redactPaths"] = paths, !["shouldDisableDefaultRedact"] = disabled]) :
      strategy \in {Absent, "paths"}, own \in {Absent, "safe"},
      paths \in {Absent, "ssn[0]", "user.ssn"}, disabled \in {Absent, "true"} }
  \cup
  { Entries(Only("serializers", "throw")), Entries(Only("timestamp", "throws")),
    Entries(Only("eventNameField", "false")), Entries(Only("redactPaths", "*")) }

LabelSetups == { [Setup("labels", Bare) EXCEPT !.injected = {a, b}] }

PipeSetups ==
  { [Setup("piped", Bare) EXCEPT !.pipes = "breaking", !.anchors = << outcome, "noAnchor" >>] :
      outcome \in {"unusable", "usable"} }

MC_Setups == OptionSetups \cup LevelSetups \cup TraceSetups \cup EntrySetups
               \cup LabelSetups \cup PipeSetups
MC_HalfSetups ==
  { s \in EntrySetups : s.given["errorFormat"] = "both" /\ s.given["errorOwnFields"] = Absent }
MC_Answers == {"throws", Absent, "verbose", "debug", "error"}
==============================================================================
