---------------------------- MODULE LoggerModule ----------------------------
(***************************************************************************)
(* The module from registration to running: BymaxLoggerModule.forRoot and  *)
(* forRootAsync (logger.module.ts), the providers in the order dependency  *)
(* injection may build them, the loggers of @InjectLogger, the part of     *)
(* DestinationRegistry.onModuleInit that reads levels and announces, what  *)
(* every log call comes to, and the guard on the process's streams         *)
(* (utils/safe-stdio.util.ts).                                             *)
(*                                                                         *)
(* `setup` is what the application and its environment bring: the options  *)
(* given, whether they are given synchronously, what each anchor of the    *)
(* OpenTelemetry detection meets, whether the pipes behind the process's   *)
(* streams break, the contexts its classes inject a logger for, and the    *)
(* use it makes of the module (a key of Usage).                            *)
(***************************************************************************)
EXTENDS LogEntry

CONSTANTS
  Setups,     \* the setups considered
  Usage,      \* per use: the calls, their ambient contexts, a bound on their number, the labels
  Contexts,   \* the contexts @InjectLogger may name
  Sinks,      \* the destinations of an application that gives some
  Stdout,     \* the default destination
  Answers     \* what a getter for minLevel may answer

ASSUME SinksAssumption == Stdout \notin Sinks

\* The providers that are there whatever is injected.
OwnProviders ==
  {"options", "logContext", "health", "redactor", "destinations", "pino", "logger", "registry",
   "interceptor", "filter"}

ASSUME ContextsAssumption == Contexts \cap (OwnProviders \cup {"root", "undefined"}) = {}

ASSUME SetupsAssumption ==
  \A s \in Setups :
    /\ DOMAIN s.given = DOMAIN Defaults(TRUE) \cup {"service"}
    /\ s.anchors \in [1..2 -> Outcomes]
    /\ s.usage \in DOMAIN Usage

\* A user, a label or a context is a text, if there is one; a field left undefined is none.
IsText(value) == IsString(value) /\ value = Plain(value.is)
TextIfAny(value) == value = Undefined \/ IsText(value)

ASSUME UsageAssumption ==
  \A use \in DOMAIN Usage :
    /\ \A call \in Usage[use].calls :
         /\ call.method \in {"info", "errorStructured", "record", "log", "error", "raw"}
         /\ {"method", "message", "tail", "userId", "metadata"} \subseteq DOMAIN call
         /\ DOMAIN call.tail = 1..Len(call.tail) /\ Len(call.tail) \in Nat
         /\ TextIfAny(call.userId)
    /\ \A label \in Usage[use].labels : TextIfAny(label)
    /\ \A ambient \in Usage[use].ambients, name \in {"userId", "context"} :
         name \in DOMAIN ambient.store => IsText(ambient.store[name])

VARIABLES
  setup,
  options,      \* the options: as given, then as the providers receive them
  boot,         \* how far the application has come
  contexts,     \* contextTokens: the contexts declared so far
  provided,     \* the contexts whose providers were collected at registration
  built,        \* the providers that have been built
  minLevels,    \* resolvedMinLevels, per destination
  streamLevel,  \* the level of each destination's stream, at the factory
  healthLevel,  \* the level each destination is recorded with, at the registry
  traceApi,     \* what the detection of the mixin found
  warnings,     \* how often the broken installation was reported
  announced,    \* the bootstrap entries
  labels,       \* each logger's `context`
  line,         \* the last call and what it came to
  logged,       \* the number of calls, bounded per use
  streams       \* the process's streams

vars == << setup, options, boot, contexts, provided, built, minLevels, streamLevel, healthLevel,
           traceApi, warnings, announced, labels, line, logged, streams >>

Streams == {"stdout", "stderr"}
Loggers == {"root"} \cup Contexts

\* resolveDestinations: the application's replace the default.
Destinations == IF options.destinations = "none" THEN {Stdout} ELSE Sinks

Injecting == options.otel = "injecting"

-----------------------------------------------------------------------------
(* The streams.  A stream has a listener of this library's or not, and an   *)
(* EPIPE to report or not; `last` is the last thing done to its listeners   *)
(* or written to it by this library.                                        *)

\* Mutant: which streams were guarded is remembered.
EnsureGuardedOnce(stream) ==
  [stream EXCEPT !.listening = @ \/ stream.last = "nothing"]

EnsureGuarded(stream) == [stream EXCEPT !.listening = TRUE]

\* A write to a closed pipe returns; the error comes later.
WriteSafely(stream, breaks) ==
  [EnsureGuarded(stream) EXCEPT !.last = "written", !.pending = @ \/ breaks]

\* The library writes to these streams in this step, if to any.
WriteTo(names) ==
  \E breaking \in SUBSET (IF setup.pipes = "breaking" THEN names ELSE {}) :
    streams' = [ s \in Streams |->
                   IF s \in names THEN WriteSafely(streams[s], s \in breaking) ELSE streams[s] ]

StdoutIf(written) == IF written /\ Stdout \in Destinations THEN {"stdout"} ELSE {}
StderrIf(reported) == IF reported THEN {"stderr"} ELSE {}

-----------------------------------------------------------------------------
(* Registration.                                                            *)

HttpProviders ==
  (IF setup.mode = "async" \/ options.http # "disabled" THEN {"interceptor"} ELSE {})
    \cup (IF setup.mode # "async" /\ options.http = "capturing" THEN {"filter"} ELSE {})

Providers ==
  (OwnProviders \ {"interceptor", "filter"}) \cup HttpProviders \cup provided

\* Mutant: the health record is given the registry to look destinations up in.
HealthDepsOnRegistry == {"registry"}

\* It depends on nothing, so there is no cycle.
HealthDeps == {}

\* What each provider is built from; a context logger is built from the root.
Asks ==
  [ options      |-> {},
    logContext   |-> {},
    health       |-> HealthDeps,
    redactor     |-> {"options"},
    destinations |-> {"options"},
    pino         |-> {"options", "logContext", "destinations", "health"},
    logger       |-> {"pino", "redactor"},
    registry     |-> {"destinations", "logger", "options", "health"},
    interceptor  |-> {"logger", "options"},
    filter       |-> {"logger", "options"} ]

Deps(p) == IF p \in OwnProviders THEN Asks[p] ELSE {"logger"}

\* A class that names a context is loaded: its token is there from now on.
Declare(c) ==
  /\ boot \in {"declaring", "wiring"}
  /\ built = {}
  /\ c \in setup.injected \ contexts
  /\ contexts' = contexts \cup {c}
  /\ UNCHANGED << setup, options, boot, provided, built, minLevels, streamLevel, healthLevel,
                  traceApi, warnings, announced, labels, line, logged, streams >>

\* Options that fail validation are refused; the defaults may throw on those that pass.
Rejection == IF ValidateOptions(setup.given) THEN "threw" ELSE "refused"

Acceptable == ValidateOptions(setup.given) /\ ~ DefaultsThrow(setup.given)

\* forRoot validates here; forRootAsync leaves it to the provider of the options.
Register ==
  /\ boot = "declaring"
  /\ IF setup.mode = "async" THEN boot' = "wiring" /\ UNCHANGED options
     ELSE IF Acceptable
       THEN boot' = "wiring" /\ options' = ApplyDefaults(setup.given, setup.production)
       ELSE boot' = Rejection /\ UNCHANGED options
  /\ provided' = contexts
  /\ UNCHANGED << setup, contexts, built, minLevels, streamLevel, healthLevel, traceApi,
                  warnings, announced, labels, line, logged, streams >>

-----------------------------------------------------------------------------
(* Dependency injection: a provider is built once everything it asks for is. *)

Ready(p) ==
  /\ boot = "wiring"
  /\ contexts = setup.injected
  /\ p \in Providers \ built
  /\ Deps(p) \subseteq built

BuildOptions ==
  /\ Ready("options")
  /\ IF setup.mode = "sync" THEN built' = built \cup {"options"} /\ UNCHANGED << boot, options >>
     ELSE IF Acceptable
       THEN /\ built' = built \cup {"options"}
            /\ options' = ApplyDefaults(setup.given, setup.production)
            /\ UNCHANGED boot
       ELSE boot' = Rejection /\ UNCHANGED << built, options >>
  /\ UNCHANGED << setup, contexts, provided, minLevels, streamLevel, healthLevel, traceApi,
                  warnings, announced, labels, line, logged, streams >>

\* The answers a getter may give now; the default destination has no minLevel.
AnswersOf(d) ==
  IF d = Stdout THEN {Absent}
  ELSE IF options.destinations = "unreadable" THEN {"throws"} ELSE Answers

\* buildPinoInstance: the mixin detects OpenTelemetry, then each stream gets its level, then
\* pino reads the paths, under either strategy.
BuildPino ==
  /\ Ready("pino")
  /\ IF options.redactPaths = "malformed" THEN boot' = "threw" /\ UNCHANGED built
     ELSE built' = built \cup {"pino"} /\ UNCHANGED boot
  /\ traceApi' = IF Injecting THEN DetectOtelTraceApi(setup.anchors) ELSE NotDetected
  /\ warnings' = IF traceApi'.broken THEN WarnBrokenInstallOnce(warnings) ELSE warnings
  /\ WriteTo(StderrIf(warnings' # warnings))
  /\ \E answer \in [Destinations -> UNION {AnswersOf(d) : d \in Destinations}] :
       /\ \A d \in Destinations : answer[d] \in AnswersOf(d)
       /\ minLevels' = [ d \in Sinks \cup {Stdout} |->
            IF d \in Destinations THEN SafeMinLevel(minLevels[d], answer[d]) ELSE minLevels[d] ]
       /\ streamLevel' = [ d \in Sinks \cup {Stdout} |->
            IF d \in Destinations THEN StreamLevel(options, minLevels'[d]) ELSE streamLevel[d] ]
  /\ UNCHANGED << setup, options, contexts, provided, healthLevel, announced, labels, line,
                  logged >>

\* rootLogger.child({ context }) takes over the label the root has now.
BuildContextLogger(c) ==
  /\ Ready(c)
  /\ built' = built \cup {c}
  /\ labels' = IF labels["root"] # Undefined THEN [labels EXCEPT ![c] = labels["root"]] ELSE labels
  /\ UNCHANGED << setup, options, boot, contexts, provided, minLevels, streamLevel, healthLevel,
                  traceApi, warnings, announced, line, logged, streams >>

\* The others keep what they are given.
BuildOther(p) ==
  /\ Ready(p)
  /\ p \notin {"options", "pino"} \cup Contexts
  /\ built' = built \cup {p}
  /\ UNCHANGED << setup, options, boot, contexts, provided, minLevels, streamLevel, healthLevel,
                  traceApi, warnings, announced, labels, line, logged, streams >>

\* A class asks for the logger of a context that came after registration.
ResolveUnknownContext ==
  /\ boot = "wiring"
  /\ contexts = setup.injected
  /\ contexts # provided
  /\ boot' = "unresolved"
  /\ UNCHANGED << setup, options, contexts, provided, built, minLevels, streamLevel,
                  healthLevel, traceApi, warnings, announced, labels, line, logged, streams >>

-----------------------------------------------------------------------------
(* DestinationRegistry.onModuleInit, once everything is built.              *)

ModuleInit ==
  /\ boot = "wiring"
  /\ contexts = setup.injected
  /\ contexts = provided
  /\ built = Providers
  /\ boot' = "readying"
  /\ UNCHANGED << setup, options, contexts, provided, built, minLevels, streamLevel,
                  healthLevel, traceApi, warnings, announced, labels, line, logged, streams >>

\* Healthy or failed, a destination is recorded with its effective level.
MarkDestination(d) ==
  /\ boot = "readying"
  /\ d \in Destinations
  /\ healthLevel[d] = Unread
  /\ \E answer \in AnswersOf(d) :
       /\ minLevels' = [minLevels EXCEPT ![d] = SafeMinLevel(@, answer)]
       /\ healthLevel' = [healthLevel EXCEPT ![d] = EffectiveLevelOf(options, minLevels'[d])]
  /\ UNCHANGED << setup, options, boot, contexts, provided, built, streamLevel, traceApi,
                  warnings, announced, labels, line, logged, streams >>

\* A package that threw while it loaded is loaded anew.
NextOutcomes(outcome) == IF outcome = "throws" THEN {"throws", "usable"} ELSE {outcome}

\* The entries that are emitted, in order, with what is known of the trace api now.
BootEntries == IF IsEnabled(options, "info") THEN {"LOGGER_BOOTSTRAP_OK"} ELSE {}
RedactionWarning ==
  IF options.shouldDisableDefaultRedact = "true" /\ IsEnabled(options, "warn")
    THEN {"REDACTION_DISABLED"} ELSE {}
TraceWarning(api) ==
  IF Injecting /\ ~ api /\ IsEnabled(options, "warn") THEN {"OTEL_API_UNAVAILABLE"} ELSE {}

EarlyEntries == BootEntries \cup RedactionWarning

\* A timestamp that throws takes the start-up with it, at the first entry.
Stopping(entries) == options.timestamp = "throws" /\ entries # {}

\* What the anchors may meet the second time.
NextAnchors ==
  { again \in [1..2 -> Outcomes] : \A i \in 1..2 : again[i] \in NextOutcomes(setup.anchors[i]) }

\* The second detection, if it is asked for and start-up comes that far.
Redetected(again) ==
  IF Injecting /\ ~ Stopping(EarlyEntries) THEN DetectOtelTraceApi(again) ELSE NotDetected

Noted(again) == IF Redetected(again).broken THEN WarnBrokenInstallOnce(warnings) ELSE warnings

\* announceBootstrap, in one turn.
AnnounceBootstrap ==
  /\ boot = "readying"
  /\ \A d \in Destinations : healthLevel[d] # Unread
  /\ \E ambient \in Usage[setup.usage].ambients, again \in NextAnchors :
       LET entries == EarlyEntries \cup TraceWarning(Redetected(again).api)
       IN  /\ IF Stopping(entries) THEN boot' = "aborted" /\ UNCHANGED announced
                                   ELSE boot' = "up" /\ announced' = entries
           /\ warnings' = IF announced' # {}
                            THEN MixinWarnings(traceApi.api, ambient.span, Noted(again))
                            ELSE Noted(again)
           /\ WriteTo(StdoutIf(announced' # {}) \cup StderrIf(warnings' # warnings))
  /\ UNCHANGED << setup, options, contexts, provided, built, minLevels, streamLevel,
                  healthLevel, traceApi, labels, line, logged >>

-----------------------------------------------------------------------------
(* What the application does with it, from a constructor on.                *)

Running == boot \in {"wiring", "readying", "up"}

\* The application has come to have this logger.
Held(logger) == Running /\ (IF logger = "root" THEN "logger" ELSE logger) \in built

SetContext(logger, label) ==
  /\ Held(logger)
  /\ labels' = [labels EXCEPT ![logger] = label]
  /\ UNCHANGED << setup, options, boot, contexts, provided, built, minLevels, streamLevel,
                  healthLevel, traceApi, warnings, announced, line, logged, streams >>

\* Mutant: every logger answers with the root's label.
LabelOfRoot(logger) == labels["root"]

LabelOf(logger) == labels[logger]

BindingOf(logger) == IF logger = "root" THEN Undefined ELSE Plain(logger)

NoLine == [ outcome |-> "none", fields |-> Empty ]

\* A call on a logger.  The sink for unexpected errors holds the root; it reports on stderr
\* what it could not log.
Log(logger, call, ambient) ==
  /\ Held(logger)
  /\ call.method \in {"record", "raw"} => logger = "root"
  /\ logged' = logged + 1
  /\ LET result == Line(options, call, LabelOf(logger), BindingOf(logger),
                        ambient.store, traceApi.api, ambient.span)
         reported == call.method = "record" /\ result.outcome \in {"stopped", "brokenOff"}
     IN  /\ line' = [ outcome |-> result.outcome, fields |-> result.fields, reported |-> reported,
                      logger |-> logger, call |-> call, ambient |-> ambient,
                      label |-> labels[logger] ]
         /\ warnings' = IF result.outcome \in {"written", "brokenOff"}
                          THEN MixinWarnings(traceApi.api, ambient.span, warnings) ELSE warnings
         /\ WriteTo(StdoutIf(result.outcome = "written")
                      \cup StderrIf(reported \/ warnings' # warnings))
  /\ UNCHANGED << setup, options, boot, contexts, provided, built, minLevels, streamLevel,
                  healthLevel, traceApi, announced, labels >>

-----------------------------------------------------------------------------
(* What happens to the streams from outside.                                *)

\* removeAllListeners('error'), by whoever.
RemoveListeners(s) ==
  /\ setup.pipes = "breaking" /\ Running
  /\ streams[s].last = "written"
  /\ streams' = [streams EXCEPT ![s].listening = FALSE, ![s].last = "removed"]
  /\ UNCHANGED << setup, options, boot, contexts, provided, built, minLevels, streamLevel,
                  healthLevel, traceApi, warnings, announced, labels, line, logged >>

\* The application writes to the broken pipe itself.
ForeignWrite(s) ==
  /\ setup.pipes = "breaking" /\ Running
  /\ ~ streams[s].pending
  /\ streams' = [streams EXCEPT ![s].pending = TRUE]
  /\ UNCHANGED << setup, options, boot, contexts, provided, built, minLevels, streamLevel,
                  healthLevel, traceApi, warnings, announced, labels, line, logged >>

\* The error event of an earlier write; without a listener it ends the process.
ErrorEvent(s) ==
  /\ Running
  /\ streams[s].pending
  /\ IF streams[s].listening
       THEN streams' = [streams EXCEPT ![s].pending = FALSE] /\ UNCHANGED boot
       ELSE boot' = "crashed" /\ UNCHANGED streams
  /\ UNCHANGED << setup, options, contexts, provided, built, minLevels, streamLevel,
                  healthLevel, traceApi, warnings, announced, labels, line, logged >>

-----------------------------------------------------------------------------

Init ==
  /\ setup \in Setups
  /\ options = setup.given
  /\ boot = "declaring"
  /\ contexts = {}
  /\ provided = {}
  /\ built = {}
  /\ minLevels = [d \in Sinks \cup {Stdout} |-> Unread]
  /\ streamLevel = [d \in Sinks \cup {Stdout} |-> Unread]
  /\ healthLevel = [d \in Sinks \cup {Stdout} |-> Unread]
  /\ traceApi = NotDetected
  /\ warnings = 0
  /\ announced = {}
  /\ labels = [logger \in Loggers |-> Undefined]
  /\ line = NoLine
  /\ logged = 0
  /\ streams = [s \in Streams |-> [listening |-> FALSE, pending |-> FALSE, last |-> "nothing"]]

StartUp ==
  \/ \E c \in Contexts : Declare(c)
  \/ Register
  \/ BuildOptions
  \/ BuildPino
  \/ \E c \in Contexts : BuildContextLogger(c)
  \/ \E p \in Providers : BuildOther(p)
  \/ ResolveUnknownContext
  \/ ModuleInit
  \/ \E d \in Sinks \cup {Stdout} : MarkDestination(d)
  \/ AnnounceBootstrap

Next ==
  \/ StartUp
  \/ \E logger \in Loggers : \E label \in Usage[setup.usage].labels : SetContext(logger, label)
  \/ /\ logged < Usage[setup.usage].bound
     /\ \E logger \in Loggers, call \in Usage[setup.usage].calls,
           ambient \in Usage[setup.usage].ambients : Log(logger, call, ambient)
  \/ \E s \in Streams : RemoveListeners(s) \/ ForeignWrite(s) \/ ErrorEvent(s)

Spec == Init /\ [][Next]_vars

\* Loading, dependency injection and the registry go on as long as there is something to do.
FairSpec == Spec /\ WF_vars(StartUp)

-----------------------------------------------------------------------------

StricterOf(a, b) == IF Severity(b) > Severity(a) THEN b ELSE a

\* The fan-out and the health record work with one level per destination, whatever its getter
\* answers to each of them: a stream takes only levels Pino knows, and the registry credits a
\* destination with what its stream receives behind Pino's own level (safeMinLevel).
LevelsAgree ==
  \A d \in Destinations :
    /\ "pino" \in built => streamLevel[d] \in LogLevels
    /\ healthLevel[d] # Unread => healthLevel[d] = StricterOf(options.level, streamLevel[d])

\* The application's objects leave the trace fields alone.
OwnTrace(l) ==
  {"traceId", "spanId"} \cap (DOMAIN l.call.metadata.fields \cup DOMAIN l.ambient.store) = {}

\* Trace correlation that was asked for is not missing in silence: a line has both ids or
\* none; without an api, a broken installation is reported, and that at most once over both
\* detections and every entry, or else start-up says so where its level lets a warning pass
\* (warnBrokenInstallOnce, announceBootstrap).
TraceLossIsAnnounced ==
  /\ line.outcome = "written" /\ OwnTrace(line) =>
       ("traceId" \in DOMAIN line.fields <=> "spanId" \in DOMAIN line.fields)
  /\ warnings <= 1
  /\ "pino" \in built /\ Injecting /\ ~ traceApi.api
       /\ (\E i \in DOMAIN setup.anchors :
             setup.anchors[i] \in {"dependency", "throws", "unusable"}) => warnings = 1
  /\ boot = "up" /\ Injecting /\ ~ traceApi.api /\ IsEnabled(options, "warn") =>
       warnings = 1 \/ "OTEL_API_UNAVAILABLE" \in announced
  /\ line.outcome = "written" /\ traceApi.api /\ line.ambient.span = "throws" => warnings = 1

ValueOf(fields, name) == IF name \in DOMAIN fields THEN fields[name] ELSE Undefined

FirstOf(value, otherwise) == IF value = Undefined THEN otherwise ELSE value

\* A structured line is attributed to its caller: its key, its user and its context are the
\* ones of the call, then of the request, then of the logger, and metadata can forge none of
\* them, even when it cannot be read or the record is given up (withoutOwnedKeys).
AttributionIsNotForged ==
  line.outcome = "written" /\ line.call.method \in {"info", "errorStructured"} =>
    LET store == line.ambient.store
        given == "logKey" \in DOMAIN line.fields
    IN  /\ given \/ "_redactionFailed" \in DOMAIN line.fields
        /\ given => line.fields["logKey"] = Plain("KEY")
        /\ ValueOf(line.fields, "userId") =
             IF given THEN FirstOf(line.call.userId, ValueOf(store, "userId")) ELSE Undefined
        /\ ValueOf(line.fields, "context") =
             IF given THEN FirstOf(line.label,
                             FirstOf(ValueOf(store, "context"), BindingOf(line.logger)))
                      ELSE BindingOf(line.logger)

\* The call was given an error, wherever it was put.
HasCause(call) ==
  \/ call.method = "record"
  \/ call.method \in {"errorStructured", "log", "error"} /\ IsErrorLike(call.message)
  \/ call.method \in {"log", "error"} /\ \E i \in DOMAIN call.tail : IsErrorLike(call.tail[i])

\* An error given to a logger is in the line, in the one format or the other, unless the line
\* says that its record was given up; a report the sink could not log is on stderr.
NoCauseIsLost ==
  /\ line.outcome = "written" /\ HasCause(line.call) =>
       {"err", "exception.type", "_redactionFailed"} \cap DOMAIN line.fields # {}
  /\ line.outcome \in {"stopped", "brokenOff"} /\ line.call.method = "record" =>
       line.reported /\ streams["stderr"].last # "nothing"

\* The field at the end of a path, and the default ones unless they are switched off.
NamesToCover(o) ==
  (IF o.shouldDisableDefaultRedact = "true" THEN {} ELSE REDACT_COMMON_FIELDS)
    \cup (IF o.redactPaths \in {"user.ssn", "ssn[0]"} THEN {"ssn"} ELSE {})

\* No name that was to be covered reaches a line in clear inside a serialized error, under
\* either strategy and cut or not, nor, under 'names', anywhere else in the record
\* (buildNameRedactor, errSerializer).
SecretsStayCovered ==
  line.outcome = "written" =>
    \A name \in DOMAIN line.fields :
      /\ name = "err" \/ options.redactStrategy = "names" =>
           line.fields[name].clear \cap NamesToCover(options) = {}
      /\ options.redactStrategy = "names" /\ name \in NamesToCover(options) =>
           line.fields[name] = Plain("[REDACTED]")

\* A call in Nest's style names its context: by its last argument, and `error` with a text
\* by the one after the stack.
NamesContext(call) ==
  IF call.method = "error" /\ ~ IsErrorLike(call.message)
    THEN Len(call.tail) >= 2 /\ IsString(call.tail[2])
    ELSE call.tail # << >> /\ IsString(call.tail[Len(call.tail)])

\* What @InjectLogger gives carries its context, whatever label others give the logger they
\* share, as long as it was given none itself and the call names none; the stack that may
\* follow a text given to `error` is no context.
InjectedLabelHolds ==
  /\ line.outcome = "written"
  /\ line.logger \in Contexts
  /\ line.label = Undefined
  /\ line.call.method # "raw"
  /\ line.call.method \in {"log", "error"} => ~ NamesContext(line.call)
  /\ "context" \notin DOMAIN line.ambient.store
  => line.fields["context"] = Plain(line.logger)

\* A pipe that breaks ends the process only where the last thing done to its stream was not a
\* write of this library's, which always puts its listener back: the listeners were taken
\* away since, or other code wrote before the library ever did (ensureGuarded).
BrokenPipeIsSurvived ==
  boot = "crashed" =>
    \E s \in Streams : streams[s].pending /\ streams[s].last # "written"

\* What validation lets pass and setup cannot use.
Unusable(given) == DefaultsThrow(given) \/ given.redactPaths = "malformed"

Ends(outcomes) == <>(boot \in outcomes \/ (boot = "unresolved" /\ contexts # provided))

\* Options that validate and that setup can use start the module, whatever the getters answer
\* and whatever OpenTelemetry does; those that do not validate are refused.  Between the two,
\* a list of excluded paths given as undefined and a path pino cannot parse validate and end
\* setup in an error (validateOptions, applyDefaults).  Excepted are a timestamp that throws, a
\* context declared too late and a crash.
StartupSucceeds ==
  /\ ValidateOptions(setup.given) /\ ~ Unusable(setup.given) /\ setup.given.timestamp # "throws"
       => Ends({"up", "crashed"})
  /\ ValidateOptions(setup.given) /\ Unusable(setup.given) => Ends({"threw", "crashed"})
  /\ ~ ValidateOptions(setup.given) => Ends({"refused"})

\* The comment in withSemconvException: a value that resists reading leaves `err` untouched
\* rather than half-populated attributes.
ExceptionIsWhole ==
  line.outcome = "written" /\ "exception.type" \in DOMAIN line.fields =>
    "exception.message" \in DOMAIN line.fields
==============================================================================
