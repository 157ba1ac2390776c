-------------------------- MODULE LoggerModuleProofs --------------------------
(***************************************************************************)
(* Start-up, levels and the streams' guard, for every set of setups,       *)
(* contexts and sinks, whatever the getters answer; and then what a line   *)
(* holds.                                                                  *)
(***************************************************************************)
EXTENDS LoggerModule, WellFoundedInduction, TLAPS

AllSinks == Sinks \cup {Stdout}

Labels == {Undefined} \cup UNION {Usage[use].labels : use \in DOMAIN Usage}

\* The type of every variable but the last line.
ModuleTypeOK ==
  /\ setup \in Setups
  /\ boot \in {"declaring", "wiring", "readying", "up", "refused", "threw", "unresolved",
               "aborted", "crashed"}
  /\ contexts \subseteq Contexts
  /\ provided \subseteq Contexts
  /\ built \subseteq OwnProviders \cup Contexts
  /\ minLevels \in [AllSinks -> LogLevels \cup {Absent, Unread}]
  /\ streamLevel \in [AllSinks -> LogLevels \cup {Unread}]
  /\ healthLevel \in [AllSinks -> LogLevels \cup {Unread}]
  /\ traceApi \in [api : BOOLEAN, broken : BOOLEAN]
  /\ warnings \in {0, 1}
  /\ announced \subseteq {"LOGGER_BOOTSTRAP_OK", "REDACTION_DISABLED", "OTEL_API_UNAVAILABLE"}
  /\ labels \in [Loggers -> Labels]
  /\ logged \in Nat
  /\ streams \in [Streams -> [listening : BOOLEAN, pending : BOOLEAN,
                              last : {"nothing", "written", "removed"}]]

\* The options are settled: nothing changes them any more.
Settled ==
  "options" \in built \/ (setup.mode # "async" /\ boot \notin {"declaring", "refused", "threw"})

\* Pino is there only where it could read the paths.
SettledInv ==
  /\ Settled =>
       ValidateOptions(setup.given) /\ options = ApplyDefaults(setup.given, setup.production)
  /\ "pino" \in built => "options" \in built /\ options.redactPaths # "malformed"

\* What is built was built after what it asks for.
BuiltInv ==
  /\ \A p \in built : Deps(p) \subseteq built
  /\ boot = "declaring" => built = {}
  /\ boot \in {"readying", "up"} => "pino" \in built

LevelInv ==
  /\ "pino" \in built => \A d \in Destinations :
       /\ minLevels[d] # Unread
       /\ streamLevel[d] = StreamLevel(options, minLevels[d])
  /\ \A d \in AllSinks : healthLevel[d] # Unread =>
       /\ "pino" \in built
       /\ d \in Destinations => healthLevel[d] = EffectiveLevelOf(options, minLevels[d])

PipeInv ==
  /\ \A s \in Streams : streams[s].last = "written" => streams[s].listening
  /\ BrokenPipeIsSurvived

Inv == ModuleTypeOK /\ SettledInv /\ BuiltInv /\ LevelInv /\ PipeInv

-----------------------------------------------------------------------------

LEMMA DepsOf ==
  /\ "options" \in Deps("pino")
  /\ "pino" \in Deps("logger")
  /\ \A c \in Contexts : "logger" \in Deps(c)
BY ContextsAssumption DEF Deps, Asks, OwnProviders

(* The levels and the options.                                              *)

LEMMA TheLevels ==
  /\ LogLevels = {"trace", "debug", "info", "warn", "error", "fatal"}
  /\ Absent \notin LogLevels /\ Unread \notin LogLevels
<1>1. DOMAIN LOG_LEVEL_PRIORITY = 1..6
  BY DEF LOG_LEVEL_PRIORITY
<1>2. LogLevels = {"trace", "debug", "info", "warn", "error", "fatal"}
  BY <1>1 DEF LogLevels, LOG_LEVEL_PRIORITY
<1> QED
  BY <1>2 DEF Absent, Unread

\* The first answer is kept, and it is a level or none.
LEMMA SafeMinLevelKeeps ==
  ASSUME NEW cached \in LogLevels \cup {Absent, Unread}, NEW answer
  PROVE  /\ SafeMinLevel(cached, answer) \in LogLevels \cup {Absent}
         /\ cached # Unread => SafeMinLevel(cached, answer) = cached
BY TheLevels DEF SafeMinLevel, ReadMinLevel

LEMMA SettledLevel ==
  ASSUME ModuleTypeOK, SettledInv, Settled
  PROVE  options.level \in LogLevels
<1>1. DOMAIN setup.given = DOMAIN Defaults(TRUE) \cup {"service"}
  BY SetupsAssumption DEF ModuleTypeOK
<1>2. "level" \in DOMAIN setup.given
  BY <1>1 DEF Defaults
<1>3. Optional(setup.given.level, LogLevels)
  BY DEF SettledInv, ValidateOptions, ValidateCore
<1>4. options.level = IF setup.given.level = Absent
                        THEN Defaults(setup.production).level ELSE setup.given.level
  BY <1>2 DEF SettledInv, ApplyDefaults, Defaults
<1>5. Defaults(setup.production).level \in LogLevels
  BY TheLevels DEF Defaults
<1> QED
  BY <1>3, <1>4, <1>5 DEF Optional

\* The level of a stream and of the record behind it.
LEMMA LevelsOf ==
  ASSUME NEW o, o.level \in LogLevels, NEW minLevel \in LogLevels \cup {Absent}
  PROVE  /\ StreamLevel(o, minLevel) \in LogLevels
         /\ EffectiveLevelOf(o, minLevel) = StricterOf(o.level, StreamLevel(o, minLevel))
         /\ EffectiveLevelOf(o, minLevel) \in LogLevels
BY TheLevels DEF StreamLevel, EffectiveLevelOf, StricterOf

THEOREM LevelsAgreeOfInv ==
  ASSUME Inv
  PROVE  LevelsAgree
<1> SUFFICES ASSUME NEW d \in Destinations
             PROVE  /\ "pino" \in built => streamLevel[d] \in LogLevels
                    /\ healthLevel[d] # Unread =>
                         healthLevel[d] = StricterOf(options.level, streamLevel[d])
  BY DEF LevelsAgree
<1>1. d \in AllSinks
  BY DEF Destinations, AllSinks
<1>2. healthLevel[d] # Unread => "pino" \in built
  BY <1>1 DEF Inv, LevelInv
<1>3. ASSUME "pino" \in built
      PROVE  /\ streamLevel[d] \in LogLevels
             /\ healthLevel[d] # Unread =>
                  healthLevel[d] = StricterOf(options.level, streamLevel[d])
  <2>1. "options" \in built
    BY <1>3, DepsOf DEF Inv, BuiltInv
  <2>2. options.level \in LogLevels
    BY <2>1, SettledLevel DEF Inv, Settled
  <2>3. minLevels[d] \in LogLevels \cup {Absent}
    BY <1>1, <1>3 DEF Inv, LevelInv, ModuleTypeOK
  <2>4. streamLevel[d] = StreamLevel(options, minLevels[d])
    BY <1>3 DEF Inv, LevelInv
  <2>5. healthLevel[d] # Unread => healthLevel[d] = EffectiveLevelOf(options, minLevels[d])
    BY <1>1 DEF Inv, LevelInv
  <2> QED
    BY <2>2, <2>3, <2>4, <2>5, LevelsOf
<1> QED
  BY <1>2, <1>3

-----------------------------------------------------------------------------
(* What the parts of an action keep.                                        *)

StreamType ==
  [listening : BOOLEAN, pending : BOOLEAN, last : {"nothing", "written", "removed"}]

Guarded(stream) == stream.last = "written" => stream.listening

\* A write of the library leaves its listener behind.
LEMMA WriteSafelyGuards ==
  ASSUME NEW stream \in StreamType, NEW breaks \in BOOLEAN
  PROVE  /\ WriteSafely(stream, breaks) \in StreamType
         /\ Guarded(WriteSafely(stream, breaks))
BY DEF StreamType, WriteSafely, EnsureGuarded, Guarded

LEMMA WriteToGuards ==
  ASSUME streams \in [Streams -> StreamType], \A s \in Streams : Guarded(streams[s]),
         NEW names, WriteTo(names)
  PROVE  /\ streams' \in [Streams -> StreamType]
         /\ \A s \in Streams : Guarded(streams'[s])
<1>1. PICK breaking : streams' =
        [ s \in Streams |->
            IF s \in names THEN WriteSafely(streams[s], s \in breaking) ELSE streams[s] ]
  BY DEF WriteTo
<1>2. ASSUME NEW s \in Streams
      PROVE  streams'[s] \in StreamType /\ Guarded(streams'[s])
  <2>1. streams[s] \in StreamType /\ Guarded(streams[s])
    OBVIOUS
  <2>2. CASE s \in names
    <3>1. streams'[s] = WriteSafely(streams[s], s \in breaking)
      BY <1>1, <2>2
    <3>2. (s \in breaking) \in BOOLEAN
      OBVIOUS
    <3> QED
      BY <2>1, <3>1, <3>2, WriteSafelyGuards
  <2>3. CASE s \notin names
    <3>1. streams'[s] = streams[s]
      BY <1>1, <2>3
    <3> QED
      BY <2>1, <3>1
  <2> QED
    BY <2>2, <2>3
<1> QED
  BY <1>1, <1>2

\* At most one warning, and one when there is something to warn of.
LEMMA WarningsBounded ==
  ASSUME NEW w \in {0, 1}, NEW api, NEW span
  PROVE  /\ WarnBrokenInstallOnce(w) = 1
         /\ MixinWarnings(api, span, w) \in {0, 1}
         /\ w = 1 => MixinWarnings(api, span, w) = 1
         /\ api /\ span = "throws" => MixinWarnings(api, span, w) = 1
BY DEF WarnBrokenInstallOnce, MixinWarnings

LEMMA DetectionType ==
  ASSUME NEW outcomes
  PROVE  DetectOtelTraceApi(outcomes) \in [api : BOOLEAN, broken : BOOLEAN]
BY DEF DetectOtelTraceApi

LEMMA ProvidersKnown ==
  ASSUME ModuleTypeOK
  PROVE  Providers \subseteq OwnProviders \cup Contexts
BY DEF ModuleTypeOK, Providers, HttpProviders, OwnProviders

-----------------------------------------------------------------------------
(* The steps.                                                               *)

LEMMA TypeStep ==
  ASSUME Inv, [Next]_vars
  PROVE  ModuleTypeOK'
<1>0. ModuleTypeOK
  BY DEF Inv
<1> USE DEF ModuleTypeOK
<1>1. ASSUME NEW c \in Contexts, Declare(c) PROVE ModuleTypeOK'
  BY <1>0, <1>1 DEF Declare
<1>2. ASSUME Register PROVE ModuleTypeOK'
  BY <1>0, <1>2 DEF Register, Rejection
<1>3. ASSUME BuildOptions PROVE ModuleTypeOK'
  BY <1>0, <1>3 DEF BuildOptions, Rejection, Ready, OwnProviders
<1>4. ASSUME BuildPino PROVE ModuleTypeOK'
  <2>1. "options" \in built
    BY <1>4, DepsOf DEF BuildPino, Ready
  <2>2. options.level \in LogLevels
    BY <1>0, <2>1, SettledLevel DEF Inv, Settled
  <2>3. PICK answer :
          /\ minLevels' = [ d \in Sinks \cup {Stdout} |->
               IF d \in Destinations THEN SafeMinLevel(minLevels[d], answer[d]) ELSE minLevels[d] ]
          /\ streamLevel' = [ d \in Sinks \cup {Stdout} |->
               IF d \in Destinations THEN StreamLevel(options, minLevels'[d]) ELSE streamLevel[d] ]
    BY <1>4 DEF BuildPino
  <2>4. minLevels' \in [AllSinks -> LogLevels \cup {Absent, Unread}]
    BY <1>0, <2>3, SafeMinLevelKeeps DEF AllSinks
  <2>5. ASSUME NEW d \in AllSinks PROVE streamLevel'[d] \in LogLevels \cup {Unread}
    <3>1. CASE d \in Destinations
      <4>1. minLevels'[d] = SafeMinLevel(minLevels[d], answer[d])
        BY <2>3, <3>1 DEF AllSinks
      <4>2. minLevels'[d] \in LogLevels \cup {Absent}
        <5>1. PICK cached : cached = minLevels[d]
          OBVIOUS
        <5>2. PICK read : read = answer[d]
          OBVIOUS
        <5>3. cached \in LogLevels \cup {Absent, Unread}
          BY <1>0, <5>1
        <5>4. SafeMinLevel(cached, read) \in LogLevels \cup {Absent}
          BY <5>3, SafeMinLevelKeeps
        <5> QED
          BY <4>1, <5>1, <5>2, <5>4
      <4>3. streamLevel'[d] = StreamLevel(options, minLevels'[d])
        BY <2>3, <3>1 DEF AllSinks
      <4> QED
        BY <2>2, <4>2, <4>3, LevelsOf
    <3>2. CASE d \notin Destinations
      BY <1>0, <2>3, <3>2 DEF AllSinks
    <3> QED
      BY <3>1, <3>2
  <2>6. streamLevel' \in [AllSinks -> LogLevels \cup {Unread}]
    BY <2>3, <2>5 DEF AllSinks
  <2>7. traceApi' \in [api : BOOLEAN, broken : BOOLEAN]
    BY <1>4, DetectionType DEF BuildPino, NotDetected
  <2>8. warnings' \in {0, 1}
    BY <1>0, <1>4, WarningsBounded DEF BuildPino
  <2>9. streams' \in [Streams -> StreamType]
    BY <1>0, <1>4, WriteToGuards DEF BuildPino, Inv, PipeInv, StreamType, Guarded
  <2> QED
    BY <1>0, <1>4, <2>4, <2>6, <2>7, <2>8, <2>9 DEF BuildPino, Ready, OwnProviders, StreamType
<1>5. ASSUME NEW c \in Contexts, BuildContextLogger(c) PROVE ModuleTypeOK'
  <2>1. labels' \in [Loggers -> Labels]
    BY <1>0, <1>5 DEF BuildContextLogger, Loggers
  <2> QED
    BY <1>0, <1>5, <2>1 DEF BuildContextLogger
<1>6. ASSUME NEW p \in Providers, BuildOther(p) PROVE ModuleTypeOK'
  BY <1>0, <1>6, ProvidersKnown DEF BuildOther
<1>7. ASSUME ResolveUnknownContext PROVE ModuleTypeOK'
  BY <1>0, <1>7 DEF ResolveUnknownContext
<1>8. ASSUME ModuleInit PROVE ModuleTypeOK'
  BY <1>0, <1>8 DEF ModuleInit
<1>9. ASSUME NEW d \in Sinks \cup {Stdout}, MarkDestination(d) PROVE ModuleTypeOK'
  <2>1. PICK answer :
          /\ minLevels' = [minLevels EXCEPT ![d] = SafeMinLevel(@, answer)]
          /\ healthLevel' = [healthLevel EXCEPT ![d] = EffectiveLevelOf(options, minLevels'[d])]
    BY <1>9 DEF MarkDestination
  <2>2. "pino" \in built /\ "options" \in built
    BY <1>9, DepsOf DEF MarkDestination, Inv, BuiltInv
  <2>3. options.level \in LogLevels
    BY <1>0, <2>2, SettledLevel DEF Inv, Settled
  <2>4. minLevels'[d] = SafeMinLevel(minLevels[d], answer)
    BY <1>0, <2>1 DEF AllSinks
  <2>5. minLevels'[d] \in LogLevels \cup {Absent}
    <3>1. minLevels[d] \in LogLevels \cup {Absent, Unread}
      BY <1>0 DEF AllSinks
    <3> QED
      BY <2>4, <3>1, SafeMinLevelKeeps
  <2>6. EffectiveLevelOf(options, minLevels'[d]) \in LogLevels
    BY <2>3, <2>5, LevelsOf
  <2>7. minLevels' \in [AllSinks -> LogLevels \cup {Absent, Unread}]
    BY <1>0, <2>1, <2>4, <2>5 DEF AllSinks
  <2>8. healthLevel' \in [AllSinks -> LogLevels \cup {Unread}]
    BY <1>0, <2>1, <2>6 DEF AllSinks
  <2> QED
    BY <1>0, <1>9, <2>7, <2>8 DEF MarkDestination
<1>10. ASSUME AnnounceBootstrap PROVE ModuleTypeOK'
  <2>1. PICK ambient \in Usage[setup.usage].ambients, again \in NextAnchors :
          LET entries == EarlyEntries \cup TraceWarning(Redetected(again).api)
          IN  /\ IF Stopping(entries) THEN boot' = "aborted" /\ UNCHANGED announced
                                      ELSE boot' = "up" /\ announced' = entries
              /\ warnings' = IF announced' # {}
                               THEN MixinWarnings(traceApi.api, ambient.span, Noted(again))
                               ELSE Noted(again)
              /\ WriteTo(StdoutIf(announced' # {}) \cup StderrIf(warnings' # warnings))
    BY <1>10, Zenon DEF AnnounceBootstrap
  <2>2. announced' \subseteq {"LOGGER_BOOTSTRAP_OK", "REDACTION_DISABLED", "OTEL_API_UNAVAILABLE"}
    BY <1>0, <2>1 DEF EarlyEntries, BootEntries, RedactionWarning, TraceWarning
  <2>3. Noted(again) \in {0, 1}
    BY <1>0, WarningsBounded DEF Noted
  <2>4. warnings' \in {0, 1}
    BY <2>1, <2>3, WarningsBounded
  <2>5. streams' \in [Streams -> StreamType]
    BY <1>0, <2>1, WriteToGuards DEF Inv, PipeInv, StreamType, Guarded
  <2> QED
    BY <1>0, <1>10, <2>1, <2>2, <2>4, <2>5 DEF AnnounceBootstrap, StreamType
<1>11. ASSUME NEW logger \in Loggers, NEW label \in Usage[setup.usage].labels,
              SetContext(logger, label)
       PROVE  ModuleTypeOK'
  <2>1. label \in Labels
    BY <1>0, SetupsAssumption DEF Labels
  <2> QED
    BY <1>0, <1>11, <2>1 DEF SetContext
<1>12. ASSUME NEW logger \in Loggers, NEW call, NEW ambient, Log(logger, call, ambient)
       PROVE  ModuleTypeOK'
  <2>1. warnings' \in {0, 1}
    BY <1>0, <1>12, WarningsBounded DEF Log
  <2>2. streams' \in [Streams -> StreamType]
    BY <1>0, <1>12, WriteToGuards DEF Log, Inv, PipeInv, StreamType, Guarded
  <2> QED
    BY <1>0, <1>12, <2>1, <2>2 DEF Log, StreamType
<1>13. ASSUME NEW s \in Streams, RemoveListeners(s) \/ ForeignWrite(s) \/ ErrorEvent(s)
       PROVE  ModuleTypeOK'
  <2>1. streams[s] \in StreamType
    BY <1>0 DEF StreamType
  <2>2. /\ streams' \in [Streams -> StreamType]
        /\ boot' \in {boot, "crashed"}
    <3>1. CASE RemoveListeners(s)
      BY <1>0, <2>1, <3>1 DEF RemoveListeners, StreamType
    <3>2. CASE ForeignWrite(s)
      BY <1>0, <2>1, <3>2 DEF ForeignWrite, StreamType
    <3>3. CASE ErrorEvent(s)
      <4>1. CASE streams[s].listening
        <5>1. streams' = [streams EXCEPT ![s].pending = FALSE] /\ boot' = boot
          BY <3>3, <4>1 DEF ErrorEvent
        <5> QED
          BY <1>0, <2>1, <5>1 DEF StreamType
      <4>2. CASE ~ streams[s].listening
        <5>1. streams' = streams /\ boot' = "crashed"
          BY <3>3, <4>2 DEF ErrorEvent
        <5> QED
          BY <1>0, <5>1 DEF StreamType
      <4> QED
        BY <4>1, <4>2
    <3> QED
      BY <1>13, <3>1, <3>2, <3>3
  <2> QED
    BY <1>0, <1>13, <2>2 DEF RemoveListeners, ForeignWrite, ErrorEvent, StreamType
<1>14. ASSUME UNCHANGED vars PROVE ModuleTypeOK'
  BY <1>0, <1>14 DEF vars
<1> QED
  BY <1>1, <1>2, <1>3, <1>4, <1>5, <1>6, <1>7, <1>8, <1>9, <1>10, <1>11, <1>12, <1>13, <1>14
  DEF Next, StartUp

\* Registration and the provider of the options settle them; no other step touches them.
LEMMA OptionsStay ==
  ASSUME Inv, [Next]_vars, ~ Register, ~ BuildOptions
  PROVE  setup' = setup /\ options' = options /\ (Settled' => Settled)
<1>1. ASSUME NEW c \in Contexts, Declare(c) \/ BuildContextLogger(c)
      PROVE  setup' = setup /\ options' = options /\ (Settled' => Settled)
  BY <1>1, ContextsAssumption DEF Declare, BuildContextLogger, Settled, OwnProviders
<1>2. CASE BuildPino
  BY <1>2 DEF BuildPino, Settled
<1>3. ASSUME NEW p \in Providers, BuildOther(p)
      PROVE  setup' = setup /\ options' = options /\ (Settled' => Settled)
  BY <1>3 DEF BuildOther, Settled
<1>4. CASE ResolveUnknownContext \/ ModuleInit
  BY <1>4 DEF ResolveUnknownContext, ModuleInit, Settled
<1>5. ASSUME NEW d \in Sinks \cup {Stdout}, MarkDestination(d)
      PROVE  setup' = setup /\ options' = options /\ (Settled' => Settled)
  BY <1>5 DEF MarkDestination, Settled
<1>6. CASE AnnounceBootstrap
  <2>1. setup' = setup /\ options' = options /\ built' = built /\ boot = "readying"
    BY <1>6 DEF AnnounceBootstrap
  <2> QED
    BY <2>1 DEF Settled
<1>7. ASSUME NEW logger \in Loggers, NEW label, SetContext(logger, label)
      PROVE  setup' = setup /\ options' = options /\ (Settled' => Settled)
  BY <1>7 DEF SetContext, Settled
<1>8. ASSUME NEW logger \in Loggers, NEW call, NEW ambient, Log(logger, call, ambient)
      PROVE  setup' = setup /\ options' = options /\ (Settled' => Settled)
  BY <1>8 DEF Log, Settled
<1>9. ASSUME NEW s \in Streams, RemoveListeners(s) \/ ForeignWrite(s) \/ ErrorEvent(s)
      PROVE  setup' = setup /\ options' = options /\ (Settled' => Settled)
  BY <1>9 DEF RemoveListeners, ForeignWrite, ErrorEvent, Running, Settled
<1>10. CASE UNCHANGED vars
  BY <1>10 DEF vars, Settled
<1> QED
  BY <1>1, <1>2, <1>3, <1>4, <1>5, <1>6, <1>7, <1>8, <1>9, <1>10 DEF Next, StartUp

\* Pino is built in a step of its own.
LEMMA PinoOnce ==
  ASSUME [Next]_vars, ~ BuildPino
  PROVE  built \subseteq built' /\ ("pino" \in built' => "pino" \in built)
<1>1. ASSUME NEW c \in Contexts, Declare(c) \/ BuildContextLogger(c)
      PROVE  built \subseteq built' /\ ("pino" \in built' => "pino" \in built)
  BY <1>1, ContextsAssumption DEF Declare, BuildContextLogger, OwnProviders
<1>2. ASSUME NEW p \in Providers, BuildOther(p)
      PROVE  built \subseteq built' /\ ("pino" \in built' => "pino" \in built)
  BY <1>2 DEF BuildOther
<1>3. CASE BuildOptions
  BY <1>3 DEF BuildOptions
<1>4. ASSUME NEW s \in Streams, RemoveListeners(s) \/ ForeignWrite(s) \/ ErrorEvent(s)
      PROVE  built' = built
  BY <1>4 DEF RemoveListeners, ForeignWrite, ErrorEvent
<1>5. ASSUME NEW logger \in Loggers, NEW call, NEW ambient, Log(logger, call, ambient)
      PROVE  built' = built
  BY <1>5 DEF Log
<1>6. ASSUME NEW logger \in Loggers, NEW label, SetContext(logger, label) PROVE built' = built
  BY <1>6 DEF SetContext
<1>7. ASSUME NEW d \in Sinks \cup {Stdout}, MarkDestination(d) PROVE built' = built
  BY <1>7 DEF MarkDestination
<1>8. CASE Register \/ ResolveUnknownContext \/ ModuleInit \/ AnnounceBootstrap \/ UNCHANGED vars
  BY <1>8 DEF Register, ResolveUnknownContext, ModuleInit, AnnounceBootstrap, vars
<1> QED
  BY <1>1, <1>2, <1>3, <1>4, <1>5, <1>6, <1>7, <1>8 DEF Next, StartUp

LEMMA SettledStep ==
  ASSUME Inv, [Next]_vars
  PROVE  SettledInv'
<1>0. SettledInv /\ BuiltInv
  BY DEF Inv
<1>1. CASE Register
  BY <1>0, <1>1 DEF Register, Rejection, Acceptable, SettledInv, Settled, BuiltInv
<1>2. CASE BuildOptions
  BY <1>0, <1>2 DEF BuildOptions, Rejection, Acceptable, Ready, SettledInv, Settled
<1>3. CASE BuildPino
  <2>1. setup' = setup /\ options' = options
    BY <1>3 DEF BuildPino
  <2>2. "options" \in built /\ Settled
    BY <1>3, DepsOf DEF BuildPino, Ready, Settled
  <2>3. "pino" \in built' => options.redactPaths # "malformed"
    BY <1>0, <1>3 DEF BuildPino, SettledInv
  <2>4. built \subseteq built'
    BY <1>3 DEF BuildPino
  <2> QED
    BY <1>0, <2>1, <2>2, <2>3, <2>4 DEF SettledInv
<1>4. CASE ~ Register /\ ~ BuildOptions /\ ~ BuildPino
  <2>1. setup' = setup /\ options' = options /\ (Settled' => Settled)
    BY <1>4, OptionsStay
  <2>2. built \subseteq built' /\ ("pino" \in built' => "pino" \in built)
    BY <1>4, PinoOnce
  <2> QED
    BY <1>0, <2>1, <2>2 DEF SettledInv
<1> QED
  BY <1>1, <1>2, <1>3, <1>4

\* One provider at a time, each after what it asks for.
LEMMA BuiltStep ==
  ASSUME Inv, [Next]_vars
  PROVE  BuiltInv' /\ built \subseteq built'
<1>0. BuiltInv
  BY DEF Inv
<1> USE DEF BuiltInv, Ready
<1>1. ASSUME NEW c \in Contexts, Declare(c) \/ BuildContextLogger(c)
      PROVE  BuiltInv' /\ built \subseteq built'
  BY <1>0, <1>1 DEF Declare, BuildContextLogger
<1>2. CASE Register \/ BuildOptions
  BY <1>0, <1>2 DEF Register, BuildOptions, Rejection
<1>3. CASE BuildPino
  BY <1>0, <1>3 DEF BuildPino
<1>4. ASSUME NEW p \in Providers, BuildOther(p) PROVE BuiltInv' /\ built \subseteq built'
  BY <1>0, <1>4 DEF BuildOther
<1>5. CASE ResolveUnknownContext
  BY <1>0, <1>5 DEF ResolveUnknownContext
<1>6. CASE ModuleInit
  BY <1>0, <1>6 DEF ModuleInit, Providers, OwnProviders
<1>7. ASSUME NEW d \in Sinks \cup {Stdout}, MarkDestination(d)
      PROVE  BuiltInv' /\ built \subseteq built'
  BY <1>0, <1>7 DEF MarkDestination
<1>8. CASE AnnounceBootstrap
  <2>1. built' = built /\ boot = "readying" /\ boot' \in {"aborted", "up"}
    BY <1>8 DEF AnnounceBootstrap
  <2> QED
    BY <1>0, <2>1
<1>9. ASSUME NEW logger \in Loggers, NEW label, SetContext(logger, label)
      PROVE  BuiltInv' /\ built \subseteq built'
  BY <1>0, <1>9 DEF SetContext
<1>10. ASSUME NEW logger \in Loggers, NEW call, NEW ambient, Log(logger, call, ambient)
       PROVE  BuiltInv' /\ built \subseteq built'
  BY <1>0, <1>10 DEF Log
<1>11. ASSUME NEW s \in Streams, RemoveListeners(s) \/ ForeignWrite(s) \/ ErrorEvent(s)
       PROVE  BuiltInv' /\ built \subseteq built'
  BY <1>0, <1>11 DEF RemoveListeners, ForeignWrite, ErrorEvent
<1>12. CASE UNCHANGED vars
  BY <1>0, <1>12 DEF vars
<1> QED
  BY <1>1, <1>2, <1>3, <1>4, <1>5, <1>6, <1>7, <1>8, <1>9, <1>10, <1>11, <1>12
  DEF Next, StartUp

LevelsStay ==
  /\ UNCHANGED << minLevels, streamLevel, healthLevel >>
  /\ "pino" \in built' => "pino" \in built

LEMMA LevelsStayElsewhere ==
  ASSUME [Next]_vars, ~ BuildPino, \A d \in Sinks \cup {Stdout} : ~ MarkDestination(d)
  PROVE  LevelsStay
<1> USE DEF LevelsStay
<1>1. ASSUME NEW c \in Contexts, Declare(c) \/ BuildContextLogger(c) PROVE LevelsStay
  BY <1>1, ContextsAssumption DEF Declare, BuildContextLogger, OwnProviders
<1>2. CASE Register \/ BuildOptions
  BY <1>2 DEF Register, BuildOptions
<1>3. ASSUME NEW p \in Providers, BuildOther(p) PROVE LevelsStay
  BY <1>3 DEF BuildOther
<1>4. CASE ResolveUnknownContext \/ ModuleInit
  BY <1>4 DEF ResolveUnknownContext, ModuleInit
<1>5. CASE AnnounceBootstrap
  BY <1>5 DEF AnnounceBootstrap
<1>6. ASSUME NEW logger \in Loggers, NEW label, SetContext(logger, label) PROVE LevelsStay
  BY <1>6 DEF SetContext
<1>7. ASSUME NEW logger \in Loggers, NEW call, NEW ambient, Log(logger, call, ambient)
      PROVE  LevelsStay
  BY <1>7 DEF Log
<1>8. ASSUME NEW s \in Streams, RemoveListeners(s) \/ ForeignWrite(s) \/ ErrorEvent(s)
      PROVE  LevelsStay
  BY <1>8 DEF RemoveListeners, ForeignWrite, ErrorEvent
<1>9. CASE UNCHANGED vars
  BY <1>9 DEF vars
<1> QED
  BY <1>1, <1>2, <1>3, <1>4, <1>5, <1>6, <1>7, <1>8, <1>9 DEF Next, StartUp

\* Before the factory of Pino has run, nothing is known of the levels.
LEMMA LevelStep ==
  ASSUME Inv, [Next]_vars
  PROVE  LevelInv'
<1>0. LevelInv /\ ModuleTypeOK
  BY DEF Inv
<1>1. CASE Register \/ BuildOptions
  <2>1. "pino" \notin built /\ "pino" \notin built'
    BY <1>1, DepsOf DEF Register, BuildOptions, Ready, Inv, BuiltInv
  <2>2. healthLevel' = healthLevel
    BY <1>1 DEF Register, BuildOptions
  <2> QED
    BY <1>0, <2>1, <2>2 DEF LevelInv
<1>2. CASE BuildPino
  <2>1. options' = options /\ healthLevel' = healthLevel /\ "pino" \notin built
    BY <1>2 DEF BuildPino, Ready
  <2>2. PICK answer :
          /\ minLevels' = [ d \in Sinks \cup {Stdout} |->
               IF d \in Destinations THEN SafeMinLevel(minLevels[d], answer[d]) ELSE minLevels[d] ]
          /\ streamLevel' = [ d \in Sinks \cup {Stdout} |->
               IF d \in Destinations THEN StreamLevel(options, minLevels'[d]) ELSE streamLevel[d] ]
    BY <1>2 DEF BuildPino
  <2>3. ASSUME NEW d \in Destinations
        PROVE  minLevels'[d] # Unread /\ streamLevel'[d] = StreamLevel(options, minLevels'[d])
    <3>1. d \in AllSinks
      BY DEF Destinations, AllSinks
    <3>2. minLevels'[d] = SafeMinLevel(minLevels[d], answer[d])
      BY <2>2, <3>1 DEF AllSinks
    <3>3. minLevels[d] \in LogLevels \cup {Absent, Unread}
      BY <1>0, <3>1 DEF ModuleTypeOK
    <3>4. minLevels'[d] \in LogLevels \cup {Absent}
      BY <3>2, <3>3, SafeMinLevelKeeps
    <3>5. minLevels'[d] # Unread
      BY <3>4, TheLevels DEF Absent, Unread
    <3> QED
      BY <2>2, <3>1, <3>5 DEF AllSinks
  <2>4. \A d \in AllSinks : healthLevel'[d] = Unread
    BY <1>0, <2>1 DEF LevelInv
  <2>5. Destinations' = Destinations
    BY <2>1 DEF Destinations
  <2> QED
    BY <2>1, <2>3, <2>4, <2>5 DEF LevelInv
<1>3. ASSUME NEW e \in Sinks \cup {Stdout}, MarkDestination(e) PROVE LevelInv'
  <2>1. "pino" \in built /\ built' = built /\ options' = options /\ streamLevel' = streamLevel
    BY <1>3 DEF MarkDestination, Inv, BuiltInv
  <2>2. PICK answer :
          /\ minLevels' = [minLevels EXCEPT ![e] = SafeMinLevel(@, answer)]
          /\ healthLevel' = [healthLevel EXCEPT ![e] = EffectiveLevelOf(options, minLevels'[e])]
    BY <1>3 DEF MarkDestination
  <2>3. minLevels[e] \in LogLevels \cup {Absent, Unread} /\ minLevels[e] # Unread
    BY <1>0, <1>3, <2>1 DEF MarkDestination, LevelInv, ModuleTypeOK, AllSinks
  <2>4. SafeMinLevel(minLevels[e], answer) = minLevels[e]
    BY <2>3, SafeMinLevelKeeps
  <2>5. minLevels' = minLevels
    BY <1>0, <2>2, <2>4 DEF ModuleTypeOK, AllSinks
  <2>6. \A d \in AllSinks : healthLevel'[d] =
          IF d = e THEN EffectiveLevelOf(options, minLevels[e]) ELSE healthLevel[d]
    BY <1>0, <2>2, <2>5 DEF ModuleTypeOK, AllSinks
  <2>7. Destinations' = Destinations
    BY <2>1 DEF Destinations
  <2> QED
    BY <1>0, <2>1, <2>5, <2>6, <2>7 DEF LevelInv
<1>4. CASE ~ Register /\ ~ BuildOptions /\ ~ BuildPino
             /\ \A d \in Sinks \cup {Stdout} : ~ MarkDestination(d)
  <2>1. options' = options
    BY <1>4, OptionsStay
  <2>2. LevelsStay
    BY <1>4, LevelsStayElsewhere
  <2>3. built \subseteq built'
    BY BuiltStep
  <2>4. Destinations' = Destinations
    BY <2>1 DEF Destinations
  <2> QED
    BY <1>0, <2>1, <2>2, <2>3, <2>4 DEF LevelInv, LevelsStay
<1> QED
  BY <1>1, <1>2, <1>3, <1>4

\* A step that writes leaves its listener behind; only RemoveListeners takes one away, and
\* marks the stream as not written since.
LEMMA PipeStep ==
  ASSUME Inv, [Next]_vars
  PROVE  PipeInv'
<1>0. /\ streams \in [Streams -> StreamType]
      /\ \A s \in Streams : Guarded(streams[s])
      /\ BrokenPipeIsSurvived
  BY DEF Inv, ModuleTypeOK, PipeInv, StreamType, Guarded
<1>1. ASSUME NEW names, WriteTo(names), boot # "crashed", boot' # "crashed" PROVE PipeInv'
  BY <1>0, <1>1, WriteToGuards DEF PipeInv, Guarded, BrokenPipeIsSurvived
<1>2. CASE BuildPino
  BY <1>1, <1>2 DEF BuildPino, Ready
<1>3. CASE AnnounceBootstrap
  <2>1. boot = "readying" /\ boot' \in {"aborted", "up"}
    BY <1>3 DEF AnnounceBootstrap
  <2>2. \E names : WriteTo(names)
    BY <1>3, Zenon DEF AnnounceBootstrap
  <2> QED
    BY <1>1, <2>1, <2>2
<1>4. ASSUME NEW logger \in Loggers, NEW call, NEW ambient, Log(logger, call, ambient)
      PROVE  PipeInv'
  <2>1. boot # "crashed" /\ boot' # "crashed"
    BY <1>4 DEF Log, Held, Running
  <2>2. \E names : WriteTo(names)
    BY <1>4, Zenon DEF Log
  <2> QED
    BY <1>1, <2>1, <2>2
<1>5. ASSUME NEW s \in Streams, RemoveListeners(s) PROVE PipeInv'
  <2>1. boot # "crashed" /\ boot' = boot
    BY <1>5 DEF RemoveListeners, Running
  <2>2. streams' = [streams EXCEPT ![s].listening = FALSE, ![s].last = "removed"]
    BY <1>5 DEF RemoveListeners
  <2>3. \A t \in Streams : Guarded(streams'[t])
    BY <1>0, <2>2 DEF Guarded, StreamType
  <2> QED
    BY <2>1, <2>3 DEF PipeInv, Guarded, BrokenPipeIsSurvived
<1>6. ASSUME NEW s \in Streams, ForeignWrite(s) PROVE PipeInv'
  <2>1. boot # "crashed" /\ boot' = boot
    BY <1>6 DEF ForeignWrite, Running
  <2>2. streams' = [streams EXCEPT ![s].pending = TRUE]
    BY <1>6 DEF ForeignWrite
  <2>3. \A t \in Streams : Guarded(streams'[t])
    BY <1>0, <2>2 DEF Guarded, StreamType
  <2> QED
    BY <2>1, <2>3 DEF PipeInv, Guarded, BrokenPipeIsSurvived
<1>7. ASSUME NEW s \in Streams, ErrorEvent(s) PROVE PipeInv'
  <2>1. CASE streams[s].listening
    <3>1. boot # "crashed" /\ boot' = boot /\ streams' = [streams EXCEPT ![s].pending = FALSE]
      BY <1>7, <2>1 DEF ErrorEvent, Running
    <3>2. \A t \in Streams : Guarded(streams'[t])
      BY <1>0, <3>1 DEF Guarded, StreamType
    <3> QED
      BY <3>1, <3>2 DEF PipeInv, Guarded, BrokenPipeIsSurvived
  <2>2. CASE ~ streams[s].listening
    <3>1. streams' = streams /\ streams[s].pending
      BY <1>7, <2>2 DEF ErrorEvent
    <3>2. streams[s].last # "written"
      BY <1>0, <2>2 DEF Guarded
    <3> QED
      BY <1>0, <3>1, <3>2 DEF PipeInv, Guarded, BrokenPipeIsSurvived
  <2> QED
    BY <2>1, <2>2
<1>8. CASE streams' = streams /\ boot' # "crashed"
  BY <1>0, <1>8 DEF PipeInv, Guarded, BrokenPipeIsSurvived
<1>9. CASE UNCHANGED vars
  BY <1>0, <1>9 DEF vars, PipeInv, Guarded, BrokenPipeIsSurvived
<1>10. ASSUME Next,
              ~ BuildPino, ~ AnnounceBootstrap,
              \A logger \in Loggers : \A call, ambient : ~ Log(logger, call, ambient),
              \A s \in Streams : ~ (RemoveListeners(s) \/ ForeignWrite(s) \/ ErrorEvent(s))
       PROVE  streams' = streams /\ boot' # "crashed"
  BY <1>10
  DEF Next, StartUp, Declare, Register, BuildOptions, Rejection, BuildContextLogger, BuildOther,
      Ready,
      ResolveUnknownContext, ModuleInit, MarkDestination, SetContext, Held, Running
<1> QED
  BY <1>2, <1>3, <1>4, <1>5, <1>6, <1>7, <1>8, <1>9, <1>10

-----------------------------------------------------------------------------
(* The theorems.                                                            *)

LEMMA InvInit ==
  ASSUME Init
  PROVE  Inv
<1>1. ModuleTypeOK
  <2>1. \A s \in Streams : streams[s] \in
          [listening : BOOLEAN, pending : BOOLEAN, last : {"nothing", "written", "removed"}]
    BY DEF Init
  <2> QED
    BY <2>1 DEF Init, ModuleTypeOK, AllSinks, NotDetected, Labels
<1>2. SettledInv /\ BuiltInv /\ LevelInv
  BY DEF Init, SettledInv, Settled, BuiltInv, LevelInv, AllSinks
<1>3. PipeInv
  BY DEF Init, PipeInv, BrokenPipeIsSurvived
<1> QED
  BY <1>1, <1>2, <1>3 DEF Inv

LEMMA InvStep ==
  ASSUME Inv, [Next]_vars
  PROVE  Inv'
BY TypeStep, SettledStep, BuiltStep, LevelStep, PipeStep DEF Inv

THEOREM InvHolds == Spec => []Inv
<1>1. Init => Inv
  BY InvInit
<1>2. Inv /\ [Next]_vars => Inv'
  BY InvStep
<1> QED
  BY <1>1, <1>2, PTL DEF Spec

\* Every variable but the last line keeps its type, whatever is registered, built and logged.
THEOREM ModuleTypeCorrect == Spec => []ModuleTypeOK
<1>1. Inv => ModuleTypeOK
  BY DEF Inv
<1> QED
  BY <1>1, InvHolds, PTL

\* The factory and the registry work with one level per destination, whatever its getter
\* answers to each of them (safeMinLevel).
THEOREM LevelsAlwaysAgree == Spec => []LevelsAgree
<1>1. Inv => LevelsAgree
  BY LevelsAgreeOfInv
<1> QED
  BY <1>1, InvHolds, PTL

\* A broken pipe ends the process only where the listeners were taken away after the last
\* write of the library (ensureGuarded).
THEOREM BrokenPipesAreSurvived == Spec => []BrokenPipeIsSurvived
<1>1. Inv => BrokenPipeIsSurvived
  BY DEF Inv, PipeInv
<1> QED
  BY <1>1, InvHolds, PTL

-----------------------------------------------------------------------------
(***************************************************************************)
(* What a line holds: the properties of LoggerModule about the last call,  *)
(* for every payload, store, label and set of options that validates.      *)
(***************************************************************************)
(* Objects.                                                                 *)

LEMMA AssignIs ==
  ASSUME NEW payload, NEW name, NEW value
  PROVE  /\ DOMAIN payload \subseteq DOMAIN AssignIfDefined(payload, name, value)
         /\ DOMAIN AssignIfDefined(payload, name, value) \subseteq DOMAIN payload \cup {name}
         /\ \A x \in DOMAIN payload \ {name} : AssignIfDefined(payload, name, value)[x] = payload[x]
         /\ name \notin DOMAIN payload =>
              ValueOf(AssignIfDefined(payload, name, value), name) = value
         /\ value # Undefined => name \in DOMAIN AssignIfDefined(payload, name, value)
BY DEF AssignIfDefined, Over, Field, ValueOf

-----------------------------------------------------------------------------
(* The hooks.                                                               *)

LEMMA AttributesAre ==
  /\ DOMAIN ExceptionAttributes = 1..4
  /\ ExceptionAttributes[1] = "exception.type"
  /\ \A i \in 1..4 : ExceptionAttributes[i] \in
       {"exception.type", "error.type", "exception.message", "exception.stacktrace"}
BY DEF ExceptionAttributes

\* The fields the hooks may add.
HookFields ==
  {"event.name", "exception.type", "error.type", "exception.message", "exception.stacktrace"}

LEMMA EventNameKeeps ==
  ASSUME NEW o, NEW record
  PROVE  /\ DOMAIN record \subseteq DOMAIN WithEventName(o, record)
         /\ DOMAIN WithEventName(o, record) \subseteq DOMAIN record \cup HookFields
         /\ \A x \in DOMAIN record \ HookFields : WithEventName(o, record)[x] = record[x]
         /\ \A x \in DOMAIN WithEventName(o, record) : x \notin DOMAIN record =>
              WithEventName(o, record)[x] = Plain("event")
         /\ \A x \in DOMAIN record : WithEventName(o, record)[x] \in {record[x], Plain("event")}
<1>1. CASE WithEventName(o, record) = record
  BY <1>1
<1>2. CASE WithEventName(o, record) = Over(record, Field("event.name", Plain("event")))
  BY <1>2 DEF Over, Field, HookFields
<1> QED
  BY <1>1, <1>2 DEF WithEventName

LEMMA ExceptionKeeps ==
  ASSUME NEW o, NEW record
  PROVE  /\ DOMAIN record \ {"err"} \subseteq DOMAIN WithSemconvException(o, record)
         /\ DOMAIN WithSemconvException(o, record) \subseteq DOMAIN record \cup HookFields
         /\ \A x \in DOMAIN WithSemconvException(o, record) :
              /\ x \notin HookFields => WithSemconvException(o, record)[x] = record[x]
              /\ WithSemconvException(o, record)[x] = Plain("attribute")
                   \/ (x \in DOMAIN record /\ WithSemconvException(o, record)[x] = record[x])
<1>1. CASE o.errorFormat = "pino" \/ "err" \notin DOMAIN record
  BY <1>1 DEF WithSemconvException
<1>2. CASE ~ (o.errorFormat = "pino" \/ "err" \notin DOMAIN record)
  <2> DEFINE resisting == { i \in DOMAIN ExceptionAttributes :
                              Resists(o, record, ExceptionAttributes[i]) }
             written   == { i \in DOMAIN ExceptionAttributes :
                              /\ Offers(record["err"], ExceptionAttributes[i])
                              /\ \A j \in resisting : i < j }
             names     == {ExceptionAttributes[i] : i \in written}
             added     == [name \in names |-> Plain("attribute")]
             widened   == Over(record, added)
  <2>1. WithSemconvException(o, record) =
          IF o.errorFormat = "semconv" /\ resisting = {}
            THEN [name \in DOMAIN widened \ {"err"} |-> widened[name]] ELSE widened
    BY <1>2, Zenon DEF WithSemconvException
  <2>2. names \subseteq HookFields
    BY AttributesAre DEF HookFields
  <2>3. DOMAIN added = names /\ \A x \in names : added[x] = Plain("attribute")
    OBVIOUS
  <2>4. /\ DOMAIN widened = DOMAIN record \cup names
        /\ \A x \in names : widened[x] = Plain("attribute")
        /\ \A x \in DOMAIN record \ names : widened[x] = record[x]
    BY <2>3 DEF Over
  <2> HIDE DEF widened, names
  <2> QED
    BY <2>1, <2>2, <2>4
<1> QED
  BY <1>1, <1>2

\* The record is given up.
GivenUp(o, record) ==
  /\ WalksRecord(o)
  /\ \E name \in DOMAIN record \ RecordNames(o) : record[name].is = "hostile"

LEMMA RedactKeeps ==
  ASSUME NEW o, NEW record
  PROVE  /\ GivenUp(o, record) =>
              RedactRecord(o, record) = FailureMark("LOGGER_REDACTION_FAILED")
         /\ ~ GivenUp(o, record) =>
              /\ DOMAIN RedactRecord(o, record) = DOMAIN record
              /\ \A x \in DOMAIN record : RedactRecord(o, record)[x] =
                   IF WalksRecord(o) THEN RedactField(o, x, record[x]) ELSE record[x]
BY DEF RedactRecord, GivenUp

-----------------------------------------------------------------------------
(* The payload and the merge.                                               *)

LEMMA OwnedKeysAreGone ==
  ASSUME NEW metadata
  PROVE  /\ OWNED_PAYLOAD_KEYS \cap DOMAIN WithoutOwnedKeys(metadata) = {}
         /\ DOMAIN WithoutOwnedKeys(metadata) \subseteq
              DOMAIN metadata.fields \cup {"_redactionFailed", "_logKey"}
BY DEF WithoutOwnedKeys, OWNED_PAYLOAD_KEYS, FailureMark

LEMMA StructuredPayload ==
  ASSUME NEW call, NEW label, call.method \in {"info", "errorStructured"}
  PROVE  /\ "logKey" \in DOMAIN Payload(call, label)
         /\ Payload(call, label)["logKey"] = Plain("KEY")
         /\ ValueOf(Payload(call, label), "userId") = call.userId
         /\ ValueOf(Payload(call, label), "context") = label
<1>1. CASE call.method = "info"
  BY <1>1, OwnedKeysAreGone
  DEF Payload, EmitStructured, AssignIfDefined, Over, Field, ValueOf, OWNED_PAYLOAD_KEYS
<1>2. CASE call.method = "errorStructured"
  BY <1>2, OwnedKeysAreGone
  DEF Payload, ErrorStructured, AssignIfDefined, Over, Field, ValueOf, OWNED_PAYLOAD_KEYS
<1> QED
  BY <1>1, <1>2

\* Nothing but the call's own arguments gives a payload its context.
LEMMA UnnamedPayload ==
  ASSUME NEW call, call.method \in {"info", "errorStructured", "log", "error"},
         call.method \in {"log", "error"} => ~ NamesContext(call)
  PROVE  "context" \notin DOMAIN Payload(call, Undefined)
<1>1. CASE call.method = "info"
  BY <1>1, OwnedKeysAreGone
  DEF Payload, EmitStructured, AssignIfDefined, Over, Field, OWNED_PAYLOAD_KEYS
<1>2. CASE call.method = "errorStructured"
  BY <1>2, OwnedKeysAreGone
  DEF Payload, ErrorStructured, AssignIfDefined, Over, Field, OWNED_PAYLOAD_KEYS
<1>3. CASE call.method = "log"
  <2>1. ResolveContext(call.tail, Undefined) = Undefined
    BY <1>3 DEF ResolveContext, NamesContext
  <2> QED
    BY <1>3, <2>1 DEF Payload, EmitNestStyle, AssignIfDefined, Over, Field, Empty
<1>4. CASE call.method = "error"
  <2>1. CASE IsErrorLike(call.message)
    <3>1. ResolveContext(call.tail, Undefined) = Undefined
      BY <1>4, <2>1 DEF ResolveContext, NamesContext
    <3> QED
      BY <1>4, <2>1, <3>1 DEF Payload, NestError, AssignIfDefined, Over, Field
  <2>2. CASE ~ IsErrorLike(call.message)
    <3>1. StringAt(call.tail, 2, Undefined) = Undefined
      BY <1>4, <2>2 DEF StringAt, NamesContext
    <3> QED
      BY <1>4, <2>2, <3>1 DEF Payload, NestError, AssignIfDefined, Over, Field, Empty
  <2> QED
    BY <2>1, <2>2
<1> QED
  BY <1>1, <1>2, <1>3, <1>4

\* Both ids or neither.
LEMMA StampIs ==
  ASSUME NEW span
  PROVE  /\ DOMAIN Stamp(span) \subseteq {"traceId", "spanId", "traceFlags"}
         /\ "traceId" \in DOMAIN Stamp(span) <=> "spanId" \in DOMAIN Stamp(span)
BY DEF Stamp, Over, Field, Empty

\* Where the fields of a record can come from.
LEMMA RecordFields ==
  ASSUME NEW o, NEW call, NEW label, NEW store, NEW api, NEW span
  PROVE  DOMAIN FormattersLog(o, MixinMergeStrategy(call, Payload(call, label),
                                                    Mixin(store, api, span)))
           \subseteq DOMAIN store \cup DOMAIN Payload(call, label) \cup HookFields
             \cup {"traceId", "spanId", "traceFlags", "_redactionFailed", "_logKey"}
<1> DEFINE mixin  == Mixin(store, api, span)
           merged == MixinMergeStrategy(call, Payload(call, label), mixin)
           record == RedactRecord(o, merged)
           named  == WithEventName(o, record)
<1>1. DOMAIN mixin \subseteq DOMAIN store \cup {"traceId", "spanId", "traceFlags"}
  BY StampIs DEF Mixin, Over
<1>2. DOMAIN merged \subseteq DOMAIN mixin \cup DOMAIN Payload(call, label)
                                \cup {"_redactionFailed", "_logKey"}
  BY DEF MixinMergeStrategy, Over, FailureMark
<1>3. DOMAIN record \subseteq DOMAIN merged \cup {"_redactionFailed", "_logKey"}
  BY DEF RedactRecord, FailureMark
<1>4. DOMAIN named \subseteq DOMAIN record \cup HookFields
  BY EventNameKeeps
<1>5. DOMAIN WithSemconvException(o, named) \subseteq DOMAIN named \cup HookFields
  BY ExceptionKeeps
<1>6. FormattersLog(o, merged) = WithSemconvException(o, named)
  BY DEF FormattersLog
<1> HIDE DEF mixin, merged, record, named
<1>7. DOMAIN FormattersLog(o, merged) \subseteq DOMAIN store \cup DOMAIN Payload(call, label)
        \cup HookFields \cup {"traceId", "spanId", "traceFlags", "_redactionFailed", "_logKey"}
  BY <1>1, <1>2, <1>3, <1>4, <1>5, <1>6
<1> QED
  BY <1>7 DEF mixin, merged

\* The binding of the logger stands where the record has no context.
LEMMA BindingStands ==
  ASSUME NEW o, NEW record, NEW binding, binding # Undefined, "context" \notin DOMAIN record
  PROVE  /\ "context" \in DOMAIN Fields(o, record, binding)
         /\ Fields(o, record, binding)["context"] = binding
BY DEF Fields, Serialized, AssignIfDefined, Over, Field, Empty

-----------------------------------------------------------------------------
(* Only a call changes the line.                                            *)

LEMMA LineStays ==
  ASSUME [Next]_vars,
         \A logger \in Loggers, call \in Usage[setup.usage].calls,
            ambient \in Usage[setup.usage].ambients : ~ Log(logger, call, ambient)
  PROVE  line' = line
<1>1. ASSUME NEW c \in Contexts, Declare(c) \/ BuildContextLogger(c) PROVE line' = line
  BY <1>1 DEF Declare, BuildContextLogger
<1>2. CASE Register \/ BuildOptions \/ BuildPino \/ ResolveUnknownContext \/ ModuleInit
  BY <1>2 DEF Register, BuildOptions, BuildPino, ResolveUnknownContext, ModuleInit
<1>3. ASSUME NEW p \in Providers, BuildOther(p) PROVE line' = line
  BY <1>3 DEF BuildOther
<1>4. ASSUME NEW d \in Sinks \cup {Stdout}, MarkDestination(d) PROVE line' = line
  BY <1>4 DEF MarkDestination
<1>5. CASE AnnounceBootstrap
  BY <1>5 DEF AnnounceBootstrap
<1>6. ASSUME NEW logger \in Loggers, NEW label, SetContext(logger, label) PROVE line' = line
  BY <1>6 DEF SetContext
<1>7. ASSUME NEW s \in Streams, RemoveListeners(s) \/ ForeignWrite(s) \/ ErrorEvent(s)
      PROVE  line' = line
  BY <1>7 DEF RemoveListeners, ForeignWrite, ErrorEvent
<1>8. CASE UNCHANGED vars
  BY <1>8 DEF vars
<1> QED
  BY <1>1, <1>2, <1>3, <1>4, <1>5, <1>6, <1>7, <1>8 DEF Next, StartUp

\* The record a call hands to Pino's serializers.
RecordOf(logger, call, ambient) ==
  FormattersLog(options, MixinMergeStrategy(call, Payload(call, labels[logger]),
                                            Mixin(ambient.store, traceApi.api, ambient.span)))

\* What a call leaves in the line.
LEMMA LogLine ==
  ASSUME NEW logger, NEW call, NEW ambient, Log(logger, call, ambient)
  PROVE  /\ line'.logger = logger /\ line'.call = call /\ line'.ambient = ambient
         /\ line'.label = labels[logger]
         /\ line'.outcome = Outcome(options, call, RecordOf(logger, call, ambient))
         /\ line'.outcome = "written" =>
              line'.fields = Fields(options, RecordOf(logger, call, ambient), BindingOf(logger))
BY DEF Log, Line, RecordOf, LabelOf

LEMMA InjectedLabelStep ==
  ASSUME Inv, InjectedLabelHolds, [Next]_vars
  PROVE  InjectedLabelHolds'
<1>1. CASE line' = line
  BY <1>1 DEF InjectedLabelHolds, NamesContext
<1>2. ASSUME NEW logger \in Loggers, NEW call \in Usage[setup.usage].calls,
             NEW ambient \in Usage[setup.usage].ambients, Log(logger, call, ambient)
      PROVE  InjectedLabelHolds'
  <2> SUFFICES ASSUME line'.outcome = "written", logger \in Contexts,
                      labels[logger] = Undefined, call.method # "raw",
                      call.method \in {"log", "error"} => ~ NamesContext(call),
                      "context" \notin DOMAIN ambient.store
               PROVE  line'.fields["context"] = Plain(logger)
    BY <1>2, LogLine DEF InjectedLabelHolds, NamesContext
  <2>1. logger # "root" /\ Plain(logger) # Undefined
    BY ContextsAssumption DEF Plain, Undefined
  <2>2. call.method \in {"info", "errorStructured", "log", "error"}
    <3>1. setup.usage \in DOMAIN Usage
      BY SetupsAssumption DEF Inv, ModuleTypeOK
    <3>2. call.method \in {"info", "errorStructured", "record", "log", "error", "raw"}
      BY <3>1, UsageAssumption
    <3> QED
      BY <1>2, <2>1, <3>2 DEF Log
  <2>3. "context" \notin DOMAIN Payload(call, labels[logger])
    BY <2>2, UnnamedPayload
  <2>4. "context" \notin DOMAIN RecordOf(logger, call, ambient)
    BY <2>3, RecordFields DEF RecordOf, HookFields
  <2>5. BindingOf(logger) = Plain(logger)
    BY <2>1 DEF BindingOf
  <2>6. line'.fields = Fields(options, RecordOf(logger, call, ambient), Plain(logger))
    BY <1>2, <2>5, LogLine
  <2> QED
    BY <2>1, <2>4, <2>6, BindingStands
<1> QED
  BY <1>1, <1>2, LineStays

\* The label of an injected logger is on every line that nothing else names a context for,
\* whatever others do to the root logger (InjectLogger, PinoLoggerService.child).
THEOREM InjectedLabelsHold == Spec => []InjectedLabelHolds
<1>1. Init => InjectedLabelHolds
  BY DEF Init, NoLine, InjectedLabelHolds
<1>2. Inv /\ InjectedLabelHolds /\ [Next]_vars => InjectedLabelHolds'
  BY InjectedLabelStep
<1> QED
  BY <1>1, <1>2, InvHolds, PTL DEF Spec

-----------------------------------------------------------------------------
(* The trace: what was detected, and what was said of it.                   *)

TraceInv ==
  /\ "pino" \in built =>
       /\ traceApi = IF Injecting THEN DetectOtelTraceApi(setup.anchors) ELSE NotDetected
       /\ traceApi.broken => warnings = 1
  /\ boot = "up" /\ Injecting /\ ~ traceApi.api /\ IsEnabled(options, "warn") =>
       warnings = 1 \/ "OTEL_API_UNAVAILABLE" \in announced
  /\ line.outcome = "written" =>
       /\ "pino" \in built
       /\ traceApi.api /\ line.ambient.span = "throws" => warnings = 1

\* A step that has nothing to do with it.
TraceStay ==
  /\ traceApi' = traceApi /\ warnings' = warnings /\ announced' = announced /\ line' = line
  /\ "pino" \in built' <=> "pino" \in built
  /\ boot' = "up" => boot = "up"
  /\ setup' = setup

LEMMA TraceStays ==
  ASSUME Inv, [Next]_vars, ~ BuildPino, ~ AnnounceBootstrap,
         \A logger \in Loggers, call \in Usage[setup.usage].calls,
            ambient \in Usage[setup.usage].ambients : ~ Log(logger, call, ambient)
  PROVE  TraceStay
<1> USE DEF TraceStay
<1>1. ASSUME NEW c \in Contexts, Declare(c) \/ BuildContextLogger(c) PROVE TraceStay
  BY <1>1, ContextsAssumption DEF Declare, BuildContextLogger, OwnProviders
<1>2. CASE Register \/ BuildOptions
  BY <1>2 DEF Register, BuildOptions, Rejection
<1>3. CASE ResolveUnknownContext \/ ModuleInit
  BY <1>3 DEF ResolveUnknownContext, ModuleInit
<1>4. ASSUME NEW p \in Providers, BuildOther(p) PROVE TraceStay
  BY <1>4 DEF BuildOther
<1>5. ASSUME NEW d \in Sinks \cup {Stdout}, MarkDestination(d) PROVE TraceStay
  BY <1>5 DEF MarkDestination
<1>6. ASSUME NEW logger \in Loggers, NEW label, SetContext(logger, label) PROVE TraceStay
  BY <1>6 DEF SetContext
<1>7. ASSUME NEW s \in Streams, RemoveListeners(s) \/ ForeignWrite(s) \/ ErrorEvent(s)
      PROVE  TraceStay
  BY <1>7 DEF RemoveListeners, ForeignWrite, ErrorEvent
<1>8. CASE UNCHANGED vars
  BY <1>8 DEF vars
<1> QED
  BY <1>1, <1>2, <1>3, <1>4, <1>5, <1>6, <1>7, <1>8 DEF Next, StartUp

\* A package that did not load the first time and loads the second was broken the first time.
LEMMA SecondDetection ==
  ASSUME NEW anchors \in [1..2 -> Outcomes], NEW again \in [1..2 -> Outcomes],
         \A i \in 1..2 : again[i] \in NextOutcomes(anchors[i]),
         ~ DetectOtelTraceApi(anchors).api
  PROVE  DetectOtelTraceApi(anchors).broken \/ again = anchors
<1>1. CASE \E i \in 1..2 : anchors[i] = "throws"
  <2>1. PICK i \in 1..2 : anchors[i] = "throws"
    BY <1>1
  <2>2. LoadTraceApiFrom(anchors[i]).broken
    BY <2>1 DEF LoadTraceApiFrom, IsOtelApiMissing
  <2>3. \E attempt \in {LoadTraceApiFrom(anchors[j]) : j \in DOMAIN anchors} : attempt.broken
    BY <2>2
  <2> QED
    BY <2>3 DEF DetectOtelTraceApi
<1>2. CASE \A i \in 1..2 : anchors[i] # "throws"
  <2>1. \A i \in 1..2 : again[i] = anchors[i]
    BY <1>2 DEF NextOutcomes
  <2> QED
    BY <2>1
<1> QED
  BY <1>1, <1>2

LEMMA TraceStep ==
  ASSUME Inv, TraceInv, [Next]_vars
  PROVE  TraceInv'
<1>0. ModuleTypeOK /\ BuiltInv
  BY DEF Inv
<1>1. CASE BuildPino
  <2>1. /\ setup' = setup /\ options' = options /\ boot' # "up" /\ announced' = announced
        /\ line' = line /\ "pino" \notin built
    BY <1>1 DEF BuildPino, Ready
  <2>2. line.outcome # "written"
    BY <2>1 DEF TraceInv
  <2>3. traceApi' = IF Injecting THEN DetectOtelTraceApi(setup.anchors) ELSE NotDetected
    BY <1>1 DEF BuildPino
  <2>4. traceApi'.broken => warnings' = 1
    BY <1>0, <1>1, WarningsBounded DEF BuildPino, ModuleTypeOK
  <2> QED
    BY <2>1, <2>2, <2>3, <2>4 DEF TraceInv, Injecting
<1>2. CASE AnnounceBootstrap
  <2>1. /\ setup' = setup /\ options' = options /\ built' = built /\ traceApi' = traceApi
        /\ line' = line /\ boot = "readying"
    BY <1>2 DEF AnnounceBootstrap
  <2>2. "pino" \in built
    BY <1>0, <2>1 DEF BuiltInv
  <2> DEFINE Entries(again) == EarlyEntries \cup TraceWarning(Redetected(again).api)
  <2>3. PICK ambient \in Usage[setup.usage].ambients, again \in NextAnchors :
          /\ IF Stopping(Entries(again))
               THEN boot' = "aborted" /\ UNCHANGED announced
               ELSE boot' = "up" /\ announced' = Entries(again)
          /\ warnings' = IF announced' # {}
                           THEN MixinWarnings(traceApi.api, ambient.span, Noted(again))
                           ELSE Noted(again)
    BY <1>2, Zenon DEF AnnounceBootstrap
  <2>4. warnings = 1 => warnings' = 1
    <3>1. warnings = 1 => Noted(again) = 1
      BY WarningsBounded, <1>0 DEF Noted, ModuleTypeOK
    <3>2. Noted(again) = 1 => MixinWarnings(traceApi.api, ambient.span, Noted(again)) = 1
      BY WarningsBounded
    <3> QED
      BY <2>3, <3>1, <3>2
  <2>5. ASSUME boot' = "up", Injecting, ~ traceApi.api, IsEnabled(options, "warn")
        PROVE  (warnings' = 1 \/ "OTEL_API_UNAVAILABLE" \in announced')
    <3>1. traceApi = DetectOtelTraceApi(setup.anchors) /\ (traceApi.broken => warnings = 1)
      BY <2>2, <2>5 DEF TraceInv, Injecting
    <3>2. CASE DetectOtelTraceApi(setup.anchors).broken
      BY <2>4, <3>1, <3>2
    <3>3. CASE ~ DetectOtelTraceApi(setup.anchors).broken
      <4>1. setup.anchors \in [1..2 -> Outcomes]
        BY <1>0, SetupsAssumption DEF ModuleTypeOK
      <4>2. again = setup.anchors
        BY <2>3, <2>5, <3>1, <3>3, <4>1, SecondDetection DEF NextAnchors
      <4>3. ~ Redetected(again).api
        BY <2>5, <3>1, <4>2 DEF Redetected, NotDetected
      <4>4. "OTEL_API_UNAVAILABLE" \in Entries(again)
        BY <2>5, <4>3 DEF TraceWarning
      <4> QED
        BY <2>3, <2>5, <4>4
    <3> QED
      BY <3>2, <3>3
  <2> QED
    BY <2>1, <2>4, <2>5 DEF TraceInv, Injecting
<1>3. ASSUME NEW logger \in Loggers, NEW call \in Usage[setup.usage].calls,
             NEW ambient \in Usage[setup.usage].ambients, Log(logger, call, ambient)
      PROVE  TraceInv'
  <2>1. /\ setup' = setup /\ options' = options /\ built' = built /\ traceApi' = traceApi
        /\ boot' = boot /\ announced' = announced
    BY <1>3 DEF Log
  <2>2. "pino" \in built
    BY <1>0, <1>3, DepsOf DEF Log, Held, BuiltInv, Loggers
  <2>3. line'.ambient = ambient
    BY <1>3, LogLine
  <2>4. /\ warnings = 1 => warnings' = 1
        /\ line'.outcome = "written" /\ traceApi.api /\ ambient.span = "throws" => warnings' = 1
    <3>1. warnings' = IF line'.outcome \in {"written", "brokenOff"}
                        THEN MixinWarnings(traceApi.api, ambient.span, warnings) ELSE warnings
      BY <1>3 DEF Log
    <3> QED
      BY <1>0, <3>1, WarningsBounded DEF ModuleTypeOK
  <2> QED
    BY <2>1, <2>2, <2>3, <2>4 DEF TraceInv, Injecting
<1>4. CASE TraceStay
  <2>1. CASE Register \/ BuildOptions
    <3>1. "pino" \notin built /\ boot # "up"
      BY <1>0, <2>1, DepsOf DEF Register, BuildOptions, Ready, BuiltInv
    <3> QED
      BY <1>4, <3>1 DEF TraceInv, TraceStay
  <2>2. CASE ~ Register /\ ~ BuildOptions
    BY <1>4, <2>2, OptionsStay DEF TraceInv, TraceStay, Injecting
  <2> QED
    BY <2>1, <2>2
<1> QED
  BY <1>1, <1>2, <1>3, <1>4, TraceStays

\* Nothing but metadata gives a payload a field of another name.
LEMMA PayloadFields ==
  ASSUME NEW call, NEW label, {"method", "message", "metadata"} \subseteq DOMAIN call,
         call.method \in {"info", "errorStructured", "record", "log", "error", "raw"}
  PROVE  DOMAIN Payload(call, label) \subseteq DOMAIN call.metadata.fields
           \cup {"logKey", "userId", "context", "err", "stack", "msg", "_redactionFailed", "_logKey"}
<1> DEFINE Own == {"logKey", "userId", "context", "err", "stack", "msg", "_redactionFailed", "_logKey"}
<1>1. CASE call.method = "info"
  BY <1>1, OwnedKeysAreGone DEF Payload, EmitStructured, AssignIfDefined, Over, Field
<1>2. ASSUME NEW error
      PROVE  DOMAIN ErrorStructured([call EXCEPT !.message = error], label) \subseteq
               DOMAIN call.metadata.fields \cup Own
  <2>1. [call EXCEPT !.message = error].metadata = call.metadata
    OBVIOUS
  <2> QED
    BY <2>1, OwnedKeysAreGone DEF ErrorStructured, AssignIfDefined, Over, Field
<1>3. CASE call.method = "errorStructured"
  BY <1>3, OwnedKeysAreGone DEF Payload, ErrorStructured, AssignIfDefined, Over, Field
<1>4. CASE call.method = "record"
  <2>1. Payload(call, label) =
          ErrorStructured([call EXCEPT !.message = ToLoggableError(@)], label)
    BY <1>4 DEF Payload
  <2> QED
    BY <1>2, <2>1
<1>5. CASE call.method = "log"
  BY <1>5 DEF Payload, EmitNestStyle, AssignIfDefined, Over, Field, Empty
<1>6. CASE call.method = "error"
  BY <1>6 DEF Payload, NestError, AssignIfDefined, Over, Field, Empty
<1>7. CASE call.method = "raw"
  BY <1>7 DEF Payload
<1> QED
  BY <1>1, <1>3, <1>4, <1>5, <1>6, <1>7

Ids == {"traceId", "spanId"}

\* The ids come together through the hooks.
LEMMA IdsStayTogether ==
  ASSUME NEW o, NEW merged, "traceId" \in DOMAIN merged <=> "spanId" \in DOMAIN merged
  PROVE  "traceId" \in DOMAIN FormattersLog(o, merged) <=>
         "spanId" \in DOMAIN FormattersLog(o, merged)
<1> DEFINE record == RedactRecord(o, merged)
           named  == WithEventName(o, record)
<1>1. "traceId" \in DOMAIN record <=> "spanId" \in DOMAIN record
  BY DEF RedactRecord, FailureMark
<1>2. \A id \in Ids : id \in DOMAIN named <=> id \in DOMAIN record
  BY EventNameKeeps DEF HookFields, Ids
<1>3. \A id \in Ids : id \in DOMAIN WithSemconvException(o, named) <=> id \in DOMAIN named
  BY ExceptionKeeps DEF HookFields, Ids
<1> QED
  BY <1>1, <1>2, <1>3 DEF FormattersLog, Ids

\* A line of the application's that leaves the ids alone has both or none.
IdsTogether ==
  line.outcome = "written" /\ OwnTrace(line) =>
    ("traceId" \in DOMAIN line.fields <=> "spanId" \in DOMAIN line.fields)

LEMMA IdsStep ==
  ASSUME Inv, IdsTogether, [Next]_vars
  PROVE  IdsTogether'
<1>1. CASE line' = line
  BY <1>1 DEF IdsTogether, OwnTrace
<1>2. ASSUME NEW logger \in Loggers, NEW call \in Usage[setup.usage].calls,
             NEW ambient \in Usage[setup.usage].ambients, Log(logger, call, ambient)
      PROVE  IdsTogether'
  <2> SUFFICES ASSUME line'.outcome = "written",
                      Ids \cap (DOMAIN call.metadata.fields \cup DOMAIN ambient.store) = {}
               PROVE  "traceId" \in DOMAIN line'.fields <=> "spanId" \in DOMAIN line'.fields
    BY <1>2, LogLine DEF IdsTogether, OwnTrace, Ids
  <2> DEFINE mixin  == Mixin(ambient.store, traceApi.api, ambient.span)
             merged == MixinMergeStrategy(call, Payload(call, labels[logger]), mixin)
             record == RecordOf(logger, call, ambient)
  <2>1. setup.usage \in DOMAIN Usage
    BY SetupsAssumption DEF Inv, ModuleTypeOK
  <2>2. Ids \cap DOMAIN Payload(call, labels[logger]) = {}
    BY <2>1, UsageAssumption, PayloadFields DEF Ids
  <2>3. "traceId" \in DOMAIN mixin <=> "spanId" \in DOMAIN mixin
    BY StampIs DEF Mixin, Over, Ids
  <2>4. "traceId" \in DOMAIN merged <=> "spanId" \in DOMAIN merged
    BY <2>2, <2>3 DEF MixinMergeStrategy, Over, FailureMark, Ids
  <2>5. "traceId" \in DOMAIN record <=> "spanId" \in DOMAIN record
    BY <2>4, IdsStayTogether DEF RecordOf
  <2>6. line'.fields = Fields(options, record, BindingOf(logger))
    BY <1>2, LogLine
  <2> HIDE DEF record
  <2>7. \A id \in Ids : id \in DOMAIN Fields(options, record, BindingOf(logger))
                          <=> id \in DOMAIN record
    BY DEF Fields, Serialized, AssignIfDefined, Over, Field, Empty, Ids
  <2> QED
    BY <2>5, <2>6, <2>7 DEF Ids
<1> QED
  BY <1>1, <1>2, LineStays

\* A loss that the properties speak of is one the invariant speaks of.
LEMMA TraceLossOfInv ==
  ASSUME Inv, TraceInv, IdsTogether
  PROVE  TraceLossIsAnnounced
<1>1. ASSUME "pino" \in built, Injecting, ~ traceApi.api, NEW i \in DOMAIN setup.anchors,
             setup.anchors[i] \in {"dependency", "throws", "unusable"}
      PROVE  warnings = 1
  <2>1. traceApi = DetectOtelTraceApi(setup.anchors)
    BY <1>1 DEF TraceInv
  <2>2. LoadTraceApiFrom(setup.anchors[i]).broken
    BY <1>1 DEF LoadTraceApiFrom, IsOtelApiMissing
  <2>3. traceApi.broken
    BY <1>1, <2>1, <2>2 DEF DetectOtelTraceApi
  <2> QED
    BY <1>1, <2>3 DEF TraceInv
<1>2. warnings <= 1
  BY DEF Inv, ModuleTypeOK
<1> QED
  BY <1>1, <1>2 DEF TraceInv, IdsTogether, TraceLossIsAnnounced

\* Trace correlation that was asked for is never missing in silence, and its loss is reported
\* at most once, whatever the installation and the ambient spans are (detectOtelTraceApi,
\* warnBrokenInstallOnce, announceBootstrap).
THEOREM TraceLossesAreAnnounced == Spec => []TraceLossIsAnnounced
<1>1. Init => TraceInv /\ IdsTogether
  BY DEF Init, NoLine, TraceInv, IdsTogether
<1>2. Inv /\ (TraceInv /\ IdsTogether) /\ [Next]_vars => (TraceInv /\ IdsTogether)'
  BY TraceStep, IdsStep
<1>3. Inv /\ TraceInv /\ IdsTogether => TraceLossIsAnnounced
  BY TraceLossOfInv
<1> QED
  BY <1>1, <1>2, <1>3, InvHolds, PTL DEF Spec

-----------------------------------------------------------------------------
(* What is covered.                                                         *)

LEMMA LeafNames ==
  ASSUME NEW path \in {"user.ssn", "ssn[0]", "*", "none"}
  PROVE  LeafNameOf(path) = IF path \in {"user.ssn", "ssn[0]"} THEN {"ssn"} ELSE {}
<1> USE DEF LeafNameOf, Segments, Segment
<1>1. CASE path = "user.ssn"
  BY <1>1
<1>2. CASE path = "ssn[0]"
  BY <1>2
<1>3. CASE path = "*"
  BY <1>3
<1>4. CASE path = "none"
  BY <1>4
<1> QED
  BY <1>1, <1>2, <1>3, <1>4

\* The names options that validate can cover.
LEMMA CoveredAre ==
  ASSUME ModuleTypeOK, SettledInv, "pino" \in built
  PROVE  /\ CoveredNames(options) \subseteq {"password", "user", "ssn"}
         /\ CoveredNames(options) = NamesToCover(options)
         /\ RecordNames(options) \subseteq CoveredNames(options)
         /\ options.redactStrategy = "names" => RecordNames(options) = CoveredNames(options)
<1>1. {"redactPaths"} \subseteq DOMAIN setup.given
  BY SetupsAssumption DEF ModuleTypeOK, Defaults
<1>0. Settled /\ options.redactPaths # "malformed"
  BY DEF SettledInv, Settled
<1>2. Optional(setup.given.redactPaths, {"user.ssn", "ssn[0]", "*", "malformed"})
  BY <1>0 DEF SettledInv, ValidateOptions, ValidateCustomization
<1>3. options.redactPaths = IF setup.given.redactPaths = Absent
                              THEN "none" ELSE setup.given.redactPaths
  BY <1>0, <1>1 DEF SettledInv, ApplyDefaults, Defaults
<1>4. options.redactPaths \in {"user.ssn", "ssn[0]", "*", "none"}
  BY <1>0, <1>2, <1>3 DEF Optional
<1>5. CoveredNames(options) = NamesToCover(options)
  BY <1>4, LeafNames DEF CoveredNames, NamesToCover
<1>6. CoveredNames(options) \subseteq {"password", "user", "ssn"}
  BY <1>5 DEF NamesToCover, REDACT_COMMON_FIELDS
<1> QED
  BY <1>5, <1>6 DEF RecordNames

\* A serialized error holds no covered name in clear.
LEMMA SerializedIsCovered ==
  ASSUME NEW o, NEW value
  PROVE  ErrSerializer(o, value).clear \cap CoveredNames(o) = {}
<1> DEFINE serialized == SerializeErrorValue(o, value)
           redacted   == RedactSerialized(o, serialized)
<1>1. {"is", "clear"} \subseteq DOMAIN serialized /\ serialized.is # "preview"
  BY DEF SerializeErrorValue, Plain
<1> HIDE DEF serialized
<1>2. ~ WalksSerialized(o) => CoveredNames(o) = {}
  BY DEF WalksSerialized
<1>3. {"is", "clear"} \subseteq DOMAIN redacted /\ redacted.clear \cap CoveredNames(o) = {}
  BY <1>1, <1>2 DEF RedactSerialized
<1> HIDE DEF redacted
<1>4. SizeBounded(redacted).clear = redacted.clear
  BY <1>3 DEF SizeBounded
<1>5. ErrSerializer(o, value) = SizeBounded(redacted)
  BY DEF ErrSerializer, redacted, serialized
<1> QED
  BY <1>3, <1>4, <1>5

\* Under 'names' a record that comes out of the hooks is covered.
LEMMA RecordIsCovered ==
  ASSUME NEW o, NEW merged, o.redactStrategy = "names", NEW name,
         CoveredNames(o) \subseteq {"password", "user", "ssn"},
         name \in DOMAIN FormattersLog(o, merged)
  PROVE  /\ FormattersLog(o, merged)[name].clear \cap CoveredNames(o) = {}
         /\ name \in CoveredNames(o) => FormattersLog(o, merged)[name] = Plain("[REDACTED]")
<1> DEFINE record == RedactRecord(o, merged)
           named  == WithEventName(o, record)
<1>1. RecordNames(o) = CoveredNames(o)
  BY DEF RecordNames
<1>2. ASSUME NEW x \in DOMAIN record
      PROVE  /\ record[x].clear \cap CoveredNames(o) = {}
             /\ x \in CoveredNames(o) => record[x] = Plain("[REDACTED]")
  <2>1. CASE GivenUp(o, merged)
    BY <1>2, <2>1, RedactKeeps DEF FailureMark, Plain
  <2>2. CASE ~ GivenUp(o, merged)
    <3>1. record[x] = IF WalksRecord(o) THEN RedactField(o, x, merged[x]) ELSE merged[x]
      BY <1>2, <2>2, RedactKeeps
    <3>2. CASE WalksRecord(o)
      BY <1>1, <3>1, <3>2 DEF RedactField, Plain
    <3>3. CASE ~ WalksRecord(o)
      BY <1>1, <3>3 DEF WalksRecord
    <3> QED
      BY <3>2, <3>3
  <2> QED
    BY <2>1, <2>2
<1> HIDE DEF record
<1>3. CoveredNames(o) \cap HookFields = {}
  BY DEF HookFields
<1>4. ASSUME NEW x \in DOMAIN named
      PROVE  /\ named[x].clear \cap CoveredNames(o) = {}
             /\ x \in CoveredNames(o) => named[x] = Plain("[REDACTED]")
  <2>1. CASE x \in DOMAIN record
    BY <1>2, <1>3, <2>1, EventNameKeeps DEF Plain
  <2>2. CASE x \notin DOMAIN record
    BY <1>3, <1>4, <2>2, EventNameKeeps DEF Plain
  <2> QED
    BY <2>1, <2>2
<1> HIDE DEF named
<1>5. FormattersLog(o, merged) = WithSemconvException(o, named)
  BY DEF FormattersLog, named, record
<1>6. /\ name \notin HookFields => WithSemconvException(o, named)[name] = named[name]
      /\ \/ WithSemconvException(o, named)[name] = Plain("attribute")
         \/ name \in DOMAIN named /\ WithSemconvException(o, named)[name] = named[name]
      /\ name \in DOMAIN named \cup HookFields
  BY <1>5, ExceptionKeeps
<1> QED
  BY <1>3, <1>4, <1>5, <1>6 DEF Plain

\* The options have settled before the first call.
LEMMA SettledBeforeUse ==
  ASSUME Inv, "pino" \in built
  PROVE  Settled
BY DepsOf DEF Inv, BuiltInv, Settled

LEMMA LoggerAfterPino ==
  ASSUME Inv, NEW logger \in Loggers, Held(logger)
  PROVE  "pino" \in built
BY DepsOf DEF Inv, BuiltInv, Held, Loggers

\* While there is a line, the options are the ones it was written with.
LEMMA OptionsOfLine ==
  ASSUME Inv, TraceInv, [Next]_vars, line.outcome = "written"
  PROVE  options' = options
<1>1. ~ Register /\ ~ BuildOptions
  BY DepsOf DEF Inv, BuiltInv, TraceInv, Register, BuildOptions, Ready
<1> QED
  BY <1>1, OptionsStay

LEMMA SecretsStep ==
  ASSUME Inv, TraceInv, SecretsStayCovered, [Next]_vars
  PROVE  SecretsStayCovered'
<1>1. CASE line' = line
  BY <1>1, OptionsOfLine DEF SecretsStayCovered, NamesToCover
<1>2. ASSUME NEW logger \in Loggers, NEW call \in Usage[setup.usage].calls,
             NEW ambient \in Usage[setup.usage].ambients, Log(logger, call, ambient)
      PROVE  SecretsStayCovered'
  <2> DEFINE record == RecordOf(logger, call, ambient)
             fields == Fields(options, record, BindingOf(logger))
  <2>1. options' = options
    BY <1>2 DEF Log
  <2>2. ModuleTypeOK /\ SettledInv /\ "pino" \in built
    BY <1>2, LoggerAfterPino DEF Inv, Log
  <2>3. line'.outcome = "written" => line'.fields = fields
    BY <1>2, LogLine
  <2>4. \A name \in DOMAIN record :
          options.redactStrategy = "names" =>
            /\ record[name].clear \cap CoveredNames(options) = {}
            /\ name \in CoveredNames(options) => record[name] = Plain("[REDACTED]")
    BY <2>2, CoveredAre, RecordIsCovered DEF RecordOf
  <2> HIDE DEF record
  <2>5. ASSUME NEW name \in DOMAIN fields
        PROVE  \/ name = "err" /\ fields[name] = ErrSerializer(options, record[name])
               \/ name # "err" /\ name \in DOMAIN record /\ fields[name] = record[name]
               \/ name = "context" /\ fields[name] = BindingOf(logger)
    BY <2>5 DEF Fields, Serialized, AssignIfDefined, Over, Field, Empty
  <2>6. BindingOf(logger).clear = {}
    BY DEF BindingOf, Undefined, Plain
  <2> HIDE DEF fields
  <2>7. ASSUME NEW name \in DOMAIN fields
        PROVE  /\ name = "err" \/ options.redactStrategy = "names" =>
                    fields[name].clear \cap CoveredNames(options) = {}
               /\ options.redactStrategy = "names" /\ name \in CoveredNames(options) =>
                    fields[name] = Plain("[REDACTED]")
    BY <2>2, <2>4, <2>5, <2>6, <2>7, SerializedIsCovered, CoveredAre
  <2>8. /\ CoveredNames(options) = NamesToCover(options)
        /\ NamesToCover(options)' = NamesToCover(options)
    BY <2>1, <2>2, CoveredAre DEF NamesToCover
  <2> QED
    BY <2>1, <2>3, <2>7, <2>8 DEF SecretsStayCovered
<1> QED
  BY <1>1, <1>2, LineStays

\* No covered name reaches a line in clear, for every record, error, strategy and ambient
\* context (buildRedactor, errSerializer).
THEOREM SecretsAreCovered == Spec => []SecretsStayCovered
<1>1. Init => TraceInv /\ SecretsStayCovered
  BY DEF Init, NoLine, TraceInv, SecretsStayCovered
<1>2. Inv /\ (TraceInv /\ SecretsStayCovered) /\ [Next]_vars => (TraceInv /\ SecretsStayCovered)'
  BY TraceStep, SecretsStep
<1> QED
  BY <1>1, <1>2, InvHolds, PTL DEF Spec

-----------------------------------------------------------------------------
(* Who a structured line is attributed to.                                  *)

\* A text that is none of the covered fields comes through the hooks as it is, unless the
\* record is given up.
LEMMA TextSurvives ==
  ASSUME NEW o, NEW merged, NEW name \in OWNED_PAYLOAD_KEYS,
         RecordNames(o) \subseteq {"password", "user", "ssn"}, ~ GivenUp(o, merged),
         name \in DOMAIN merged => IsText(merged[name])
  PROVE  /\ name \in DOMAIN FormattersLog(o, merged) <=> name \in DOMAIN merged
         /\ ValueOf(FormattersLog(o, merged), name) = ValueOf(merged, name)
<1> DEFINE record == RedactRecord(o, merged)
           named  == WithEventName(o, record)
<1>1. name \notin HookFields /\ name # "err" /\ name \notin RecordNames(o)
  BY DEF OWNED_PAYLOAD_KEYS, HookFields
<1>2. DOMAIN record = DOMAIN merged
  BY RedactKeeps
<1>3. ASSUME name \in DOMAIN merged
      PROVE  record[name] = merged[name]
  <2>1. /\ merged[name] = [is |-> merged[name].is, clear |-> {}]
        /\ merged[name].is # "unreadable"
    BY <1>3 DEF IsText, IsString, IsErrorLike, ErrorInstances, Plain
  <2>2. OwnFields(o, merged[name]) = {}
    <3>1. merged[name].clear = {}
      BY <2>1
    <3> QED
      BY <3>1 DEF OwnFields
  <2>3. RedactField(o, name, merged[name]) = [is |-> merged[name].is, clear |-> {}]
    BY <1>1, <2>1, <2>2 DEF RedactField
  <2> QED
    BY <1>3, <2>1, <2>3, RedactKeeps
<1> HIDE DEF record
<1>4. /\ name \in DOMAIN named <=> name \in DOMAIN record
      /\ name \in DOMAIN record => named[name] = record[name]
  BY <1>1, EventNameKeeps
<1> HIDE DEF named
<1>5. /\ name \in DOMAIN WithSemconvException(o, named) <=> name \in DOMAIN named
      /\ name \in DOMAIN named => WithSemconvException(o, named)[name] = named[name]
  BY <1>1, ExceptionKeeps
<1>6. FormattersLog(o, merged) = WithSemconvException(o, named)
  BY DEF FormattersLog, named, record
<1> QED
  BY <1>2, <1>3, <1>4, <1>5, <1>6 DEF ValueOf

\* A record that is given up names nobody, and says so.
LEMMA GivenUpIsAnonymous ==
  ASSUME NEW o, NEW merged, GivenUp(o, merged)
  PROVE  /\ OWNED_PAYLOAD_KEYS \cap DOMAIN FormattersLog(o, merged) = {}
         /\ "_redactionFailed" \in DOMAIN FormattersLog(o, merged)
<1> DEFINE record == RedactRecord(o, merged)
           named  == WithEventName(o, record)
<1>1. DOMAIN record = {"_redactionFailed", "_logKey"}
  BY RedactKeeps DEF FailureMark
<1> HIDE DEF record
<1>2. /\ OWNED_PAYLOAD_KEYS \cap DOMAIN named = {}
      /\ "_redactionFailed" \in DOMAIN named
  BY <1>1, EventNameKeeps DEF OWNED_PAYLOAD_KEYS, HookFields
<1> HIDE DEF named
<1>3. /\ OWNED_PAYLOAD_KEYS \cap DOMAIN WithSemconvException(o, named) = {}
      /\ "_redactionFailed" \in DOMAIN WithSemconvException(o, named)
  BY <1>2, ExceptionKeeps DEF OWNED_PAYLOAD_KEYS, HookFields
<1> QED
  BY <1>3 DEF FormattersLog, named, record

\* What a structured call and its ambient context say of an owned field.
LEMMA MergedIs ==
  ASSUME NEW call, call.method \in {"info", "errorStructured"}, NEW label, NEW ambient, NEW api,
         TextIfAny(call.userId), TextIfAny(label),
         \A name \in {"userId", "context"} :
           name \in DOMAIN ambient.store => IsText(ambient.store[name])
  PROVE  LET merged == MixinMergeStrategy(call, Payload(call, label),
                                          Mixin(ambient.store, api, ambient.span))
         IN  /\ "logKey" \in DOMAIN merged /\ merged["logKey"] = Plain("KEY")
             /\ ValueOf(merged, "userId") = FirstOf(call.userId, ValueOf(ambient.store, "userId"))
             /\ ValueOf(merged, "context") = FirstOf(label, ValueOf(ambient.store, "context"))
             /\ \A name \in OWNED_PAYLOAD_KEYS : name \in DOMAIN merged => IsText(merged[name])
<1> DEFINE payload == Payload(call, label)
           mixin   == Mixin(ambient.store, api, ambient.span)
           merged  == MixinMergeStrategy(call, payload, mixin)
<1>1. merged = Over(mixin, payload)
  BY DEF MixinMergeStrategy
<1>2. /\ "logKey" \in DOMAIN payload /\ payload["logKey"] = Plain("KEY")
      /\ ValueOf(payload, "userId") = call.userId
      /\ ValueOf(payload, "context") = label
  BY StructuredPayload
<1>3. \A name \in {"userId", "context"} :
        /\ name \in DOMAIN mixin <=> name \in DOMAIN ambient.store
        /\ name \in DOMAIN mixin => mixin[name] = ambient.store[name]
  BY StampIs DEF Mixin, Over
<1>4. \A name \in {"userId", "context"} : name \in DOMAIN payload => payload[name] # Undefined
  <2>1. CASE call.method = "info"
    BY <2>1, OwnedKeysAreGone
    DEF Payload, EmitStructured, AssignIfDefined, Over, Field, OWNED_PAYLOAD_KEYS
  <2>2. CASE call.method = "errorStructured"
    BY <2>2, OwnedKeysAreGone
    DEF Payload, ErrorStructured, AssignIfDefined, Over, Field, OWNED_PAYLOAD_KEYS
  <2> QED
    BY <2>1, <2>2
<1>5. IsText(Plain("KEY"))
  BY DEF IsText, IsString, IsErrorLike, ErrorInstances, Plain
<1> HIDE DEF payload, mixin
<1>6. "logKey" \in DOMAIN merged /\ merged["logKey"] = Plain("KEY")
  BY <1>1, <1>2 DEF Over
<1>7. ValueOf(merged, "userId") = FirstOf(call.userId, ValueOf(ambient.store, "userId"))
  BY <1>1, <1>2, <1>3, <1>4 DEF Over, ValueOf, FirstOf
<1>8. ValueOf(merged, "context") = FirstOf(label, ValueOf(ambient.store, "context"))
  BY <1>1, <1>2, <1>3, <1>4 DEF Over, ValueOf, FirstOf
<1>9. ASSUME NEW name \in {"userId", "context"}, name \in DOMAIN merged
      PROVE  IsText(merged[name])
  <2>1. CASE name \in DOMAIN payload
    BY <1>1, <1>2, <1>4, <1>9, <2>1 DEF Over, ValueOf, TextIfAny
  <2>2. CASE name \notin DOMAIN payload
    BY <1>1, <1>3, <1>9, <2>2 DEF Over
  <2> QED
    BY <2>1, <2>2
<1> HIDE DEF merged
<1>10. \A name \in OWNED_PAYLOAD_KEYS : name \in DOMAIN merged => IsText(merged[name])
  BY <1>5, <1>6, <1>9 DEF OWNED_PAYLOAD_KEYS
<1> QED
  BY <1>6, <1>7, <1>8, <1>10 DEF merged, payload, mixin

\* The owned fields of a line, from the ones of its record.
LEMMA OwnedFieldsOfLine ==
  ASSUME NEW o, NEW record, NEW binding
  PROVE  LET fields == Fields(o, record, binding)
         IN  /\ "logKey" \in DOMAIN fields <=> "logKey" \in DOMAIN record
             /\ "logKey" \in DOMAIN record => fields["logKey"] = record["logKey"]
             /\ "_redactionFailed" \in DOMAIN record => "_redactionFailed" \in DOMAIN fields
             /\ ValueOf(fields, "userId") = ValueOf(record, "userId")
             /\ ValueOf(fields, "context") =
                  IF "context" \in DOMAIN record THEN record["context"] ELSE binding
BY DEF Fields, Serialized, AssignIfDefined, Over, Field, Empty, ValueOf

LEMMA AttributionStep ==
  ASSUME Inv, AttributionIsNotForged, [Next]_vars
  PROVE  AttributionIsNotForged'
<1>1. CASE line' = line
  BY <1>1 DEF AttributionIsNotForged, BindingOf
<1>2. ASSUME NEW logger \in Loggers, NEW call \in Usage[setup.usage].calls,
             NEW ambient \in Usage[setup.usage].ambients, Log(logger, call, ambient)
      PROVE  AttributionIsNotForged'
  <2> DEFINE store   == ambient.store
             label   == labels[logger]
             binding == BindingOf(logger)
             merged  == MixinMergeStrategy(call, Payload(call, label),
                                           Mixin(store, traceApi.api, ambient.span))
             record  == RecordOf(logger, call, ambient)
             fields  == Fields(options, record, binding)
             given   == "logKey" \in DOMAIN fields
  <2> SUFFICES ASSUME call.method \in {"info", "errorStructured"}
               PROVE  /\ given \/ "_redactionFailed" \in DOMAIN fields
                      /\ given => fields["logKey"] = Plain("KEY")
                      /\ ValueOf(fields, "userId") =
                           IF given THEN FirstOf(call.userId, ValueOf(store, "userId"))
                                    ELSE Undefined
                      /\ ValueOf(fields, "context") =
                           IF given THEN FirstOf(label, FirstOf(ValueOf(store, "context"), binding))
                                    ELSE binding
    BY <1>2, LogLine DEF AttributionIsNotForged
  <2>1. ModuleTypeOK /\ SettledInv /\ "pino" \in built
    BY <1>2, LoggerAfterPino DEF Inv, Log
  <2>2. setup.usage \in DOMAIN Usage
    BY <2>1, SetupsAssumption DEF ModuleTypeOK
  <2>3. /\ TextIfAny(call.userId)
        /\ \A name \in {"userId", "context"} : name \in DOMAIN store => IsText(store[name])
    BY <2>2, UsageAssumption
  <2>4. TextIfAny(label)
    BY <2>1, UsageAssumption DEF ModuleTypeOK, Labels, TextIfAny
  <2>5. /\ "logKey" \in DOMAIN merged /\ merged["logKey"] = Plain("KEY")
        /\ ValueOf(merged, "userId") = FirstOf(call.userId, ValueOf(store, "userId"))
        /\ ValueOf(merged, "context") = FirstOf(label, ValueOf(store, "context"))
        /\ \A name \in OWNED_PAYLOAD_KEYS : name \in DOMAIN merged => IsText(merged[name])
    BY <2>3, <2>4, MergedIs
  <2>6. RecordNames(options) \subseteq {"password", "user", "ssn"}
    BY <2>1, CoveredAre
  <2>7. record = FormattersLog(options, merged)
    BY DEF RecordOf
  <2> HIDE DEF merged, record, label, store, binding
  <2>8. CASE GivenUp(options, merged)
    <3>1. /\ "logKey" \notin DOMAIN record /\ "userId" \notin DOMAIN record
          /\ "context" \notin DOMAIN record
          /\ "_redactionFailed" \in DOMAIN record
      BY <2>7, <2>8, GivenUpIsAnonymous DEF OWNED_PAYLOAD_KEYS
    <3> QED
      BY <3>1, OwnedFieldsOfLine DEF ValueOf
  <2>9. CASE ~ GivenUp(options, merged)
    <3>1. \A name \in OWNED_PAYLOAD_KEYS :
            /\ name \in DOMAIN record <=> name \in DOMAIN merged
            /\ ValueOf(record, name) = ValueOf(merged, name)
      BY <2>5, <2>6, <2>7, <2>9, TextSurvives
    <3>2. "logKey" \in DOMAIN record /\ record["logKey"] = Plain("KEY")
      BY <2>5, <3>1 DEF OWNED_PAYLOAD_KEYS, ValueOf
    <3>3. ValueOf(record, "userId") = FirstOf(call.userId, ValueOf(store, "userId"))
      BY <2>5, <3>1 DEF OWNED_PAYLOAD_KEYS
    <3>4. (IF "context" \in DOMAIN record THEN record["context"] ELSE binding)
            = FirstOf(label, FirstOf(ValueOf(store, "context"), binding))
      <4>1. ValueOf(record, "context") = FirstOf(label, ValueOf(store, "context"))
        BY <2>5, <3>1 DEF OWNED_PAYLOAD_KEYS
      <4>2. "context" \in DOMAIN record => record["context"] # Undefined
        <5>1. "context" \in DOMAIN merged => IsText(merged["context"])
          BY <2>5 DEF OWNED_PAYLOAD_KEYS
        <5>2. "context" \in DOMAIN record => record["context"] = merged["context"]
          BY <3>1 DEF OWNED_PAYLOAD_KEYS, ValueOf
        <5>3. ~ IsText(Undefined)
          BY DEF IsText, IsString, Undefined, Plain
        <5> QED
          BY <3>1, <5>1, <5>2, <5>3 DEF OWNED_PAYLOAD_KEYS
      <4> QED
        BY <4>1, <4>2 DEF ValueOf, FirstOf
    <3> QED
      BY <3>2, <3>3, <3>4, OwnedFieldsOfLine
  <2> QED
    BY <2>8, <2>9
<1> QED
  BY <1>1, <1>2, LineStays

\* A structured line is attributed to its caller, whatever the metadata holds and whether it
\* can be read, for every label, store and set of options (withoutOwnedKeys).
THEOREM AttributionCannotBeForged == Spec => []AttributionIsNotForged
<1>1. Init => AttributionIsNotForged
  BY DEF Init, NoLine, AttributionIsNotForged
<1>2. Inv /\ AttributionIsNotForged /\ [Next]_vars => AttributionIsNotForged'
  BY AttributionStep
<1> QED
  BY <1>1, <1>2, InvHolds, PTL DEF Spec

-----------------------------------------------------------------------------
(* What becomes of an error.                                                *)

LEMMA LeastIndex ==
  ASSUME NEW T, T \subseteq Nat, T # {}
  PROVE  \E i \in T : \A j \in T : i <= j
<1>1. PICK i \in T : \A j \in T : ~ (<<j, i>> \in OpToRel(<, Nat))
  BY NatLessThanWellFounded, WFMin
<1>2. ASSUME NEW j \in T
      PROVE  i <= j
  <2>1. ~ (j < i)
    BY <1>1 DEF OpToRel
  <2> QED
    BY <2>1
<1> QED
  BY <1>2

\* The first error among the arguments is an error.
LEMMA FoundIsError ==
  ASSUME NEW tail, DOMAIN tail \subseteq Nat, \E i \in DOMAIN tail : IsErrorLike(tail[i])
  PROVE  IsErrorLike(FindErrorParam(tail))
<1> DEFINE errors == {i \in DOMAIN tail : IsErrorLike(tail[i])}
           first  == CHOOSE i \in errors : \A j \in errors : i <= j
<1>1. errors # {} /\ errors \subseteq Nat
  OBVIOUS
<1>2. \E i \in errors : \A j \in errors : i <= j
  BY <1>1, LeastIndex
<1>3. first \in errors
  BY <1>2
<1>4. FindErrorParam(tail) = tail[first]
  BY <1>1 DEF FindErrorParam
<1> QED
  BY <1>3, <1>4

LEMMA PayloadHasCause ==
  ASSUME NEW call, NEW label, {"method", "message", "metadata"} \subseteq DOMAIN call,
         DOMAIN call.tail \subseteq Nat, HasCause(call)
  PROVE  "err" \in DOMAIN Payload(call, label) /\ IsErrorLike(Payload(call, label)["err"])
<1>0. ~ IsErrorLike(Undefined)
  BY DEF IsErrorLike, ErrorInstances, Undefined, Plain
<1>1. ASSUME NEW error, NEW given, given.message = error, IsErrorLike(error)
      PROVE  /\ "err" \in DOMAIN ErrorStructured(given, label)
             /\ IsErrorLike(ErrorStructured(given, label)["err"])
  BY <1>1 DEF ErrorStructured, AssignIfDefined, Over, Field
<1>2. CASE call.method = "record"
  <2>1. Payload(call, label) =
          ErrorStructured([call EXCEPT !.message = ToLoggableError(@)], label)
    BY <1>2 DEF Payload
  <2>2. IsErrorLike(ToLoggableError(call.message))
    BY DEF ToLoggableError, IsErrorLike, Plain
  <2>3. [call EXCEPT !.message = ToLoggableError(@)].message = ToLoggableError(call.message)
    OBVIOUS
  <2> QED
    BY <1>1, <2>1, <2>2, <2>3
<1>3. CASE call.method = "errorStructured"
  BY <1>1, <1>3 DEF Payload, HasCause
<1>4. CASE call.method = "log"
  <2> DEFINE err == IF IsErrorLike(call.message) THEN call.message ELSE FindErrorParam(call.tail)
  <2>1. IsErrorLike(err)
    BY <1>4, FoundIsError DEF HasCause
  <2> HIDE DEF err
  <2>2. err # Undefined
    BY <1>0, <2>1
  <2>3. \A base, msg : /\ "err" \in DOMAIN Over(AssignIfDefined(base, "err", err), Field("msg", msg))
                       /\ Over(AssignIfDefined(base, "err", err), Field("msg", msg))["err"] = err
    BY <2>2 DEF AssignIfDefined, Over, Field
  <2>4. Payload(call, label) = EmitNestStyle(call, label)
    BY <1>4 DEF Payload
  <2> QED
    BY <2>1, <2>3, <2>4 DEF EmitNestStyle, err
<1>5. CASE call.method = "error"
  <2>1. Payload(call, label) = NestError(call, label)
    BY <1>5 DEF Payload
  <2>2. CASE IsErrorLike(call.message)
    BY <2>1, <2>2 DEF NestError, AssignIfDefined, Over, Field
  <2>3. CASE ~ IsErrorLike(call.message)
    <3>1. IsErrorLike(FindErrorParam(call.tail))
      BY <1>5, <2>3, FoundIsError DEF HasCause
    <3>2. FindErrorParam(call.tail) # Undefined
      BY <1>0, <3>1
    <3>3. \A base, msg, err : err # Undefined =>
            /\ "err" \in DOMAIN Over(AssignIfDefined(base, "err", err), Field("msg", msg))
            /\ Over(AssignIfDefined(base, "err", err), Field("msg", msg))["err"] = err
      BY DEF AssignIfDefined, Over, Field
    <3> QED
      BY <2>1, <2>3, <3>1, <3>2, <3>3 DEF NestError
  <2> QED
    BY <2>2, <2>3
<1> QED
  BY <1>2, <1>3, <1>4, <1>5 DEF HasCause

\* An error in a record leaves the hooks as itself, as its attributes or as a failure mark.
LEMMA CauseSurvives ==
  ASSUME NEW o, NEW merged, "err" \in DOMAIN merged, IsErrorLike(merged["err"]),
         RecordNames(o) \subseteq {"password", "user", "ssn"}
  PROVE  {"err", "exception.type", "_redactionFailed"} \cap DOMAIN FormattersLog(o, merged) # {}
<1> DEFINE record == RedactRecord(o, merged)
           named  == WithEventName(o, record)
<1>0. FormattersLog(o, merged) = WithSemconvException(o, named)
  BY DEF FormattersLog
<1>1. CASE GivenUp(o, merged)
  BY <1>1, GivenUpIsAnonymous
<1>2. CASE ~ GivenUp(o, merged)
  <2>1. "err" \in DOMAIN record
    BY <1>2, RedactKeeps
  <2>2. Offers(record["err"], "exception.type")
    <3>1. record["err"] = IF WalksRecord(o) THEN RedactField(o, "err", merged["err"])
                                            ELSE merged["err"]
      BY <1>2, RedactKeeps
    <3> QED
      BY <3>1 DEF RedactField, Offers, IsErrorLike
  <2> HIDE DEF record
  <2>3. "err" \in DOMAIN named /\ named["err"] = record["err"]
    BY <2>1, EventNameKeeps DEF HookFields
  <2> HIDE DEF named
  <2>4. "err" \in DOMAIN WithSemconvException(o, named)
          \/ "exception.type" \in DOMAIN WithSemconvException(o, named)
    <3>1. CASE o.errorFormat = "pino"
      BY <2>3, <3>1 DEF WithSemconvException
    <3>2. CASE o.errorFormat # "pino"
      <4> DEFINE resisting == { i \in DOMAIN ExceptionAttributes :
                                  Resists(o, named, ExceptionAttributes[i]) }
                 written   == { i \in DOMAIN ExceptionAttributes :
                                  /\ Offers(named["err"], ExceptionAttributes[i])
                                  /\ \A j \in resisting : i < j }
                 names     == {ExceptionAttributes[i] : i \in written}
                 widened   == Over(named, [name \in names |-> Plain("attribute")])
      <4>1. WithSemconvException(o, named) =
              IF o.errorFormat = "semconv" /\ resisting = {}
                THEN [name \in DOMAIN widened \ {"err"} |-> widened[name]] ELSE widened
        BY <2>3, <3>2, Zenon DEF WithSemconvException
      <4>2. DOMAIN widened = DOMAIN named \cup names
        BY DEF Over
      <4>3. resisting = {} => "exception.type" \in names
        <5>1. 1 \in DOMAIN ExceptionAttributes /\ ExceptionAttributes[1] = "exception.type"
          BY AttributesAre
        <5> QED
          BY <2>2, <2>3, <5>1
      <4> HIDE DEF widened, names, resisting
      <4> QED
        BY <2>3, <4>1, <4>2, <4>3
    <3> QED
      BY <3>1, <3>2
  <2> QED
    BY <1>0, <2>4 DEF named, record
<1> QED
  BY <1>1, <1>2

\* What was written to a stream stays written.
Touched == streams["stderr"].last # "nothing"

LEMMA WriteTouches ==
  ASSUME streams \in [Streams -> StreamType], NEW names, WriteTo(names)
  PROVE  Touched \/ "stderr" \in names => Touched'
<1>1. PICK breaking : streams' =
        [ s \in Streams |->
            IF s \in names THEN WriteSafely(streams[s], s \in breaking) ELSE streams[s] ]
  BY DEF WriteTo
<1>2. streams["stderr"] \in StreamType /\ "stderr" \in Streams
  BY DEF Streams
<1>3. \A breaks : WriteSafely(streams["stderr"], breaks).last = "written"
  BY <1>2 DEF WriteSafely, EnsureGuarded, StreamType
<1> QED
  BY <1>1, <1>2, <1>3 DEF Touched

LEMMA TouchedStays ==
  ASSUME Inv, Touched, [Next]_vars
  PROVE  Touched'
<1>0. streams \in [Streams -> StreamType]
  BY DEF Inv, ModuleTypeOK, StreamType
<1>1. CASE streams' = streams
  BY <1>1 DEF Touched
<1>2. ASSUME NEW names, WriteTo(names) PROVE Touched'
  BY <1>0, <1>2, WriteTouches
<1>3. ASSUME NEW c \in Contexts, Declare(c) \/ BuildContextLogger(c) PROVE Touched'
  BY <1>1, <1>3 DEF Declare, BuildContextLogger
<1>4. CASE Register \/ BuildOptions \/ ResolveUnknownContext \/ ModuleInit
  BY <1>1, <1>4 DEF Register, BuildOptions, ResolveUnknownContext, ModuleInit
<1>5. CASE BuildPino
  BY <1>2, <1>5 DEF BuildPino
<1>6. ASSUME NEW p \in Providers, BuildOther(p) PROVE Touched'
  BY <1>1, <1>6 DEF BuildOther
<1>7. ASSUME NEW d \in Sinks \cup {Stdout}, MarkDestination(d) PROVE Touched'
  BY <1>1, <1>7 DEF MarkDestination
<1>8. CASE AnnounceBootstrap
  BY <1>2, <1>8 DEF AnnounceBootstrap
<1>9. ASSUME NEW logger \in Loggers, NEW label, SetContext(logger, label) PROVE Touched'
  BY <1>1, <1>9 DEF SetContext
<1>10. ASSUME NEW logger, NEW call, NEW ambient, Log(logger, call, ambient) PROVE Touched'
  BY <1>2, <1>10 DEF Log
<1>11. ASSUME NEW s \in Streams, RemoveListeners(s) \/ ForeignWrite(s) \/ ErrorEvent(s)
       PROVE  Touched'
  <2>1. CASE RemoveListeners(s)
    <3>1. streams'["stderr"].last \in {streams["stderr"].last, "removed"}
      BY <1>0, <2>1 DEF RemoveListeners, Streams, StreamType
    <3> QED
      BY <3>1 DEF Touched
  <2>2. CASE ForeignWrite(s) \/ ErrorEvent(s)
    <3>1. streams'["stderr"].last = streams["stderr"].last
      BY <1>0, <2>2 DEF ForeignWrite, ErrorEvent, Streams, StreamType
    <3> QED
      BY <3>1 DEF Touched
  <2> QED
    BY <1>11, <2>1, <2>2
<1>12. CASE UNCHANGED vars
  BY <1>1, <1>12 DEF vars
<1> QED
  BY <1>3, <1>4, <1>5, <1>6, <1>7, <1>8, <1>9, <1>10, <1>11, <1>12 DEF Next, StartUp

LEMMA CauseStep ==
  ASSUME Inv, NoCauseIsLost, [Next]_vars
  PROVE  NoCauseIsLost'
<1>1. CASE line' = line
  BY <1>1, TouchedStays DEF NoCauseIsLost, HasCause, Touched
<1>2. ASSUME NEW logger \in Loggers, NEW call \in Usage[setup.usage].calls,
             NEW ambient \in Usage[setup.usage].ambients, Log(logger, call, ambient)
      PROVE  NoCauseIsLost'
  <2> DEFINE payload == Payload(call, labels[logger])
             merged  == MixinMergeStrategy(call, payload,
                          Mixin(ambient.store, traceApi.api, ambient.span))
             record  == RecordOf(logger, call, ambient)
             fields  == Fields(options, record, BindingOf(logger))
  <2>1. /\ line'.call = call
        /\ line'.outcome = "written" => line'.fields = fields
    BY <1>2, LogLine
  <2>2. ModuleTypeOK /\ SettledInv /\ "pino" \in built
    BY <1>2, LoggerAfterPino DEF Inv, Log
  <2>3. setup.usage \in DOMAIN Usage
    BY <2>2, SetupsAssumption DEF ModuleTypeOK
  <2>4. ASSUME HasCause(call)
        PROVE  {"err", "exception.type", "_redactionFailed"} \cap DOMAIN fields # {}
    <3>1. /\ {"method", "message", "metadata"} \subseteq DOMAIN call
          /\ DOMAIN call.tail \subseteq Nat
      BY <2>3, UsageAssumption
    <3>2. "err" \in DOMAIN payload /\ IsErrorLike(payload["err"])
      BY <2>4, <3>1, PayloadHasCause
    <3>3. merged = Over(Mixin(ambient.store, traceApi.api, ambient.span), payload)
      BY <2>4 DEF MixinMergeStrategy, HasCause
    <3> HIDE DEF payload
    <3>4. "err" \in DOMAIN merged /\ IsErrorLike(merged["err"])
      BY <3>2, <3>3 DEF Over
    <3>5. record = FormattersLog(options, merged)
      BY DEF RecordOf, payload
    <3> HIDE DEF merged, record
    <3>6. RecordNames(options) \subseteq {"password", "user", "ssn"}
      BY <2>2, CoveredAre
    <3>7. {"err", "exception.type", "_redactionFailed"} \cap DOMAIN record # {}
      BY <3>4, <3>5, <3>6, CauseSurvives
    <3>8. DOMAIN record \subseteq DOMAIN fields
      BY DEF Fields, Serialized, Over
    <3> QED
      BY <3>7, <3>8
  <2>5. ASSUME line'.outcome \in {"stopped", "brokenOff"}, call.method = "record"
        PROVE  line'.reported /\ Touched'
    <3>1. line'.reported
      BY <1>2, <2>5 DEF Log
    <3>2. \E names : "stderr" \in names /\ WriteTo(names)
      <4>1. WriteTo(StdoutIf(line'.outcome = "written")
                      \cup StderrIf(line'.reported \/ warnings' # warnings))
        BY <1>2 DEF Log
      <4>2. "stderr" \in StderrIf(line'.reported \/ warnings' # warnings)
        BY <3>1 DEF StderrIf
      <4> QED
        BY <4>1, <4>2
    <3>3. streams \in [Streams -> StreamType]
      BY <2>2 DEF ModuleTypeOK, StreamType
    <3> QED
      BY <3>1, <3>2, <3>3, WriteTouches
  <2> HIDE DEF fields
  <2> QED
    BY <2>1, <2>4, <2>5 DEF NoCauseIsLost, Touched
<1> QED
  BY <1>1, <1>2, LineStays

\* An error given to a logger is in the line, as itself or as its attributes, unless the line
\* says that its record was given up; a report the sink could not log is on stderr. For every
\* tail of arguments, record and set of options (findErrorParam, PinoUnexpectedErrorSink).
THEOREM CausesAreKept == Spec => []NoCauseIsLost
<1>1. Init => NoCauseIsLost
  BY DEF Init, NoLine, NoCauseIsLost
<1>2. Inv /\ NoCauseIsLost /\ [Next]_vars => NoCauseIsLost'
  BY CauseStep
<1> QED
  BY <1>1, <1>2, InvHolds, PTL DEF Spec
==============================================================================
