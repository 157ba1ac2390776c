---------------------------- MODULE ModuleOptions ----------------------------
(***************************************************************************)
(* The module's options, from what the application passes to what the      *)
(* runtime reads: validateOptions (config/validate-options.ts),            *)
(* applyDefaults (config/default-options.ts), the names that redaction     *)
(* covers (pino-factory.ts) and the level a destination is given           *)
(* (utils/report-destination-failure.util.ts).                             *)
(*                                                                         *)
(* A value is named by what validation and the runtime tell apart: absent, *)
(* one of the values an option accepts, or anything else.  Two of the      *)
(* options are groups of members, and "undefinedSwitch",                   *)
(* "undefinedCapture" and "undefinedPaths" are groups with a member that   *)
(* is there and undefined: the first switch, shouldCaptureExceptions of a  *)
(* group whose switch is on, or excludePaths.                              *)
(***************************************************************************)
EXTENDS Naturals, Sequences

Absent == "absent"

LOG_LEVEL_PRIORITY == << "trace", "debug", "info", "warn", "error", "fatal" >>

LogLevels == { LOG_LEVEL_PRIORITY[i] : i \in DOMAIN LOG_LEVEL_PRIORITY }

Severity(level) == CHOOSE i \in DOMAIN LOG_LEVEL_PRIORITY : LOG_LEVEL_PRIORITY[i] = level

-----------------------------------------------------------------------------
(* Validation.  Every option but the service's identity may be absent.      *)

Optional(value, accepted) == value = Absent \/ value \in accepted

ValidateCore(given) ==
  /\ given.service = "named"
  /\ Optional(given.level, LogLevels)
  /\ Optional(given.maxEntrySizeBytes, {"positive"})

ValidateClosedSets(given) ==
  /\ Optional(given.redactStrategy, {"names", "paths"})
  /\ Optional(given.errorFormat, {"pino", "semconv", "both"})
  /\ Optional(given.eventNameField, {"event.name", "false"})

\* A hook has to be a function and a path a text; what they come to is not known here.
ValidateCustomization(given) ==
  /\ Optional(given.shouldDisableDefaultRedact, {"true", "false"})
  /\ Optional(given.timestamp, {"returns", "throws"})
  /\ Optional(given.redactPaths, {"user.ssn", "ssn[0]", "*", "malformed"})
  /\ Optional(given.serializers, {"return", "throw"})

ValidateErrorFields(given) == Optional(given.errorOwnFields, {"all", "safe"})

\* A member that throws when it is read is left to whoever uses it.
ValidateDestinations(given) == Optional(given.destinations, {"conforming", "unreadable"})

\* A member of a group is checked when it is defined.
ValidateHttp(given) ==
  Optional(given.http, {"disabled", "accessLog", "capturing",
                        "undefinedSwitch", "undefinedCapture", "undefinedPaths"})

ValidateOtel(given) == Optional(given.otel, {"injecting", "off", "undefinedSwitch"})

ValidateOptions(given) ==
  /\ ValidateCore(given)
  /\ ValidateClosedSets(given)
  /\ ValidateCustomization(given)
  /\ ValidateErrorFields(given)
  /\ ValidateDestinations(given)
  /\ ValidateHttp(given)
  /\ ValidateOtel(given)

-----------------------------------------------------------------------------
(* Defaults.                                                                *)

Defaults(production) ==
  [ level                      |-> IF production THEN "info" ELSE "debug",
    maxEntrySizeBytes          |-> "positive",
    redactStrategy             |-> "names",
    errorFormat                |-> "pino",
    eventNameField             |-> "event.name",
    shouldDisableDefaultRedact |-> "false",
    timestamp                  |-> "returns",
    redactPaths                |-> "none",
    serializers                |-> "none",
    errorOwnFields             |-> "all",
    destinations               |-> "none",
    http                       |-> "disabled",
    otel                       |-> "injecting" ]

\* A group's members are spread over their defaults: one that is there takes its default's
\* place even when it is undefined, and a switch that is undefined is off.
SpreadHttp(value) ==
  CASE value = "undefinedSwitch"  -> "disabled"
    [] value = "undefinedCapture" -> "accessLog"
    [] OTHER                      -> value

SpreadOtel(value) == IF value = "undefinedSwitch" THEN "off" ELSE value

\* The list of excluded paths is copied, whatever stands in its place.
DefaultsThrow(given) == given.http = "undefinedPaths"

ApplyDefaults(given, production) ==
  LET defaults == Defaults(production)
  IN  [ option \in DOMAIN given |->
          IF option \in DOMAIN defaults /\ given[option] = Absent THEN defaults[option]
          ELSE IF option = "http" THEN SpreadHttp(given[option])
          ELSE IF option = "otel" THEN SpreadOtel(given[option])
          ELSE given[option] ]

-----------------------------------------------------------------------------
(* The names that are covered.                                              *)

Segment(is, text) == [is |-> is, text |-> text]

Segments(path) ==
  CASE path = "user.ssn" -> << Segment("name", "user"), Segment("name", "ssn") >>
    [] path = "ssn[0]"   -> << Segment("name", "ssn"), Segment("index", "0") >>
    [] path = "*"        -> << Segment("wildcard", "*") >>
    [] path = "none"     -> << >>

\* Mutant: the last segment, whatever it is.
LeafNameOfLastSegment(path) ==
  IF path = "none" THEN {} ELSE { Segments(path)[Len(Segments(path))].text }

\* The last segment that names a field, if any.
LeafNameOf(path) ==
  LET names == { i \in DOMAIN Segments(path) : Segments(path)[i].is = "name" }
  IN  { Segments(path)[i].text : i \in { last \in names : \A j \in names : j <= last } }

\* REDACT_COMMON_FIELDS stands for itself by one of its names.
REDACT_COMMON_FIELDS == {"password"}

CoveredNames(o) ==
  (IF o.shouldDisableDefaultRedact = "true" THEN {} ELSE REDACT_COMMON_FIELDS)
    \cup LeafNameOf(o.redactPaths)

\* The caller's record: by name only under 'names'; 'paths' leaves it to fast-redact.
RecordNames(o) == IF o.redactStrategy = "names" THEN CoveredNames(o) ELSE {}

\* A redactor with no name to cover is the identity, unless 'safe' needs plain data.
WalksRecord(o) == RecordNames(o) # {} \/ o.errorOwnFields = "safe"

\* Mutant: one redactor for both, and so the strategy decides about serializer output.
WalksSerializedByStrategy(o) == WalksRecord(o)

WalksSerialized(o) == CoveredNames(o) # {} \/ o.errorOwnFields = "safe"

-----------------------------------------------------------------------------
(* Levels.  A destination's minLevel may be a getter: it answers anything,  *)
(* or throws, and may answer differently the next time.                     *)

Unread == "unread"

\* Mutant: what the getter returned is taken for a level.
ReadMinLevelTrusted(answer) == IF answer = "throws" THEN Absent ELSE answer

ReadMinLevel(answer) == IF answer \in LogLevels THEN answer ELSE Absent

\* Mutant: the getter is asked each time.
SafeMinLevelUncached(cached, answer) == ReadMinLevel(answer)

\* The first answer of each destination is kept.
SafeMinLevel(cached, answer) == IF cached = Unread THEN ReadMinLevel(answer) ELSE cached

StreamLevel(o, minLevel) == IF minLevel = Absent THEN o.level ELSE minLevel

\* Pino's own level comes before the stream's: the stricter of the two is what is received.
EffectiveLevelOf(o, minLevel) ==
  IF minLevel # Absent /\ Severity(minLevel) > Severity(o.level) THEN minLevel ELSE o.level
==============================================================================
