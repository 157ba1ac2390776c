------------------------------- MODULE LogEntry -------------------------------
(***************************************************************************)
(* One log call, from its arguments to the line: PinoLoggerService, the    *)
(* hooks of buildPinoInstance in the order Pino runs them, and the report  *)
(* of PinoUnexpectedErrorSink.                                             *)
(*                                                                         *)
(* An object is a function from field names to values.  A value is what it *)
(* is, and the names under which it holds secrets in clear.  A call has a  *)
(* method, a message (for the structured error methods: the error), a tail *)
(* of further arguments, a user and metadata, which is `readable` unless   *)
(* reading it throws.                                                      *)
(***************************************************************************)
EXTENDS ModuleOptions, TraceContext

Undefined == Plain("undefined")

\* Errors: ordinary, serialized to more than maxEntrySizeBytes, one whose `message`
\* accessor throws, and a plain object that has a name and a message.
ErrorInstances == {"error", "large", "unreadable"}

IsErrorLike(value) == value.is \in ErrorInstances \cup {"errorLike"}

\* "hostile" is an object that throws when it is walked.
IsString(value) == ~ IsErrorLike(value) /\ value.is \notin {"object", "hostile", "undefined"}

FailureMark(key) == [_redactionFailed |-> Plain("true"), _logKey |-> Plain(key)]

-----------------------------------------------------------------------------
(* PinoLoggerService: the payload of a call.                                *)

OWNED_PAYLOAD_KEYS == {"logKey", "userId", "context"}
PROTOTYPE_POLLUTING_KEYS == {"__proto__", "constructor", "prototype"}

\* Mutant: metadata is spread as it is.
WithOwnedKeys(metadata) ==
  IF metadata.readable THEN metadata.fields ELSE FailureMark("LOGGER_REDACTION_FAILED")

WithoutOwnedKeys(metadata) ==
  IF metadata.readable
    THEN LET owned == OWNED_PAYLOAD_KEYS \cup PROTOTYPE_POLLUTING_KEYS
         IN  [ field \in DOMAIN metadata.fields \ owned |-> metadata.fields[field] ]
    ELSE FailureMark("LOGGER_REDACTION_FAILED")

AssignIfDefined(payload, field, value) ==
  IF value = Undefined THEN payload ELSE Over(payload, Field(field, value))

\* Mutant: the error is looked for where NestJS puts the stack.
FindErrorAtStack(tail) == IF tail # << >> /\ IsErrorLike(tail[1]) THEN tail[1] ELSE Undefined

\* The first error among the arguments, wherever it is.
FindErrorParam(tail) ==
  LET errors == {i \in DOMAIN tail : IsErrorLike(tail[i])}
  IN  IF errors = {} THEN Undefined ELSE tail[CHOOSE i \in errors : \A j \in errors : i <= j]

\* The last argument if it is a string, else the instance's label.
ResolveContext(tail, label) ==
  IF tail # << >> /\ IsString(tail[Len(tail)]) THEN tail[Len(tail)] ELSE label

StringAt(tail, i, default) == IF i <= Len(tail) /\ IsString(tail[i]) THEN tail[i] ELSE default

SafeErrorMessage(error) ==
  Plain(IF error.is = "unreadable" THEN "Unreadable error message" ELSE "message")

SafeLogMessage(message) ==
  Plain(IF message.is = "hostile" THEN "Unreadable log message" ELSE "message")

EmitStructured(call, label) ==
  LET keyed == Over(WithoutOwnedKeys(call.metadata), Field("logKey", Plain("KEY")))
      named == AssignIfDefined(keyed, "userId", call.userId)
  IN  Over(AssignIfDefined(named, "context", label), Field("msg", Plain("message")))

ErrorStructured(call, label) ==
  LET keyed == Over(WithoutOwnedKeys(call.metadata),
                    [logKey |-> Plain("KEY"), err |-> call.message])
      named == AssignIfDefined(keyed, "userId", call.userId)
  IN  Over(AssignIfDefined(named, "context", label),
           Field("msg", SafeErrorMessage(call.message)))

\* log, warn, debug, verbose, fatal.
EmitNestStyle(call, label) ==
  LET leading == IsErrorLike(call.message)
      context == AssignIfDefined(Empty, "context", ResolveContext(call.tail, label))
      err     == IF leading THEN call.message ELSE FindErrorParam(call.tail)
  IN  Over(AssignIfDefined(context, "err", err),
           Field("msg", IF leading THEN SafeErrorMessage(call.message)
                                   ELSE SafeLogMessage(call.message)))

NestError(call, label) ==
  IF IsErrorLike(call.message)
    THEN Over(AssignIfDefined(Field("err", call.message),
                              "context", ResolveContext(call.tail, label)),
              Field("msg", SafeErrorMessage(call.message)))
    ELSE LET context == AssignIfDefined(Empty, "context", StringAt(call.tail, 2, label))
             stack   == AssignIfDefined(context, "stack", StringAt(call.tail, 1, Undefined))
         IN  Over(AssignIfDefined(stack, "err", FindErrorParam(call.tail)),
                  Field("msg", SafeLogMessage(call.message)))

\* PinoUnexpectedErrorSink.record: what is not an error is sanitized into one first.
ToLoggableError(value) == IF IsErrorLike(value) THEN value ELSE Plain("errorLike")

Payload(call, label) ==
  CASE call.method = "info"            -> EmitStructured(call, label)
    [] call.method = "errorStructured" -> ErrorStructured(call, label)
    [] call.method = "record"          ->
         ErrorStructured([call EXCEPT !.message = ToLoggableError(@)], label)
    [] call.method = "log"             -> EmitNestStyle(call, label)
    [] call.method = "error"           -> NestError(call, label)
    [] call.method = "raw"             -> call.metadata.fields

-----------------------------------------------------------------------------
(* The hooks: merge, formatters.log, serializers.                           *)

\* An object given to the raw Pino logger may throw when it is copied.
MixinMergeStrategy(call, payload, mixin) ==
  Over(mixin, IF call.method = "raw" /\ ~ call.metadata.readable
                THEN FailureMark("LOGGER_REDACTION_FAILED") ELSE payload)

\* The own fields an error is logged with.  'safe' knows none of the names used here.
OwnFields(o, value) ==
  IF o.errorOwnFields = "safe" /\ IsErrorLike(value) THEN {} ELSE value.clear

RedactField(o, name, value) ==
  IF name \in RecordNames(o) THEN Plain("[REDACTED]")
  ELSE [ is    |-> IF o.errorOwnFields = "safe" /\ value.is = "unreadable"
                     THEN "withoutMessage" ELSE value.is,
         clear |-> OwnFields(o, value) \ RecordNames(o) ]

\* A value that throws when it is walked, and is no error, costs the whole record.
RedactRecord(o, record) ==
  IF ~ WalksRecord(o) THEN record
  ELSE IF \E name \in DOMAIN record \ RecordNames(o) : record[name].is = "hostile"
    THEN FailureMark("LOGGER_REDACTION_FAILED")
    ELSE [name \in DOMAIN record |-> RedactField(o, name, record[name])]

\* The walk defines the fields of its copy as neither writable nor configurable.
Pinned(o, record, name) == WalksRecord(o) /\ name \in DOMAIN record

WithEventName(o, record) ==
  IF o.eventNameField = "false" \/ "logKey" \notin DOMAIN record
       \/ Pinned(o, record, "event.name")
    THEN record
    ELSE Over(record, Field("event.name", Plain("event")))

ExceptionAttributes ==
  << "exception.type", "error.type", "exception.message", "exception.stacktrace" >>

\* What the error offers for an attribute; reading the message of an unreadable one throws.
Offers(err, name) ==
  \/ err.is \in ErrorInstances
  \/ err.is = "errorLike" /\ name # "exception.stacktrace"
  \/ err.is = "withoutMessage" /\ name # "exception.message"

Resists(o, record, name) ==
  \/ record["err"].is = "hostile"
  \/ /\ Offers(record["err"], name)
     /\ \/ Pinned(o, record, name)
        \/ name = "exception.message" /\ record["err"].is = "unreadable"

\* One assignment after the other; the first that throws ends them.
WithSemconvException(o, record) ==
  IF o.errorFormat = "pino" \/ "err" \notin DOMAIN record THEN record
  ELSE LET resisting == {i \in DOMAIN ExceptionAttributes :
                           Resists(o, record, ExceptionAttributes[i])}
           written   == {i \in DOMAIN ExceptionAttributes :
                           /\ Offers(record["err"], ExceptionAttributes[i])
                           /\ \A j \in resisting : i < j}
           widened   == Over(record, [ name \in {ExceptionAttributes[i] : i \in written} |->
                                         Plain("attribute") ])
       IN  IF o.errorFormat = "semconv" /\ resisting = {}
             THEN [name \in DOMAIN widened \ {"err"} |-> widened[name]]
             ELSE widened

FormattersLog(o, record) == WithSemconvException(o, WithEventName(o, RedactRecord(o, record)))

\* A serializer of the application's may make up fields that were in no record.
SerializeErrorValue(o, value) ==
  IF o.serializers = "return" THEN [is |-> "object", clear |-> {"password"}]
  ELSE IF value.is \in {"error", "large", "errorLike"}
    THEN [ is    |-> IF value.is = "large" THEN "large" ELSE "error",
           clear |-> OwnFields(o, value) ]
    ELSE Plain(IF value.is = "unreadable" THEN "SanitizeFailed" ELSE "UnknownError")

\* A preview is one text: no name in it is seen.
RedactSerialized(o, value) ==
  IF ~ WalksSerialized(o) \/ value.is = "preview" THEN value
  ELSE [value EXCEPT !.clear = @ \ CoveredNames(o)]

SizeBounded(value) == [value EXCEPT !.is = IF @ = "large" THEN "preview" ELSE @]

\* Mutant: the size is bounded first.
SerializerBoundFirst(o, value) == RedactSerialized(o, SizeBounded(SerializeErrorValue(o, value)))

\* bound(redact(serialize))
ErrSerializer(o, value) == SizeBounded(RedactSerialized(o, SerializeErrorValue(o, value)))

Serialized(o, record) ==
  [ name \in DOMAIN record |->
      IF name = "err" THEN ErrSerializer(o, record[name]) ELSE record[name] ]

MethodLevel(method) ==
  IF method \in {"errorStructured", "error", "record"} THEN "error" ELSE "info"

IsEnabled(o, level) == Severity(level) >= Severity(o.level)

\* What a call comes to: filtered by its level, stopped before Pino runs a hook (a report
\* that cannot be read, a timestamp that throws: nothing catches either), broken off by a
\* serializer of the application's that throws, or a line.
Outcome(o, call, record) ==
  CASE call.method = "record" /\ ~ call.metadata.readable     -> "stopped"
    [] ~ IsEnabled(o, MethodLevel(call.method))               -> "filtered"
    [] o.timestamp = "throws"                                 -> "stopped"
    [] o.serializers = "throw" /\ "err" \in DOMAIN record     -> "brokenOff"
    [] OTHER                                                  -> "written"

\* The line: the bindings of the logger, then the record.
Fields(o, record, binding) ==
  Over(AssignIfDefined(Empty, "context", binding), Serialized(o, record))

Line(o, call, label, binding, store, api, span) ==
  LET merged  == MixinMergeStrategy(call, Payload(call, label), Mixin(store, api, span))
      record  == FormattersLog(o, merged)
      outcome == Outcome(o, call, record)
  IN  [ outcome |-> outcome,
        fields  |-> IF outcome = "written" THEN Fields(o, record, binding) ELSE Empty ]
==============================================================================
