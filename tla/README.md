# A verification model of nest-logger

`@bymax-one/nest-logger` is a structured logger for NestJS: Pino underneath, a
fan-out to any number of *destinations*, correlation by `AsyncLocalStorage`,
HTTP access logging, redaction and fail-soft error reporting. This directory
holds TLA+ models of its stateful core, the TLC instances that check them, and
TLAPS proofs of the results that should hold for every configuration.

Source paths below are relative to `src/server/` of the repository unless they
start with another directory. `PROJECT.json` lists the components, the runs, the
hazards, the theorems, and for every definition the source lines it models.

## 1. The system

### 1.1 Components

| Component | State | Operations | Modelled in |
|---|---|---|---|
| Destination health record (`services/destination-health.service.ts`) | failed set, healthy map, failed writes, pending writes, rescuer | `markHealthy`, `markFailed`, `markWriteFailed/Pending/Settled`, `isFailed`, `shouldRescue`, `deliveredByHealthySink` | `DestinationHealth` |
| Write fan-out (`utils/destination-to-stream.ts`, the multistream of `pino-factory.ts`) | one Node `Writable` per destination with its queue | `_write`, its callback, promise settlement | `DestinationFanOut`, `EntryDelivery` |
| Destination registry (`services/destination-registry.service.ts`) | active list, position in its three loops | `onModuleInit`, `notifyRegistryReady`, `announceBootstrap`, `onApplicationShutdown` | `DestinationFanOut` |
| Pretty development sink (`destinations/pretty-dev.destination.ts`) | transform, pre-init buffer and its byte count, two flags | `onInit`, `write`, `onRegistryReady`, `onShutdown` | `PrettyDevDestination`, `PrettyFanOut` |
| Correlation (`middlewares/request-id.middleware.ts`, `services/log-context.service.ts`, `mixins/trace-context.mixin.ts`) | one store per async scope; marks on the request | `run`, `runMerged`, `set`, `get`; first and second mount; the mixin | `LogContext`, `RequestLogging`, `TraceContext` |
| HTTP access log (`middlewares/http-access-log.middleware.ts`, `utils/http-log-state.util.ts`, `utils/matches-exclude-path.util.ts`) | claim and recorded error on the request; a `'close'` listener; `lastIndex` of a shared pattern | claim, START, terminal line | `RequestLogging` |
| Interceptor and exception filter (`interceptors/`, `filters/`) | none of their own | observe the handler, log or record, answer | `RequestLogging` |
| Mounting helpers (`middlewares/apply-*.ts`) | none | the order the middlewares are mounted in | the `Wirings` of `RequestLogging` |
| Module and options (`logger.module.ts`, `config/`) | the contexts declared so far; the providers built | `forRoot`, `forRootAsync`, validation, defaults, what each provider asks for | `LoggerModule`, `ModuleOptions` |
| Logger service and context loggers (`services/pino-logger.service.ts`, `decorators/inject-logger.*`) | a label per logger, the root's shared by all who inject it | structured and Nest-style methods, `child`, `setContext`, `@InjectLogger` | `LogEntry`, `LoggerModule` |
| Pino factory (`pino-factory.ts`) | none | merge, redaction, event name, exception attributes, serializers, levels | `LogEntry`, `ModuleOptions` |
| Redaction walk (`utils/redact-by-name.util.ts`, `utils/redact-error-parts.util.ts`, `utils/own-field-policy.util.ts`) | of one call: ancestors, visits; across calls: `linkDepths` | `createNameRedactor`, `walk`, `walkError`, `addErrorParts` | `RedactionWalk` |
| Error sanitizer (`utils/sanitize-error.util.ts`) | objects seen by one call | `sanitizeError`, `assignOwnErrorFields` | `ErrorSanitizer` |
| Process stream guard (`utils/safe-stdio.util.ts`) | an `'error'` listener on stdout and on stderr | guarded write | `LoggerModule` |
| Level cache (`utils/report-destination-failure.util.ts`) | first answer of each `minLevel` getter | `safeMinLevel` | `ModuleOptions`, `LoggerModule` |
| OpenTelemetry detector (`utils/otel-detector.ts`) | once-only warning flag | detect, warn | `TraceContext`, `LoggerModule` |
| Unexpected-error sink (`sinks/pino-unexpected-error.sink.ts`) | none | `record` | `LogEntry`, `LoggerModule` |
| Resource identity, text limits, interfaces, constants | none | string work, declarations | not modelled (section 7) |

### 1.2 How they interact

```
 application code ──log──> Pino instance (level) ──> multistream (level per stream)
                              │ mixin reads the        │ one Writable per destination
                              │ current store          v
 request ─> RequestId ─> AccessLog ─> parser ─> …   destinationToStream ──asks──> DestinationHealth
            opens store   claims, START,  interceptor │ write()                        ^
                          arms 'close'    observes    v                                │ marks
                                                   destination <──hooks── DestinationRegistry
```

* The fan-out is live while NestJS still assembles the DI graph: entries reach
  `write()` before `onInit`. `DestinationHealth` is the only channel between the
  registry, which writes it, and the streams, which read it per chunk.
* The registry's three loops are sequences of awaits. Between any two of them the
  application may log and promises of earlier writes may settle.
* `onRegistryReady(heldEntriesDeliveredElsewhere)` is the point where a sink that
  held entries in memory (the pretty one) throws away its only copy on the word of
  the health record.
* Two middlewares, the interceptor and the exception filter describe the same
  request. They meet only on marks on the request object: who claimed it, whether
  a scope was opened, which id was validated, which error was recorded.
* The access log's terminal line is written from `'close'`, an event of the socket
  that may fire in the request's scope, in the socket's, or never again.
* What an entry is called by is decided in five places, in this order: the arguments of the
  call, the label of the logger, the store of the request, the ambient trace, the binding of
  a context logger. They meet as keys of one record, and a later one overrides.
* The factory asks each destination for its `minLevel` while the providers are built, the
  registry once they are; both look for OpenTelemetry, and both may report on stderr, as may
  each entry. Whatever is written to a process stream puts the library's listener back.
* Between a log call and the fan-out, `formatters.log` walks the record and writes a censored
  copy; under `err` the serializer then sanitizes what it is given, and its result is walked
  too. Both run code of the application (getters, `toJSON`) that may throw.

### 1.3 What is hard here

JavaScript runs one turn at a time, so the hazards are not data races: they are
what happens between two awaits, on an event that comes early or late, or when one
of several user-supplied sinks throws, rejects or never answers. `PROJECT.json`
lists each one at its line (`hazards`), with the properties that watch it or the
reason none does. In short:

* entries logged at every point of initialization and shutdown, with a half-built
  live set, and a rescuer that moves while streams still hold entries;
* readiness computed while the witness's write is still in flight;
* a bounded buffer met at either of its limits, then replayed, drained or discarded;
* two mounts of each middleware around asynchronous code, in a server that may itself
  live in a scope, with application code that writes or loses the context in between;
* an abort before, between or after any of the stations a request passes;
* providers that are built in any order, classes that are loaded late, getters that answer
  differently the second time, and packages that load the second time only;
* an entry that is put together from foreign objects, in hooks that may each throw, and must
  still name the right user, context and trace, cover its secrets and keep its cause;
* a stream whose pipe breaks after the write has returned, when others may have taken the
  listener away;
* object graphs that share, circle, throw in the middle or answer differently when
  read again, on the way to a line that must leak nothing and lose as little as it can.

## 2. The modules

| Module | What it is |
|---|---|
| `DestinationHealth` | The health record: its fields and operations. Levels are indices into `LOG_LEVEL_PRIORITY`. An operation constrains only the fields it writes, so that a caller combines them. |
| `DestinationFanOut` | Streams, registry and application together: one action per `_write` outcome, promise settlement, hook outcome and loop continuation. |
| `EntryDelivery` | What the fan-out promises, without streams, promises, health record or registry. `DestinationFanOut!Promise` is the refinement mapping. |
| `PrettyDevDestination` | The class (fields, one definition per path through each method), and a driver that calls one object in any order of its lifecycle. |
| `PrettyFanOut` | The fan-out one of whose destinations is that class: every step that calls it carries its effect on it. |
| `LogContext` | The scopes of `AsyncLocalStorage` and the operations on the current store. |
| `RequestLogging` | A request's walk through a wired chain of stations, with its connection and the four recorders. |
| `ErrorSanitizer` | `sanitizeError` on a graph of objects, one step per read, list and node; the own-field policy. |
| `RedactionWalk` | The walk of a record or of a serializer's output, with what it adds to errors and what a throw meets on its way out; it calls the sanitizer for errors that fail. |
| `ModuleOptions` | Validation, defaults, the names that redaction covers, and the level of a destination, as operators. |
| `TraceContext` | The detection of OpenTelemetry and what the mixin adds to a record, as operators. |
| `LogEntry` | One log call from its arguments to the line, hook by hook, as operators. |
| `LoggerModule` | The module from registration to running: registration, dependency injection, bootstrap, log calls, labels and the process's streams. |
| `MCFanOut`, `MCPretty`, `MCPrettyFanOut`, `MCRequestLogging`, `MCRedaction`, `MCLoggerModule` | Values of the constants for TLC. |
| `DestinationFanOutProofs`, `PrettyDevProofs`, `PrettyFanOutProofs` | Theorems about the fan-out and the registry, the pretty sink by itself, and the two together, and their proofs. |
| `RequestLoggingProofs` | Theorems about a request's lines, and about whose identity they carry, and their proofs. |
| `RedactionWalkProofs`, `RedactionCopyProofs`, `RedactionTreeProofs` | The types of the walk and the sanitizer and what their steps do; theorems about what they may write of any graph; theorems about the copy as a tree. |
| `LoggerModuleProofs` | Theorems about start-up, levels and streams, and about what a line holds, and their proofs. |

### 2.1 The fan-out and the registry

One log call (`Emit`) appends an entry and its fate at every destination at once: Pino
and the multistream are synchronous. `fate[d][e]` follows a chunk through the
Writable of `d`: `filtered` by level, `queued`, `writing` (a promise is out), and one
of four final fates. `NextChunk` is the Writable's own rule: the oldest chunk, once
the previous callback was called. The five definitions under `Chunk` are the five
ways through `_write`; `Settle` is the `.then` pair.

*Turns.* What the code does without an await must not be interleaved with a new turn.
A stream with an idle callback hands its next chunk on in the same turn (`Quiet` says
none is left to do so), and the registry's own code between two awaits is `Urgent`.
An action that starts a new turn (a log call, a promise settling, a continuation)
requires `Idle`: nothing left to run in this one. So a log call is written to every idle
sink before anything else happens, while a chunk behind an asynchronous write waits.

*The registry* is a program counter (`pc`, `idx`) over its awaits. A hook may return
(or be absent: both are awaited as `undefined`), throw, or leave a promise that
settles either way; `Hook[d]` says which of these the sink may do, for all three of
its hooks. NestJS awaits `onModuleInit` before it can call shutdown hooks, so `Shutdown`
starts from `up`. Shutdown logs its entry, waits for a `setImmediate` (`tick`), and
walks a reversed copy of the active list.

`vouched` and `closing` are history variables: what each readiness flag vouched for,
and the order of `onShutdown` calls.

### 2.2 The pretty sink

`resolved` is a history of what became of each entry, in order: rendered (handed to
the transform), raw on stdout, discarded, or dropped. Each definition under `WriteEntry` is one path
through `write`; `FlushBuffer` empties the buffer before it emits, as the code does;
`InitSucceeds` replays through a transform that may throw on any entry. In
`PrettyFanOut` entries have one size and only the entry limit is met: the byte limit is
the subject of the run `pretty`.

### 2.3 A request

`chain` is the order in which the application mounted things; `at` the station a request
is at; `turn` the request whose synchronous code runs. Library stations (`Runs`) run
within a turn, application ones (`Waits`) begin a new one, so two requests interleave, and the
connection may end (`Finishes`, `ClosesDelivered`, `Aborts`), exactly between turns.
The header values, the ids and the errors are reduced to *whose* they are: a request,
the enclosing scope, the application. `ctx[r]` is the scope the request's code runs in,
`listeners[r]` the scopes its `'close'` listeners are bound to.

### 2.4 Redaction

The application's objects are a graph, `heap`: each has a kind, its own enumerable keys, and for
each field the *set* of answers reading it may give. A getter that throws, or answers
differently the second time, is a field with several answers; nothing in the model may assume
that two reads agree. All primitives are `Text`. The recursion of the code is an explicit
stack: `tasks` for `toSanitizedError`, `stack` for `walk`, one frame per call with the step it
has come to, so that a throw (`raised`) unwinds through the frames the code has open until
`CatchPart` (the `try` of `add`) or `CatchError` (that of `walkError`) meets it, or the record is given up
(`Unwind`, the `catch` of `createNameRedactor`).

The copy is `out`, a function from paths of keys to what was written there (`what`), the object it
stands for (`of`) and the object that held it (`owner`); a part that fails takes what was
written under its path with it. The sanitizer's nodes are added to `heap` under names made of
the call and the links followed, and `made` remembers what each was made from, so that a
property can speak of an error on every way it reaches the line. Two calls are modelled: `phase = "record"` is
`redactRecord(record, true)`; `"serialize"` then `"redact"` is the `err` serializer on a
thrown value and the redaction of its output.

### 2.5 The module and a line

`setup` is what an application brings, and constant: its options, whether it registers them
synchronously, what each of the two anchors of the OpenTelemetry detection meets, whether its
pipes may break, the contexts its classes inject a logger for, and the use it makes of the module.
An option is named by what validation and runtime tell apart; `"other"` is any value validation
refuses. `http` and `otel` are groups, spread over their defaults member by member: one that is there
and undefined takes its default's place (`SpreadHttp`, `SpreadOtel`), turns a switch off, and, where it is
the list of excluded paths, makes the defaults throw. A malformed path of `redactPaths` is a text,
and so validates, and is refused by pino when the factory calls it. `boot = "threw"` is set-up ended by such
an error, as `"refused"` is by one of validation.

`boot` is how far the application has come. Classes are loaded (`Declare`) before or after
`Register`, which collects the contexts declared so far: one that comes later has no
provider, and dependency injection ends in `ResolveUnknownContext`. A provider is built (`Build…`)
in any order that respects `Asks`; what it does is done by the action that builds it: the
factory's levels and detection by `BuildPino`, validation in the asynchronous mode by `BuildOptions`,
the child logger by `BuildContextLogger`. `MarkDestination` and `AnnounceBootstrap` are the parts of
the registry's `onModuleInit` that read levels and announce; its awaits and failures are those of
`DestinationFanOut`, the two modules meet in `LevelsAgree`: one level for each destination.

`Log` may happen from the moment a provider that asks for the logger may exist, in any
logger, with the label it has. `Line` composes the hooks in Pino's order: `Payload` (the arguments),
`MixinMergeStrategy`, `FormattersLog` (redaction, event name, exception attributes), `Serialized`.
An object is a function from field names to values, and a value is what it is and which names
it holds in clear: that is all attribution, redaction and cutting distinguish. `RedactRecord`
is what `RedactionWalk` does in detail, reduced to that.

A stream has a listener or not, an `'error'` event to come or not, and the last thing that was
done to it; `ErrorEvent` without a listener ends the process.

## 3. The runs

Every run is `tlc -config <run>.cfg <module>`; the module is in `PROJECT.json`. All
finish in one to three minutes at most. There are twelve, and each property stands in the run
whose instance makes it hardest.

### 3.1 The fan-out

| Run | Question | States |
|---|---|---|
| `fanout_rescue` | Who stands in when sinks fail, what survives when all do, and how does teardown go? | 385 000 |
| `fanout_live` | Do the registry's records and the write counters agree at every step, is readiness right about what was delivered, does every queued entry reach its final outcome and each lifecycle loop its end, and does the whole implement `EntryDelivery`? | 17 000 |

Two sinks, one at `warn` and one that takes the module's own level, whose hooks and writes
may each return, throw, resolve or reject, meet every branch of the registry and
every way through `_write`, and the question readiness asks needs exactly an asker
and a witness. Three sinks are needed for an election with a tie *and* a rescuer that
moves: the first to fail has the higher level, the two others tie below it. `fanout_rescue`
limits what writes do (`MC_Write3`), so that the first sink's entries wait
behind a promise while the rescuer moves. Two application entries (one with three sinks)
suffice because the properties relate one entry to one other (queued behind it) or to the
registry's own bootstrap, warning and shutdown entries, of which each run has the
full set. Levels are two or three out of six: one that every sink takes, one that
some filter.

One case the bounds do not reach: with one application entry, which `fanout_rescue` has, no
entry waits behind another *application* entry before boot while the rescuer moves. That it is neither
lost nor rescued twice after boot is covered by the theorems only (`TotalFailureKeepsTheUnion`,
`OneRescuePerEntry`), which bound nothing.

### 3.2 The pretty sink

| Run | Question | States |
|---|---|---|
| `pretty` | Do the two limits of the buffer hold, is order kept, is each write resolved or held, with calls in any order of the lifecycle? | 591 |
| `pretty_fanout` | Between a stricter, unreliable sink and a synchronous stdout, is anything lost that was held, is anything printed twice, and is all that was held resolved? | 208 000 |
| `pretty_dropped` | Is dropping after a failed `onInit` safe? (refuted, section 6) | – |

`pretty` has `MaxBuffered` 3 and `MaxBytes` 5 with entries of 1, 2 and 4 bytes: two
entries can exceed the byte limit, four the entry limit, and six writes do
either and go on afterwards. The real limits (thousands of entries, mebibytes) are
met by the same comparisons. In the compositions `MaxBuffered` is 1 or 2, so that both the
overflow and its absence occur within the run's entries. The only witness that can vouch for the held
entries in `pretty_fanout` is stdout, which writes synchronously; one whose write is still pending is
met by `ReadinessVouchesDelivery` in `fanout_live`, and together with the buffer only by the theorem
`DiscardedIsNeverLost`.

### 3.3 Requests

| Run | Question | States |
|---|---|---|
| `request_wirings` | Does each request get the lines it should, once, in each documented wiring? | 25 000 |
| `request_context` | Do two concurrent requests keep to their own context, in a server created inside a scope? | 702 000 |
| `request_late` | Is a request accounted for behind asynchronous middleware? (refuted, section 6) | – |

The wirings are those the README and the mounting helpers lead to: both
middlewares mounted twice, before the body parser by `applyAccessLog(app)` and after it by
`applyRequestIdMiddleware(consumer)` (`Double`); the same around application middleware,
which may set fields or lose the context (`Around`); `applyAccessLog(app)` alone (`Alone`); the access log not wired
(`InterceptorAlone`); and `applyRequestIdMiddleware(consumer)` alone, which mounts both
behind the body parser (`Behind`). There a request that is aborted while its body is read meets what `request_late`
shows: hence `PromptRequestsAreAccountedFor`, which is about wirings that record
before anything asynchronous, and `EveryStartIsClosed`, which begins with a START whose connection is still open; the
other properties are of every wiring. Recorders touch another request only through the turn
and the shared pattern's `lastIndex`; since each test of the pattern ends within its turn, one
request that is tested up to three times meets everything a position could spoil, so one
request is enough for the lines, and `RequestLoggingProofs` confirms it for
any number. Bleeding needs two requests: `request_context` has two,
symmetric, with two mounts around middleware that sets any field, no failures (they do
not touch the context) and one status. Its server is enclosed in a scope and nothing loses the context, that of
`request_wirings` is outside any scope and middleware may lose it; what the code does where both meet, or where the access lines
of an enclosed server are joined, is in section 7.
`MaxValues` is 1: handlers return promises (section 7).

### 3.4 Redaction

| Run | Question | States |
|---|---|---|
| `redaction` | What do the walk and the serializer write of graphs that share, circle, throw and change, and do both end? | 569 000 |
| `redaction_own_tojson` | Does an error with a throwing `toJSON` of its own degrade alone? (refuted, section 6) | – |

The graphs have one record, two errors, one object and one list, in three families: `ChainGraphs` varies causes and
lists of errors (absent, cyclic, failing, over the cap, already capped), `OwnFieldGraphs` own
fields (cycles through plain objects, sharing, getters, binary values, driver fields),
`ToJsonGraphs` every way to come by a `toJSON`. Each is checked under `'all'` and `'safe'`, with and
without a censored `message`. The limits are small so that they are met: a chain budget
of 1 with chains of 2 and more, a cap of 2 with lists of 3 and of 6 capped to 3, a depth
of 4 and 8 visits, which the deeper graphs exceed. The code compares against each limit in one
place, whatever its value.

`ErrorFieldsObeyThePolicy` is stated over the paths written, not over the
code's branches: it holds for an error walked as data, kept an instance, linked, capped,
degraded or serialized. `CensoredByName` has two parts. By *name*, nothing but the censor is written under a censored name,
on any of these ways. By *text*, it claims less: a stack repeats the name and the message,
and the code censors it with them only in an error it writes as data in a record. The stack of a
degraded node (`walkError`) and that of a serialized error (`serializeErrorValue`,
`pino-factory.ts:148-155`) stay, and with them a message that is censored beside them. For errors in the metadata the
change log says otherwise (section 7). `WorkIsBounded` is about work as well as about output:
`admitted` counts inspections begun, those of walks that failed included; a degraded error is
not counted twice, yet the whole stays within twice the budget.

### 3.5 The module and its lines

| Run | Question | States |
|---|---|---|
| `logger` | Does the module start in every order, and do its lines, levels, labels and warnings stay right? | 53 000 |
| `exception_half` | Are the exception attributes written all or none? (refuted, section 6) | – |

The setups are families that vary one part each (`MC_Setups`), since the parts meet in few
places: every option good, absent, bad, and (groups and paths) accepted though set-up cannot use it, in both modes, with contexts declared before and after
registration; both anchors with each of six outcomes, with entries that meet each of six spans;
two sinks whose getters give each pair of answers (throwing, absent, a level, a
nonsense one); every strategy, format, own-field policy and
serializer against calls whose metadata forges the library's keys, cannot be read, or holds
an object that throws, and whose error stands in each of the places it can stand in; two injected
loggers and a root whose labels others set between constructions and calls; two streams whose
pipes break. The bound on calls is the smallest that lets the case happen: one for a property of
a line, two where the first call or label may disturb the second, three for a stream that is
written, robbed of its listener and written again.

### 3.6 Mutants

Every property of a passing run has a mutant, and one of two named parts usually has one for each, in `PROJECT.json`: a definition of the model
with a bug that could be made in that code (`MarkFailedTiesMove` moves the
rescuer on a tie, `DeliveredTrustingPending` takes a write in flight for delivered,
`ClosesOnFinish` waits for `'finish'`). The mutated forms stand beside the originals, under a comment
that says what is wrong with them; with one in place TLC finds its property violated.

## 4. Fairness

* `TurnsComplete` (fan-out): weak fairness of each stream's next chunk and of the registry's
  own steps. A JavaScript turn and its microtasks run to the end; nothing in them
  waits for another component.
* `WritesSettle` (fan-out): the promises of `write` settle. This is an assumption on the
  consumer's sinks, which `ILogDestination` requires to be non-blocking. No
  assumption is made on *how*: they may all reject. The promises of the hooks settle likewise
  (part of `InitLoop`, `ReadyLoop` and `ShutdownLoop`): NestJS itself waits for them
  without a timeout.
* `PrettyFairSpec`: the registry's and the streams' steps only; that other sinks
  settle their writes is not assumed.
* `FairSpec` (requests): the library's stations run in their turn and give it up, and no
  connection stays open forever. Nothing is assumed of handlers, guards or application
  middleware: `EveryStartIsClosed` holds of a request whose handler never answers.

* `FairSpec` (module): weak fairness of `StartUp`: the application's classes are loaded, NestJS builds every
  provider it can and runs the hooks. Log calls, labels, broken pipes and whoever removes
  listeners are not fair. `StartupSucceeds` holds under it of options that validate and that set-up can
  use, and says how the others end: one that validation refuses in its error, an undefined list of excluded
  paths and a malformed path in another's (`Unusable`). Excepted are a timestamp hook that throws,
  a context declared after registration and a crash of the process.
* `FairSpec` (redaction): the walk goes on; it is synchronous code in one turn.

The safety runs use `Spec`. Starting a shutdown, logging, and the arrival of
requests are never fair.

## 5. What is proved

All theorems hold for every value of the constants within the named assumptions
(`HealthAssumption`, `FanOutAssumption`, `PrettyAssumption`, `PrettyFanOutAssumption`, `RequestLoggingAssumption`,
`LogContextAssumption`, `SanitizerAssumption`, `SizeAssumption`, `RedactionAssumption`, and `SinksAssumption`, `ContextsAssumption`, `SetupsAssumption`,
`UsageAssumption` of `LoggerModule`), which only give the parameters their types and say that a
pretty sink behaves like one, that `None` is none of the scopes and values, that a context is not
named like a provider of the library, that users, labels and contexts are texts, that no array index is
the name `errors`, that object graphs are closed, and that a count at the end of a list is true of it. Where a proof goes by induction over a length or an
index, it takes the least number that fails (`LeastNumber`, `LeastIndex`).

**The lifecycle** (`DestinationFanOutProofs`). `LifecycleInv` is `TypeOK`, `HealthInv`
and `RescuerInv`. `ActiveMatchesHealth` is not inductive alone: appending to the active list keeps
registration order only because the loop index is beyond all that was resolved
(`IndexInv`). `RescuerIsFirstOfTheLowest` needs `failed = {} => rescuerLevel = Infinity` for the
first failure, and, for ties, that the destination marked last has the highest index
(`MarkFailedRescuerInv`): a strict comparison then keeps the earliest.

**Delivery** (`DestinationFanOutProofs`). `RecordsAreExact` (`ExactRecords`) is its counters: what the health
record says of failed and pending writes is what the streams have done. `DeliveryInv` adds seven parts. `FateInv` says what each
fate implies (only failed destinations rescue or skip, only a marked one drops).
`CountInv` adds to the exact counter that one write is in flight per stream, without
which settling could leave the count wrong. `SkipInv` says the rescuer passes over an entry
only while something is live, which is why total failure loses nothing:
liveness of a destination is never taken back (`HealthyGrows`). `VouchInv` is the
soundness of readiness: a healthy witness without failed or pending writes, whose level is no
stricter, accepted every entry so far, because by `Idle` its queue is empty and by `FateInv`
no other fate is left. `RescueInv` says the bootstrap entry comes when the init loop is over, so
that the rescuer of every later entry is the one elected for good: hence `OneRescuePerEntry`, where
before it two destinations may each have rescued an entry. For `OrderlyTeardown`, `OrderInv` counts how
many destinations the reversed loop has called at each of its phases, and `FarewellInv` says
that the farewell was emitted before the loop began and that a write pends only at a
destination that may return a promise: a quiet stream of any other live one has handed it on
(`QuietMeansHanded`).

**The refinement** (`FanOutDelivers`) is the safety half of `ImplementsEntryDelivery`: under the
mapping `Promise`, every step of the fan-out is one of the four of `EntryDelivery` or a stutter.
The steps that settle must settle the oldest pending entry: `QueueInv` says that nothing older waits
behind a write in flight. That an entry is skipped only by a dead destination, and rescued only
while none is live, is `FateInv` and `RescuerInv`.

**The pretty sink by itself** (`PrettyDevProofs`). Every method of the class is a *kind* of step on what
has been logged, held, shown and lost (an arrival, a drain, an eviction, a discard), whatever
else it does. `ShownInOrder` needs `OrderInv`: what is held is in order, and later than all that was shown.
`BufferIsExact` is `SizeInv` (the byte count is the last of the running totals of what is held, and
the totals exist) with `AccountInv`: every entry written is held or has an outcome.

**The pretty sink** (`PrettyFanOutProofs`). Every step of the composition is a step of
the fan-out (`PrettyImplementsFanOut`), so `DeliveryInv` holds of it; `SinkInv` then ties
each held entry to an accepted fate and each discarded one to another live sink.
`DiscardedIsNeverLost` follows: the one place where entries are thrown away on somebody's word.
`AcceptedHasOneOutcome` needs five parts more: where the sink is in its life (`PhaseInv`), that it fails only
in its own hook or before it (`FaultInv`), what it prints raw after the shutdown (`RawInv`), that held,
rendered, raw and lost entries are disjoint and make up all it was given (`AccountInv`), and
when it may drop one (`DropInv`).

**A request's lines** (`RequestLoggingProofs`). `LoggingInv` is
an invariant of each request by itself: who records (`RecorderInv`: the middleware that claimed it, with
exactly one listener, or the interceptor, never both), what that recorder has logged so
far (`StartInv`, `TerminalInv`), and what is known of a failure (`OutcomeInv`). The delicate
part is `TerminalInv`: a terminal line exists only after the event of *its* recorder, so
that neither can write a second one. From it, in any wiring and for any number of requests:
`NothingTwice` (when handlers return promises), `SuccessIsDelivered`, `FailuresExplained`.

`RequestsAccountedFor` holds of any set of wirings, since its property speaks of those that `RecordsPromptly`: some mount
of the access log has only library middleware before it. It is the condition the wiring of `request_late` lacks. `EarlyInv` carries it: up to that station a
request keeps the turn, so no `'close'` can fire, and keeps a scope, so adopting it
cannot throw; `ClaimedInv` says it leaves that station claimed or excluded, and that
closing a claimed request writes its line.

**A request's identity** (`RequestLoggingProofs`). `IdentitiesAreOwn` says of any number of requests that no line
bears another request's id, tenant or user; that a request's scope takes no user from a scope around the
server, and no tenant of its header where one was resolved there; and that behind a first mount the enclosing user
is on no line but the terminal one. That last exception is real: an abort's `'close'` fires in the enclosing scope,
and the ABORTED line is built there, with its id, tenant and user. `LaterMountsAreConsistent`
and `LinesAreJoinable` are about the response header and about the two access lines. The invariant is ownership: which scope
a request has opened, that no other request is given it, and what a store may hold; `UserInv` adds that
behind a first mount a request is in a scope of its own, in which the enclosing user cannot be read; before it, nothing
but a `'close'` writes a line. Two hypotheses name what the code does not
guard against (section 7). `LostToNoScope` excludes a server that is both enclosed in a scope and has
middleware losing the context, where a second mount writes into the enclosing store and requests do bleed into each
other; `Joinable` asks for a server outside any scope. The theorems take only the hypotheses
they need; the passing runs satisfy them.

**The module** (`LoggerModuleProofs`). `Inv` is inductive: types (`ModuleTypeOK`), `SettledInv` (once
anything depends on them, the options are the validated ones with their defaults), `BuiltInv` (what is
built was built after what it asks for, hence no call before the factory), `LevelInv` (the
cached answer is the one both readers used) and `PipeInv` (a stream last written by the library has
its listener). `LevelsAgree` needs the first three: only validated options give a stream a level
Pino knows. `BrokenPipeIsSurvived` is the last alone.

**A line** (`LoggerModuleProofs`). All five properties of a line hold for any call, store, label and metadata, and
for any options that validate. Each argument follows a field through the hooks with one lemma per
hook (`RedactKeeps`, `EventNameKeeps`, `ExceptionKeeps`): which fields a hook may add, which it
keeps, and what it may turn a value into. `TextSurvives` then carries the owned keys to the line,
`CauseSurvives` the error, `RecordIsCovered` and `SerializedIsCovered` the secrets;
`GivenUpIsAnonymous` is the case in which the record is lost. That `FindErrorParam` finds an error in a
tail of any length rests on the least index (`LeastIndex`), from the library's theorem on
well-founded sets. `TraceInv` is the invariant behind `TraceLossIsAnnounced`; its delicate step is
`AnnounceBootstrap`, where the second detection may succeed although the first failed:
`SecondDetection` says that the first then found a broken installation, and has reported it.

**Redaction** (`RedactionWalkProofs`, `RedactionCopyProofs`). The theorems hold for any set of closed object graphs: what a
read answers is in the graph or primitive, an object has each key once, lists are indexed in
order, and the root of a record is no function (pino calls `formatters.log` with an object). `Types`
is the complete type invariant of walk and sanitizer, and is inductive only as a whole: that a frame's value is
still there rests on which nodes a new sanitization may discard, which are those of calls at
its stack depth. Two lemmas carry everything else: `WalkWrites` lists the seven ways a step changes
the copy, and `StackStepsAre` the ways it changes the call stack; `GraphKept` says no step changes
an object of the application.
`NothingLive` follows from `HonorInv` (only the record and nodes are walked without their `toJSON`) and
`ReferencesInv`; `LevelsAreForgotten` from `LinksInv`: every level kept is one that a part in progress will
take away. What a step of the sanitizer is, `SanitizerShape` says in three shapes: it opens a node,
closes it, or adds fields to it and to the list that hangs on it. On that rest `CallsInv`, `NodesInv` and `FormsInv`
(a call past its first step has its node; its level, list and mark are as they should be), hence
`NodesAreBounded` and `LossesAreVisible`; and `SeenInv` (an expanded error is in `seen`, which a call
only adds to), hence `NodesAreTrees`.
`NothingIsLost` adds the lists. While the members of one are visited, those shown, those that still have to be and the count
of those left out add up to the size of the application's list (`PendingInv`); so do those shown and the count
once the call has gone on (`ClosedInv`), and nothing else writes to a list. Where it begins, `ShownAndLeft`
says that the sum is right, also for a list the walk had capped: this is where `SizeAssumption` is
needed. A list one longer than the cap, whose last member is a width marker, says by it how many it had; that
the marker is true is not the sanitizer's to know (`carriedOmitted` believes it), and an
application that wrote such a marker itself, with another number, would be believed as well. What stands
for a member is a text, a node or a depth marker, never a count (`ChildIsNoCount`). `HostileErrorsDegrade` assumes `NoOwnToJson`: no error of the graphs has an own
enumerable `toJSON`. The graphs of `redaction` satisfy it, those of `redaction_own_tojson` do not,
and §6 says what happens then. Under it a throw by an error is still at the error's own call, which
catches it (`RaisedInv`), so that only another object's throw reaches the root. `ErrorFieldsObey` rests on
`PolicyInv`: the fields a call still has to read are its value's own or parts of an error, what a node has as
keys the policy let through when it was copied, and a path under a serializer's key begins with one.

**The copy as a tree** (`RedactionTreeProofs`). `TreeInv` relates the whole copy to the whole stack: the
beginnings of every path of the copy are in it; a call that has not opened its copy finds nothing at or
below its path; one that has finds below it only keys it has done with; and of two calls the inner one
writes below such a key of the outer. It follows (`TreeMovesAre`, one lemma per action) that a step writes in
one place (`OnePlace`) and that what is above a path is never rewritten (`AboveStays`). Two theorems
rest on it. For `PathsForgotten`, `CycleInv`: an object written as circular has its copy above; the delicate
case is a call that follows a `toJSON`, which has no copy of its own, and below which only nodes
of inner calls are met, so that it can never be the ancestor found. For
`NamesAreCensored`, `NamesInv` and `TextInv`: a path of the copy, and the path of a call in progress, has no
censored name on it but its last, where the censor stands, *except* below a covered part that is still being
walked: what is written there really stands in the copy for a while, and is dropped for the censor
when the part ends, or with the part when a throw takes it (`PartGone`). At the end no call is left, and
no exception. The theorem assumes `MarkUncensored`: no policy censors `_errorFieldsIncomplete`, which the
library writes itself, as `true`, without asking the matcher; a policy that did would see that constant and
nothing of the application's. The policies of the runs satisfy it. Of the text of a stack the theorem says what the
property says: it goes with a censored name or message in an error the walk writes as data in a record, not in a degraded node
nor in what the serializer makes (section 3.4).

**The budget** (`WorkBounded`, the last section of `RedactionTreeProofs`). A visit is counted before it is known
what becomes of it, and is given back when the error it was counted for throws; then the error's node is
walked instead, and counted again. So the number of containers is bounded by the visits only if one also counts the
calls that have been admitted and have no container yet (`Inspected`), and the number of admissions
only if one counts the errors that may still throw (`Failing`) and the visit that the walk of a degraded node will make
(`Credit`): `BudgetInv` says that `Used` visits pay for the first two, and that twice as many, and the credit, pay
for the others. It needs `OpenInv` (a call that reads fields has its container in the copy, whatever throws
below it), `RaisingInv` (a throw never finds a call whose error was given up already), `RemadeInv` (a degraded call has a
node, which is no error) and, for the length of paths, `DepthInv`. What a step may do to the counted sets is the same for
most actions (`BudgetMoves`); the steps that count, give back or replace a visit have lemmas of
their own (`EnterFits`, `CatchFits`, `OtherFits`).

Only model-checked: liveness and fairness, `StartupSucceeds` among them, and hence the fairness half of
`ImplementsEntryDelivery`. Every safety property a passing run checks is also a theorem, some of them under the assumptions
named above (`NoOwnToJson`, `MarkUncensored`, `LostToNoScope`, `Joinable`).

## 6. Where the code and its documentation differ

Each is a run that TLC refutes.

* **`pretty_dropped`.** `initFailed` is set inside `onInit`, the registry marks the sink failed
  when its await of the rejected promise resumes. An entry logged by a microtask in between
  is dropped although the sink is alone: "Nothing is lost on any path" fails there.
* **`request_late`.** The access log registers its `'close'` listener without asking whether the
  connection is already gone. Behind asynchronous middleware it may be: START is logged
  and "one terminal entry … for EVERY request" never is.
* **`redaction_own_tojson`.** Under `errorOwnFields: 'all'` an error that throws is replaced by its
  sanitized node. The sanitizer copies own enumerable fields, functions included, so an own `toJSON`
  (an arrow-function property of an error class, say) is on the node too, is honoured by the walk,
  and throws again where no error is left to catch it: the record becomes the envelope,
  though an error "whose … `toJSON` throw[s] must degrade on its own". The graphs of
  `redaction` have no such field, and there the property holds.

* **`exception_half`.** `withSemconvException` assigns `exception.type`, `error.type`, `exception.message` and
  `exception.stacktrace` one after the other inside one `try`. An error whose `message` accessor throws
  leaves the first two behind, and so does, under `'names'`, a caller's own field of one of these names,
  which the walk's copy holds as read-only. The comment of the catch says such a value
  leaves `err` untouched "rather than half-populated attributes. Partial semconv fields would be
  worse than none". `err` does survive (`NoCauseIsLost`).

## 7. Decisions, limits, and what is not modelled

*Fan-out.* One `Hook[d]` serves `onInit`, `onRegistryReady` and `onShutdown`. Destinations are
distinct objects. A Writable hands on its next chunk synchronously when the callback
is called synchronously. Logs below `ModuleLevel` are no-ops and not modelled. A crash loses
what was held: nothing is persisted, so there is no recovery to model. A write that
never settles blocks its own stream for good, the rescuer's included. The comment at
`interfaces/log-destination.interface.ts:97-101`, that entries may still be queued when the flag is
computed, is more careful than needed: a non-empty queue sits behind a pending write, and then
the flag is false (`ReadinessVouchesDelivery`). Likewise the pending *counter* never
exceeds one (`PendingCountsInFlight`).

`shouldRescue` asks for the *current* rescuer, and a later failure with a lower level takes that role
over: until the bootstrap entry, an entry may be rescued by one and then by the other, though
a comment speaks of rescuing once. `RescuedOnceAfterBoot` is what holds.

*Pretty sink.* Rendered means handed to the transform. An overflowing buffer is printed raw even beside
stdout, and a rescue may repeat what a drain printed: duplicates the code accepts.
The composition has one pretty sink and entries of one size.

*Requests.* `MaxValues` above 1 is a stream of values: the interceptor alone then logs a SUCCESS
for each, so `NothingIsLoggedTwice` is claimed for promises only. The interceptor alone
logs no terminal line for a status of 400 or more that was set without throwing; hence
`EveryRequestIsAccountedFor`, `SuccessMeansDelivered` and `EveryStartIsClosed` are about
requests of an application with the access log wired. A second mount whose context was
lost answers 500 (`AdoptionThrows`). Two things the code does are outside what is claimed, and TLC shows
each when one constant is changed. The terminal line takes any readable store for the request's own: in a server created inside a `run()`
scope an abort's `'close'` fires in that scope, the ABORTED line bears its id, tenant and user, and does not join with its
START (`request_wirings` with `Enclosed = TRUE` refutes `AccessLinesAreJoinable`). In such a server, behind middleware that loses the
context, the second mount knows the request by its mark and writes the id with `set()` into the enclosing store, which later
requests inherit (`request_context` with `Loses = TRUE` refutes `IdentityIsItsOwn`). Durations, addresses, user agents and the header alphabet are left out.

*Redaction.* `CensoredByName` leaves out what the code does not censor. An error in the metadata that cannot be read whole is replaced
by its sanitized node, where `stack` is one more own field, censored by its own name only: with `message` censored, the first
line of `stack` still says it, though the change log (`src/CHANGELOG.md:146-147`) has the added `stack` censored "when `stack`, `name` or `message`
is: both carry that text". The same holds of a serialized error, of which no document says otherwise. `NothingIsLostSilently` speaks of the sanitizer's nodes, not
of the errors the walk itself writes as data. A key listing or prototype lookup that throws (a proxy) is represented by the first field that
throws: the walk fails at the same frame. Names are matched in one case. Binary members of
arrays are left out, binary fields are not. An error whose links are reached through an own
enumerable `cause` is not counted by the chain budget (the depth and the visits bound
it), as in the code. An error that fails, degrades and refers to itself is cut by
the budgets rather than by `[Circular]`, since its node is a new object; hence
`CircularMeansACycle` does not ask for the converse. The two calls start from the application's
objects; that the serializer is given what the record's walk wrote of `err` is in `LogEntry`, where
values are not graphs.

*Lines.* A field left undefined is taken for absent, as it is in the JSON. `log` stands for `warn`,
`debug`, `verbose` and `fatal`, which differ in their level, and `info` and `errorStructured` for the
structured methods of other levels. What fast-redact does with paths under `'paths'` is external: there the
model claims only the serialized error. What the model shows and no property
forbids: an application's serializer or timestamp that throws escapes the log call, and the latter
aborts start-up at the bootstrap entry; an object that throws when walked costs the whole record
under `'names'`, request ids included; a raw payload's own `context` stands where an injected
logger's binding would; a context logger that is built after
`setContext` on the root takes over that label (`InjectedLabelHolds` is about those with none of
their own); `errorStructured` with a value that is no error loses it under `'semconv'`; at level
`error` or above the warnings about redaction and OpenTelemetry are filtered like any other.

*Module.* `http: { excludePaths: undefined }` validates, and `forRoot` then throws a `TypeError` where its comment says it throws "when the options
fail validation"; `StartupSucceeds` sets such options apart (`Unusable`) and says how they end. Every declared context is taken to be injected by some class. Between the two detections the
environment changes only for a package that threw while loading, at either anchor: it may load the second time.
Of the members of `otel` only the switch may be given as undefined; an undefined name of a trace field is not modelled. `TraceLossIsAnnounced` lets off a level at which warnings are
filtered, and `BrokenPipeIsSurvived` a stream other code wrote to before the library ever did.
The application's own listeners on the process streams are not modelled; with one of them a broken
pipe never ends the process.

*Not modelled.* Resource identity (`utils/resolve-resource.util.ts`) parses two environment variables once:
nothing of it is left without the characters. (Its comment at lines 56-58 says that a value which cannot
be decoded is dropped, lines 88-93 keep its raw text; the difference is one of text.) Text limits and escaping are
string work over one value; of the size bound, what it leaves of a value is modelled. `useNestLogger`
hands NestJS the root logger; `LogPerformance` times a call and logs it, without state; `LogContext` is an
injection shorthand. Interfaces and constants are declarations. Benchmarks, scripts and tests are not the program.

## 8. What is left

* Models: the line of `LogEntry` with the graphs of `RedactionWalk` as its values; the fan-out and
  the streams' guard as one, with the default destination as a sink whose pipe breaks.
