----------------------------- MODULE TraceContext -----------------------------
(***************************************************************************)
(* Detection of the optional @opentelemetry/api (utils/otel-detector.ts)   *)
(* and the mixin that stamps entries with the ambient context              *)
(* (mixins/trace-context.mixin.ts).                                        *)
(***************************************************************************)
EXTENDS Naturals, Sequences

Plain(text) == [is |-> text, clear |-> {}]

Empty == [field \in {} |-> Plain("")]

Field(name, value) == [field \in {name} |-> value]

\* { ...base, ...top }
Over(base, top) ==
  [field \in DOMAIN base \cup DOMAIN top |-> IF field \in DOMAIN top THEN top[field] ELSE base[field]]

-----------------------------------------------------------------------------
(* What an attempt to load the package from an anchor may meet: no anchor   *)
(* to resolve from, no package, a package without one of its own            *)
(* dependencies, one that throws while it loads (a later attempt may load), *)
(* one without a usable `trace`, or a usable one.                           *)

Outcomes == {"noAnchor", "missing", "dependency", "throws", "unusable", "usable"}

\* Mutant: any module that cannot be found counts as this one.
IsOtelApiMissingByCode(outcome) == outcome \in {"missing", "dependency"}

IsOtelApiMissing(outcome) == outcome = "missing"

LoadTraceApiFrom(outcome) ==
  [ api    |-> outcome = "usable",
    broken |-> outcome \notin {"noAnchor", "usable"} /\ ~ IsOtelApiMissing(outcome) ]

\* The first anchor that gives a usable api; without one, whether any found a broken install.
DetectOtelTraceApi(outcomes) ==
  LET attempts == {LoadTraceApiFrom(outcomes[i]) : i \in DOMAIN outcomes}
      found    == \E attempt \in attempts : attempt.api
  IN  [api |-> found, broken |-> ~ found /\ \E attempt \in attempts : attempt.broken]

NotDetected == [api |-> FALSE, broken |-> FALSE]

\* Mutant: a warning per detection and per entry.
WarnBrokenInstall(warnings) == warnings + 1

WarnBrokenInstallOnce(warnings) == IF warnings > 0 THEN warnings ELSE 1

-----------------------------------------------------------------------------
(* The mixin.  Whatever the api hands back is foreign: no active span, a    *)
(* call or a read that throws, an invalid id, flags left out, or all of it. *)

Spans == {"none", "throws", "badTraceId", "badSpanId", "noFlags", "whole"}

IsValidTraceId(span) == span # "badTraceId"
IsValidSpanId(span) == span # "badSpanId"

\* Mutant: each valid id is written by itself.
StampEach(span) ==
  IF span \in {"none", "throws"} THEN Empty
  ELSE Over(IF IsValidTraceId(span) THEN Field("traceId", Plain("trace")) ELSE Empty,
            IF IsValidSpanId(span) THEN Field("spanId", Plain("span")) ELSE Empty)

\* Everything is read before anything is written.
Stamp(span) ==
  IF span \in {"none", "throws"} \/ ~ IsValidTraceId(span) \/ ~ IsValidSpanId(span) THEN Empty
  ELSE Over([traceId |-> Plain("trace"), spanId |-> Plain("span")],
            IF span = "noFlags" THEN Empty ELSE Field("traceFlags", Plain("flags")))

\* The store's fields, then the trace's.
Mixin(store, api, span) == IF api THEN Over(store, Stamp(span)) ELSE store

\* A throw anywhere in it is announced like any broken install.
MixinWarnings(api, span, warnings) ==
  IF api /\ span = "throws" THEN WarnBrokenInstallOnce(warnings) ELSE warnings
==============================================================================
