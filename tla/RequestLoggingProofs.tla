------------------------ MODULE RequestLoggingProofs -------------------------
(***************************************************************************)
(* Proofs about the lines of a request, for any number of requests, any    *)
(* wiring, any enclosing scope and any of the options.                     *)
(***************************************************************************)
EXTENDS RequestLogging, TLAPS

-----------------------------------------------------------------------------
(***************************************************************************)
(* The chain of stations.                                                  *)
(***************************************************************************)

\* The interceptor and the handler are the last two stations, and only they are
\* not in the chain.
LEMMA PipelineIs ==
  ASSUME chain \in Wirings
  PROVE  /\ Len(chain) \in Nat
         /\ Over = Len(chain) + 3
         /\ DOMAIN Pipeline = 1..(Len(chain) + 2)
         /\ DOMAIN chain = 1..Len(chain)
         /\ \A i \in 1..Len(chain) : Pipeline[i] = chain[i] /\ chain[i] \in Stations
         /\ Pipeline[Len(chain) + 1] = "interceptor"
         /\ Pipeline[Len(chain) + 2] = "handler"
<1>1. chain \in Seq(Stations)
  BY RequestLoggingAssumption
<1>2. QED
  BY <1>1 DEF Pipeline, Over

-----------------------------------------------------------------------------
(***************************************************************************)
(* Type correctness.                                                       *)
(***************************************************************************)

\* TypeOK in parts: the context, the request's walk, the request, the response,
\* what is armed to log, and the lines with their histories.
ContextType ==
  /\ stores \in [Scopes -> [Fields -> Values]]
  /\ ctx \in [Requests -> Scopes \cup {None}]

WalkType ==
  /\ chain \in Wirings
  /\ shape \in [Requests -> Shapes]
  /\ at \in [Requests -> 0..Over]
  /\ turn \in Requests \cup {None}

Reqs ==
  [recorderActive : BOOLEAN, correlationOpened : BOOLEAN, ownRequestId : Requests \cup {None},
   recordedError : Errors \cup {None}, user : Requests \cup {None}]

ReqType == req \in [Requests -> Reqs]

Responses ==
  [statusCode : 200..599, requestIdHeader : Requests \cup {None},
   ended : BOOLEAN, finished : BOOLEAN, closed : BOOLEAN]

ResType == res \in [Requests -> Responses]

ArmedType ==
  /\ listeners \in [Requests -> Seq(Scopes \cup {None})]
  /\ watching \in [Requests -> {"nothing", "errors", "all"}]
  /\ values \in [Requests -> 0..MaxValues]
  /\ lastIndex \in {0, 1}

LoggedType ==
  /\ lines \in [Requests -> Seq(LineType)]
  /\ claimed \in [Requests -> [Fields -> Values]]
  /\ thrown \in [Requests -> Errors \cup {None}]

Types == ContextType /\ WalkType /\ ReqType /\ ResType /\ ArmedType /\ LoggedType

LEMMA TypesAre == TypeOK <=> Types
  BY DEF TypeOK, Types, ContextType, WalkType, ReqType, ResType, ArmedType, LoggedType,
         Reqs, Responses

LEMMA ScopesAre ==
  ASSUME NEW r \in Requests
  PROVE  RequestScope(r) \in Scopes /\ NestedScope(r) \in Scopes /\ Base \in Scopes \cup {None}
  BY DEF RequestScope, NestedScope, Scopes, Base

LEMMA GetStoreType ==
  ASSUME ContextType, NEW scope \in Scopes \cup {None}
  PROVE  GetStore(scope) \in [Fields -> Values]
  BY DEF ContextType, GetStore, NoFields, Values

LEMMA MergedType ==
  ASSUME NEW base \in [Fields -> Values], NEW fields \in [Fields -> Values]
  PROVE  Merged(base, fields) \in [Fields -> Values]
  BY DEF Merged

LEMMA RunType ==
  ASSUME ContextType, NEW r \in Requests, NEW scope \in Scopes,
         NEW context \in [Fields -> Values], Run(r, scope, context)
  PROVE  ContextType'
  BY DEF ContextType, Run

LEMMA SetType ==
  ASSUME ContextType, NEW r \in Requests, NEW fields \in [Fields -> Values], Set(r, fields)
  PROVE  ContextType'
<1>1. ctx[r] \in Scopes
  BY DEF ContextType, Set, InScope
<1>2. Merged(stores[ctx[r]], fields) \in [Fields -> Values]
  BY <1>1, MergedType DEF ContextType
<1>3. QED
  BY <1>1, <1>2 DEF ContextType, Set

LEMMA LineTyped ==
  ASSUME Types, NEW r \in Requests, NEW scope \in Scopes \cup {None}, NEW key \in Keys,
         NEW error \in Errors \cup {None}
  PROVE  Line(r, key, scope, error) \in LineType
<1>1. GetStore(scope) \in [Fields -> Values]
  BY GetStoreType DEF Types
<1>2. req[r].user \in Values
  BY DEF Types, ReqType, Reqs, Values
<1>3. QED
  BY <1>1, <1>2 DEF Line, LineType, Fields

LEMMA LinesType ==
  ASSUME LoggedType, NEW r \in Requests, NEW more \in Seq(LineType), LogLines(r, more),
         UNCHANGED claimed, thrown' \in [Requests -> Errors \cup {None}]
  PROVE  LoggedType'
<1>1. lines[r] \o more \in Seq(LineType)
  BY DEF LoggedType
<1>2. lines' \in [Requests -> Seq(LineType)]
  BY <1>1 DEF LoggedType, LogLines
<1>3. QED
  BY <1>2 DEF LoggedType

LEMMA FilterLinesType ==
  ASSUME Types, NEW r \in Requests, NEW error \in Errors
  PROVE  FilterLines(r, error) \in Seq(LineType)
<1>1. Line(r, "EXCEPTION", ctx[r], error) \in LineType
  BY LineTyped DEF Types, ContextType, Keys
<1>2. QED
  BY <1>1 DEF FilterLines

LEMMA SuccessLinesType ==
  ASSUME Types, NEW r \in Requests, NEW status
  PROVE  SuccessLines(r, status) \in Seq(LineType)
<1>1. "SUCCESS" \in Keys /\ "REDIRECT" \in Keys /\ ctx[r] \in Scopes \cup {None}
  BY DEF Keys, Types, ContextType
<1>2. Line(r, "SUCCESS", ctx[r], None) \in LineType /\ Line(r, "REDIRECT", ctx[r], None) \in LineType
  BY <1>1, LineTyped
<1>3. QED
  BY <1>2 DEF SuccessLines

LEMMA ErrorLinesType ==
  ASSUME Types, NEW r \in Requests, NEW error \in Errors
  PROVE  ErrorLines(r, error) \in Seq(LineType)
<1>1. "CLIENT_ERROR" \in Keys /\ "SERVER_ERROR" \in Keys /\ ctx[r] \in Scopes \cup {None}
  BY DEF Keys, Types, ContextType
<1>2. /\ Line(r, "CLIENT_ERROR", ctx[r], error) \in LineType
      /\ Line(r, "SERVER_ERROR", ctx[r], error) \in LineType
  BY <1>1, LineTyped
<1>3. QED
  BY <1>2 DEF ErrorLines

LEMMA AnswerType ==
  ASSUME ResType, NEW r \in Requests, NEW status \in 200..599, Answers(r, status)
  PROVE  /\ ResType'
         /\ res'[r].closed = res[r].closed
         /\ res'[r].finished = res[r].finished
         /\ \A q \in Requests \ {r} : res'[q] = res[q]
<1> DEFINE answer == [[res[r] EXCEPT !.statusCode = status] EXCEPT !.ended = TRUE]
<1>1. res[r] \in Responses
  BY DEF ResType
<1>2. answer \in Responses /\ answer.closed = res[r].closed /\ answer.finished = res[r].finished
  BY <1>1 DEF Responses
<1>3. res' = [res EXCEPT ![r] = answer]
  BY DEF ResType, Answers
<1>4. QED
  BY <1>2, <1>3 DEF ResType

LEMMA StatusType == \A error \in Errors : StatusOf(error) \in 200..599
  BY DEF StatusOf, Errors

LEMMA StartLineType ==
  ASSUME Types, NEW r \in Requests
  PROVE  <<Line(r, "START", ctx[r], None)>> \in Seq(LineType)
<1>1. "START" \in Keys /\ ctx[r] \in Scopes \cup {None}
  BY DEF Keys, Types, ContextType
<1>2. Line(r, "START", ctx[r], None) \in LineType
  BY <1>1, LineTyped
<1>3. QED
  BY <1>2

\* A station a request runs or waits at is one before the end.
LEMMA StationIsInside ==
  ASSUME WalkType, NEW r \in Requests, NEW station, Runs(r, station) \/ Waits(r, station)
  PROVE  at[r] \in 1..(Over - 1) /\ Pipeline[at[r]] = station
  BY PipelineIs DEF WalkType, Runs, Waits

LEMMA MoveType ==
  ASSUME WalkType, NEW r \in Requests, at[r] \in 0..(Over - 1), UNCHANGED inputs,
         Continues(r) \/ Ends(r)
  PROVE  WalkType'
<1>1. Over' = Over /\ Over \in Nat \ {0} /\ chain' = chain /\ shape' = shape
  BY PipelineIs DEF WalkType, Over, Pipeline, inputs
<1>2. PICK next \in 0..Over : at' = [at EXCEPT ![r] = next]
  BY <1>1 DEF WalkType, Continues, Ends
<1>3. turn' \in Requests \cup {None}
  BY DEF Continues, Ends
<1>4. at' \in [Requests -> 0..Over]
  BY <1>2 DEF WalkType
<1>5. QED
  BY <1>1, <1>3, <1>4 DEF WalkType

LEMMA StayType ==
  ASSUME WalkType, UNCHANGED inputs, UNCHANGED at, turn' \in Requests \cup {None}
  PROVE  WalkType'
  BY DEF WalkType, inputs, Over, Pipeline

\* What a step leaves alone keeps its type.
LEMMA Kept ==
  ASSUME Types
  PROVE  /\ UNCHANGED contextVars => ContextType'
         /\ UNCHANGED req => ReqType'
         /\ UNCHANGED res => ResType'
         /\ UNCHANGED <<listeners, watching, values, lastIndex>> => ArmedType'
         /\ UNCHANGED <<lines, claimed, thrown>> => LoggedType'
  BY DEF Types, ContextType, contextVars, ReqType, ResType, ArmedType, LoggedType

LEMMA RequestIdFields ==
  ASSUME Types, NEW r \in Requests
  PROVE  /\ ResolveRequestId(r) \in Requests \cup {None}
         /\ RequestContext(r) \in [Fields -> Values]
         /\ AdoptedFields(r) \in [Fields -> Values]
<1>1. ResolveRequestId(r) \in Requests \cup {None} /\ ResolveTenantId(r) \in Values
  BY DEF ResolveRequestId, ResolveTenantId, Values
<1>2. GetStore(ctx[r]) \in [Fields -> Values]
  BY GetStoreType DEF Types, ContextType
<1>3. InheritableContext(r) \in [Fields -> Values]
  BY <1>2 DEF InheritableContext, Values
<1>4. RequestContext(r) \in [Fields -> Values]
  <2> DEFINE inherited == InheritableContext(r)
             id     == IF ResolveRequestId(r) # None THEN r ELSE inherited.requestId
             tenant == IF inherited.tenantId = None THEN ResolveTenantId(r)
                                                    ELSE inherited.tenantId
  <2>1. id \in Values /\ tenant \in Values
    BY <1>1, <1>3 DEF Values, Fields
  <2>2. RequestContext(r) = [[inherited EXCEPT !["requestId"] = id] EXCEPT !["tenantId"] = tenant]
    BY <1>3 DEF RequestContext, Fields
  <2>3. QED
    BY <1>3, <2>1, <2>2
<1>5. AdoptedFields(r) \in [Fields -> Values]
  <2> DEFINE tenant == IF Get(r, "tenantId") = None THEN ResolveTenantId(r) ELSE None
  <2>1. req[r].ownRequestId \in Values /\ tenant \in Values
    BY <1>1 DEF Types, ReqType, Reqs, Values
  <2>2. AdoptedFields(r) = [[NoFields EXCEPT !["requestId"] = req[r].ownRequestId]
                              EXCEPT !["tenantId"] = tenant]
    BY DEF AdoptedFields, NoFields, Fields
  <2>3. QED
    BY <2>1, <2>2 DEF NoFields, Values
<1>6. QED
  BY <1>1, <1>4, <1>5

LEMMA RequestIdType ==
  ASSUME Types, NEW r \in Requests, RequestId(r)
  PROVE  Types'
<1>1. WalkType'
  BY StationIsInside, MoveType
  DEF RequestId, RequestIdOpens, RequestIdAdopts, AdoptionThrows, RequestIdStandsDown, Types
<1>2. ArmedType'
  BY Kept DEF RequestId, RequestIdOpens, RequestIdAdopts, AdoptionThrows, RequestIdStandsDown
<1>3. ContextType'
  BY Kept, RequestIdFields, RunType, SetType, ScopesAre
  DEF RequestId, RequestIdOpens, RequestIdAdopts, AdoptionThrows, RequestIdStandsDown, Types
<1>4. ReqType'
  <2>1. CASE RequestIdOpens(r)
    <3> DEFINE opened == [[req[r] EXCEPT !.correlationOpened = TRUE]
                            EXCEPT !.ownRequestId = ResolveRequestId(r)]
    <3>1. opened \in Reqs
      BY RequestIdFields DEF Types, ReqType, Reqs
    <3>2. req' = [req EXCEPT ![r] = opened]
      BY <2>1 DEF RequestIdOpens, Types, ReqType
    <3>3. QED
      BY <3>1, <3>2 DEF Types, ReqType
  <2>2. CASE RequestIdAdopts(r) \/ AdoptionThrows(r) \/ RequestIdStandsDown(r)
    BY <2>2, Kept DEF RequestIdAdopts, AdoptionThrows, RequestIdStandsDown
  <2>3. QED
    BY <2>1, <2>2 DEF RequestId
<1>5. ResType'
  <2>1. ASSUME NEW id \in Requests \cup {None}, res' = [res EXCEPT ![r].requestIdHeader = id]
        PROVE  ResType'
    BY <2>1 DEF Types, ResType, Responses
  <2>2. CASE RequestIdOpens(r)
    BY <2>1, <2>2, RequestIdFields DEF RequestIdOpens
  <2>3. CASE RequestIdAdopts(r)
    BY <2>1, <2>3 DEF RequestIdAdopts, Types, ReqType, Reqs
  <2>4. CASE AdoptionThrows(r)
    BY <2>4, AnswerType, StatusType DEF AdoptionThrows, Types, Errors
  <2>5. CASE RequestIdStandsDown(r)
    BY <2>5, Kept DEF RequestIdStandsDown
  <2>6. QED
    BY <2>2, <2>3, <2>4, <2>5 DEF RequestId
<1>6. LoggedType'
  <2>1. CASE AdoptionThrows(r)
    BY <2>1, LinesType, FilterLinesType DEF AdoptionThrows, Types, Errors, LoggedType
  <2>2. CASE RequestIdOpens(r) \/ RequestIdAdopts(r) \/ RequestIdStandsDown(r)
    BY <2>2, Kept DEF RequestIdOpens, RequestIdAdopts, RequestIdStandsDown
  <2>3. QED
    BY <2>1, <2>2 DEF RequestId
<1>7. QED
  BY <1>1, <1>2, <1>3, <1>4, <1>5, <1>6 DEF Types

LEMMA AccessLogType ==
  ASSUME Types, NEW r \in Requests, AccessLog(r)
  PROVE  Types'
<1>1. WalkType'
  BY StationIsInside, MoveType
  DEF AccessLog, AccessLogStandsDown, AccessLogExcludes, AccessLogRecords, Types
<1>2. ContextType' /\ ResType'
  BY Kept DEF AccessLog, AccessLogStandsDown, AccessLogExcludes, AccessLogRecords
<1>3. CASE AccessLogStandsDown(r)
  BY <1>1, <1>3, Kept DEF AccessLogStandsDown, Types
<1>4. CASE AccessLogExcludes(r)
  <2>1. ArmedType'
    BY <1>4 DEF AccessLogExcludes, PositionAfterTest, Types, ArmedType
  <2>2. QED
    BY <1>1, <1>4, <2>1, Kept DEF AccessLogExcludes, Types
<1>5. CASE AccessLogRecords(r)
  <2>1. ReqType'
    BY <1>5 DEF AccessLogRecords, Types, ReqType, Reqs
  <2>2. Append(listeners[r], ctx[r]) \in Seq(Scopes \cup {None})
    BY DEF Types, ArmedType, ContextType
  <2>3. ArmedType'
    BY <1>5, <2>2 DEF AccessLogRecords, PositionAfterTest, Types, ArmedType
  <2>4. LoggedType'
    BY <1>5, StartLineType, LinesType DEF AccessLogRecords, Types, LoggedType
  <2>5. QED
    BY <1>1, <1>2, <2>1, <2>3, <2>4 DEF Types
<1>6. QED
  BY <1>3, <1>4, <1>5 DEF AccessLog

LEMMA InterceptorType ==
  ASSUME Types, NEW r \in Requests, Interceptor(r)
  PROVE  Types'
<1>1. WalkType'
  BY StationIsInside, MoveType
  DEF Interceptor, InterceptorStandsAside, InterceptorRecordsOnly, InterceptorLogs, Types
<1>2. ContextType' /\ ReqType' /\ ResType'
  BY Kept DEF Interceptor, InterceptorStandsAside, InterceptorRecordsOnly, InterceptorLogs
<1>3. ArmedType'
  BY DEF Interceptor, InterceptorStandsAside, InterceptorRecordsOnly, InterceptorLogs,
         PositionAfterTest, Types, ArmedType
<1>4. LoggedType'
  <2>1. CASE InterceptorLogs(r)
    BY <2>1, StartLineType, LinesType DEF InterceptorLogs, Types, LoggedType
  <2>2. CASE InterceptorStandsAside(r) \/ InterceptorRecordsOnly(r)
    BY <2>2, Kept DEF InterceptorStandsAside, InterceptorRecordsOnly
  <2>3. QED
    BY <2>1, <2>2 DEF Interceptor
<1>5. QED
  BY <1>1, <1>2, <1>3, <1>4 DEF Types

LEMMA TerminalType ==
  ASSUME Types, NEW r \in Requests, NEW scope \in Scopes \cup {None}, NEW finished
  PROVE  Terminal(r, scope, finished) \in LineType
<1>1. req[r].recordedError \in Errors \cup {None}
  BY DEF Types, ReqType, Reqs
<1>2. \A key \in Keys : /\ Line(r, key, scope, None) \in LineType
                        /\ Line(r, key, scope, req[r].recordedError) \in LineType
  BY <1>1, LineTyped
<1>3. QED
  BY <1>2 DEF Terminal, Keys

LEMMA ResponseOf == ASSUME Types, NEW r \in Requests PROVE res[r] \in Responses
  BY DEF Types, ResType

\* The lines the listeners log when the connection closes.
ClosingLines(r, live) ==
  [i \in DOMAIN listeners[r] |->
     Terminal(r, EmissionScope(live, listeners[r][i]), res[r].finished)]

LEMMA ClosingLinesType ==
  ASSUME Types, NEW r \in Requests, NEW live \in Scopes \cup {None}
  PROVE  /\ ClosingLines(r, live) \in Seq(LineType)
         /\ Len(ClosingLines(r, live)) = Len(listeners[r])
<1>1. listeners[r] \in Seq(Scopes \cup {None})
  BY DEF Types, ArmedType
<1>2. \A i \in DOMAIN listeners[r] : EmissionScope(live, listeners[r][i]) \in Scopes \cup {None}
  BY <1>1 DEF EmissionScope
<1>3. \A i \in DOMAIN listeners[r] : ClosingLines(r, live)[i] \in LineType
  BY <1>2, TerminalType DEF ClosingLines
<1>4. DOMAIN listeners[r] = 1..Len(listeners[r]) /\ Len(listeners[r]) \in Nat
  BY <1>1
<1>5. ClosingLines(r, live) \in [1..Len(listeners[r]) -> LineType]
  BY <1>3, <1>4 DEF ClosingLines
<1>6. QED
  BY <1>4, <1>5

LEMMA ClosesType ==
  ASSUME Types, NEW r \in Requests, NEW live \in Scopes \cup {None}, Closes(r, live)
  PROVE  Types'
<1>1. ResType'
  <2>1. [res[r] EXCEPT !.closed = TRUE] \in Responses
    <3>1. res[r] \in Responses
      BY ResponseOf
    <3>2. QED
      BY <3>1 DEF Responses
  <2>2. res' = [res EXCEPT ![r] = [res[r] EXCEPT !.closed = TRUE]]
    BY DEF Closes, Types, ResType
  <2>3. QED
    BY <2>1, <2>2 DEF Types, ResType
<1>2. LogLines(r, ClosingLines(r, live))
  BY DEF Closes, ClosingLines
<1>3. LoggedType'
  BY <1>2, ClosingLinesType, LinesType DEF Closes, Types, LoggedType
<1>4. WalkType'
  BY StayType DEF Closes, Types, WalkType
<1>5. QED
  BY <1>1, <1>3, <1>4, Kept DEF Closes, Types

LEMMA ConnectionType ==
  ASSUME Types, NEW r \in Requests, Connection(r)
  PROVE  Types'
<1>1. CASE Arrives(r)
  <2>1. at[r] \in 0..(Over - 1)
    BY <1>1, PipelineIs DEF Arrives, Types, WalkType
  <2>2. WalkType'
    BY <1>1, <2>1, MoveType DEF Arrives, Types
  <2>3. QED
    BY <1>1, <2>2, Kept DEF Arrives, Types
<1>2. CASE Finishes(r)
  <2>1. ResType'
    <3>1. [res[r] EXCEPT !.finished = TRUE] \in Responses
      <4>1. res[r] \in Responses
        BY ResponseOf
      <4>2. QED
        BY <4>1 DEF Responses
    <3>2. res' = [res EXCEPT ![r] = [res[r] EXCEPT !.finished = TRUE]]
      BY <1>2 DEF Finishes, Types, ResType
    <3>3. QED
      BY <3>1, <3>2 DEF Types, ResType
  <2>2. WalkType'
    BY <1>2, StayType DEF Finishes, Types, WalkType
  <2>3. QED
    BY <1>2, <2>1, <2>2, Kept DEF Finishes, Types
<1>3. CASE ClosesDelivered(r) \/ Aborts(r)
  BY <1>3, ClosesType, ScopesAre DEF ClosesDelivered, Aborts, Types, ContextType
<1>4. QED
  BY <1>1, <1>2, <1>3 DEF Connection

LEMMA ApplicationType ==
  ASSUME Types, NEW r \in Requests, Application(r)
  PROVE  Types'
<1>1. WalkType'
  <2>1. CASE \/ Passes(r) \/ MiddlewareSets(r) \/ MiddlewareLosesContext(r) \/ Authenticates(r)
             \/ Rejects(r) \/ HandlerCompletes(r) \/ HandlerThrows(r)
    <3>1. \E station : Waits(r, station)
      BY <2>1 DEF Passes, MiddlewareSets, SetsContext, MiddlewareLosesContext, Authenticates,
         Rejects, HandlerCompletes, HandlerThrows
    <3>2. UNCHANGED inputs /\ (Continues(r) \/ Ends(r))
      BY <2>1 DEF Passes, MiddlewareSets, SetsContext, MiddlewareLosesContext, Authenticates,
         Rejects, HandlerCompletes, HandlerThrows
    <3>3. at[r] \in 0..(Over - 1)
      BY <3>1, StationIsInside DEF Types
    <3>4. QED
      BY <3>2, <3>3, MoveType DEF Types
  <2>2. CASE HandlerLogs(r) \/ HandlerNests(r) \/ HandlerEmits(r)
    BY <2>2, StayType DEF HandlerLogs, HandlerNests, HandlerEmits, requestVars, Types, WalkType
  <2>3. QED
    BY <2>1, <2>2 DEF Application
<1>2. CASE Passes(r)
  BY <1>1, <1>2, Kept DEF Passes, Types
<1>3. CASE MiddlewareSets(r)
  <2>1. PICK f \in Sets : SetsContext(r, [NoFields EXCEPT ![f] = IF f = "userId" THEN r ELSE App])
    BY <1>3 DEF MiddlewareSets
  <2> DEFINE fields == [NoFields EXCEPT ![f] = IF f = "userId" THEN r ELSE App]
  <2>2. fields \in [Fields -> Values]
    BY DEF NoFields, Values
  <2>3. ContextType'
    BY <2>1, <2>2, SetType DEF SetsContext, Types
  <2>4. LoggedType'
    BY <2>1, <2>2, MergedType DEF SetsContext, Types, LoggedType
  <2>5. QED
    BY <1>1, <2>1, <2>3, <2>4, Kept DEF SetsContext, Types
<1>4. CASE MiddlewareLosesContext(r)
  <2>1. ContextType'
    BY <1>4, ScopesAre DEF MiddlewareLosesContext, Types, ContextType
  <2>2. QED
    BY <1>1, <1>4, <2>1, Kept DEF MiddlewareLosesContext, Types
<1>5. CASE Authenticates(r)
  <2>1. ReqType'
    BY <1>5 DEF Authenticates, Types, ReqType, Reqs
  <2>2. QED
    BY <1>1, <1>5, <2>1, Kept DEF Authenticates, Types
<1>6. CASE Rejects(r)
  <2>1. LoggedType'
    BY <1>6, LinesType, FilterLinesType DEF Rejects, Types, Errors, LoggedType
  <2>2. ResType'
    BY <1>6, AnswerType, StatusType DEF Rejects, Types, Errors
  <2>3. QED
    BY <1>1, <1>6, <2>1, <2>2, Kept DEF Rejects, Types
<1>7. CASE HandlerLogs(r)
  <2>1. "APP" \in Keys /\ ctx[r] \in Scopes \cup {None}
    BY DEF Keys, Types, ContextType
  <2>2. <<Line(r, "APP", ctx[r], None)>> \in Seq(LineType)
    BY <2>1, LineTyped
  <2>3. LoggedType'
    BY <1>7, <2>2, LinesType DEF HandlerLogs, Types, LoggedType
  <2>4. QED
    BY <1>1, <1>7, <2>3, Kept DEF HandlerLogs, Types
<1>8. CASE HandlerNests(r)
  <2>1. [NoFields EXCEPT !.userId = r] \in [Fields -> Values]
    BY DEF NoFields, Values
  <2>2. GetStore(ctx[r]) \in [Fields -> Values]
    BY GetStoreType DEF Types, ContextType
  <2>3. ContextType'
    BY <1>8, <2>1, <2>2, MergedType, RunType, ScopesAre DEF HandlerNests, RunMerged, Types
  <2>4. QED
    BY <1>1, <1>8, <2>3, Kept DEF HandlerNests, requestVars, Types
<1>9. CASE HandlerEmits(r)
  <2>1. PICK status \in 200..599 :
          /\ res' = [res EXCEPT ![r].statusCode = status]
          /\ LogLines(r, SuccessLines(r, status))
    <3>1. res[r].statusCode \in 200..599
      BY ResponseOf DEF Responses
    <3>2. QED
      BY <1>9, <3>1, RequestLoggingAssumption DEF HandlerEmits
  <2>2. ResType'
    <3>1. [res[r] EXCEPT !.statusCode = status] \in Responses
      BY ResponseOf DEF Responses
    <3>2. QED
      BY <2>1, <3>1 DEF Types, ResType
  <2>3. SuccessLines(r, status) \in Seq(LineType)
    BY SuccessLinesType DEF Types
  <2>4. LoggedType'
    BY <1>9, <2>1, <2>3, LinesType DEF HandlerEmits, Types, LoggedType
  <2>5. ArmedType'
    <3>1. values[r] \in 0..MaxValues /\ values[r] < MaxValues /\ MaxValues \in Nat
      BY <1>9, RequestLoggingAssumption DEF HandlerEmits, Types, ArmedType
    <3>2. values' \in [Requests -> 0..MaxValues]
      BY <1>9, <3>1 DEF HandlerEmits, Types, ArmedType
    <3>3. QED
      BY <1>9, <3>2 DEF HandlerEmits, Types, ArmedType
  <2>6. QED
    BY <1>1, <1>9, <2>2, <2>4, <2>5, Kept DEF HandlerEmits, Types
<1>10. CASE HandlerCompletes(r)
  <2>1. ResType'
    BY <1>10, AnswerType DEF HandlerCompletes, Types, ResType, Responses
  <2>2. QED
    BY <1>1, <1>10, <2>1, Kept DEF HandlerCompletes, Types
<1>11. CASE HandlerThrows(r)
  <2>1. PICK error \in Errors :
          /\ LogLines(r, ErrorLines(r, error) \o FilterLines(r, error))
          /\ req' = IF watching[r] = "errors"
                    THEN [req EXCEPT ![r].recordedError = error]
                    ELSE req
          /\ Answers(r, StatusOf(error))
          /\ thrown' = [thrown EXCEPT ![r] = error]
    BY <1>11, RequestLoggingAssumption DEF HandlerThrows
  <2>2. ReqType'
    BY <2>1 DEF Types, ReqType, Reqs
  <2>3. ResType'
    BY <2>1, AnswerType, StatusType DEF Types
  <2>4. ErrorLines(r, error) \o FilterLines(r, error) \in Seq(LineType)
    BY ErrorLinesType, FilterLinesType
  <2>5. thrown' \in [Requests -> Errors \cup {None}]
    BY <2>1 DEF Types, LoggedType
  <2>6. LoggedType'
    BY <1>11, <2>1, <2>4, <2>5, LinesType DEF HandlerThrows, Types
  <2>7. QED
    BY <1>1, <1>11, <2>2, <2>3, <2>6, Kept DEF HandlerThrows, Types
<1>12. QED
  BY <1>2, <1>3, <1>4, <1>5, <1>6, <1>7, <1>8, <1>9, <1>10, <1>11 DEF Application

LEMMA TypeInit == Init => Types
<1> SUFFICES ASSUME Init PROVE Types
  OBVIOUS
<1>2. ContextType
  <2>1. [f \in Fields |-> Outer] \in [Fields -> Values] /\ NoFields \in [Fields -> Values]
    BY DEF NoFields, Values
  <2>2. Base \in Scopes \cup {None}
    BY DEF Base, Scopes
  <2>3. QED
    BY <2>1, <2>2 DEF Init, ContextType
<1>3. WalkType
  <2>1. 0 \in 0..Over /\ chain \in Wirings
    BY PipelineIs DEF Init
  <2>2. QED
    BY <2>1 DEF Init, WalkType
<1>4. ReqType
  <2>1. NewRequest \in Reqs
    BY DEF NewRequest, Reqs
  <2>2. QED
    BY <2>1 DEF Init, ReqType
<1>5. ResType
  <2>1. NewResponse \in Responses
    BY DEF NewResponse, Responses
  <2>2. QED
    BY <2>1 DEF Init, ResType
<1>6. ArmedType
  <2>1. 0 \in 0..MaxValues
    BY RequestLoggingAssumption
  <2>2. QED
    BY <2>1 DEF Init, ArmedType
<1>7. LoggedType
  <2>1. NoFields \in [Fields -> Values]
    BY DEF NoFields, Values
  <2>2. QED
    BY <2>1 DEF Init, LoggedType
<1>8. QED
  BY <1>2, <1>3, <1>4, <1>5, <1>6, <1>7 DEF Types

LEMMA TypeStep == Types /\ [Next]_vars => Types'
<1> SUFFICES ASSUME Types, [Next]_vars PROVE Types'
  OBVIOUS
<1>2. CASE UNCHANGED vars
  <2>1. WalkType'
    BY <1>2, StayType DEF vars, requestVars, Types, WalkType
  <2>2. QED
    BY <1>2, <2>1, Kept DEF vars, requestVars, Types
<1>3. ASSUME NEW r \in Requests, Yields(r)
      PROVE  Types'
  <2>1. WalkType'
    BY <1>3, StayType DEF Yields, Types
  <2>2. QED
    BY <1>3, <2>1, Kept DEF Yields, Types
<1>4. QED
  BY <1>2, <1>3, RequestIdType, AccessLogType, InterceptorType, ApplicationType,
     ConnectionType DEF Next, Settled

\* Every variable keeps its type.
THEOREM TypeCorrect == Spec => []TypeOK
<1>1. Types => TypeOK
  BY TypesAre
<1>2. QED
  BY <1>1, TypeInit, TypeStep, PTL DEF Spec

-----------------------------------------------------------------------------
(***************************************************************************)
(* Which lines a request gets, and what they say of its outcome, whatever  *)
(* the application and the clients do and, where a theorem does not say    *)
(* otherwise, for any wiring.                                              *)
(***************************************************************************)

\* A step of one request.
Step(r) ==
  \/ RequestId(r)
  \/ AccessLog(r)
  \/ Interceptor(r)
  \/ Yields(r)
  \/ Application(r)
  \/ Connection(r)

-----------------------------------------------------------------------------
(***************************************************************************)
(* Steps of another request.                                               *)
(***************************************************************************)

SameRequest(q) ==
  /\ ctx'[q] = ctx[q]
  /\ at'[q] = at[q]
  /\ req'[q] = req[q]
  /\ res'[q] = res[q]
  /\ listeners'[q] = listeners[q]
  /\ watching'[q] = watching[q]
  /\ values'[q] = values[q]
  /\ lines'[q] = lines[q]
  /\ thrown'[q] = thrown[q]

LEMMA OthersKept ==
  ASSUME Types, NEW r \in Requests, NEW q \in Requests \ {r}, Step(r)
  PROVE  SameRequest(q) /\ UNCHANGED inputs
<1> USE DEF SameRequest, Types, ContextType, WalkType, ReqType, ResType, ArmedType, LoggedType
<1>1. CASE RequestId(r)
  BY <1>1 DEF RequestId, RequestIdOpens, RequestIdAdopts, AdoptionThrows, RequestIdStandsDown,
     Run, Set, Continues, Ends, LogLines, Answers, contextVars
<1>2. CASE AccessLog(r)
  BY <1>2 DEF AccessLog, AccessLogStandsDown, AccessLogExcludes, AccessLogRecords, Continues,
     LogLines, contextVars
<1>3. CASE Interceptor(r)
  BY <1>3 DEF Interceptor, InterceptorStandsAside, InterceptorRecordsOnly, InterceptorLogs,
     Continues, LogLines, contextVars
<1>4. CASE Yields(r)
  BY <1>4 DEF Yields, contextVars
<1>5. CASE \/ Passes(r) \/ MiddlewareSets(r) \/ MiddlewareLosesContext(r) \/ Authenticates(r)
           \/ Rejects(r)
  BY <1>5 DEF Passes, MiddlewareSets, SetsContext, MiddlewareLosesContext, Authenticates,
     Rejects, Set, Continues, Ends, LogLines, Answers, contextVars
<1>6. CASE \/ HandlerLogs(r) \/ HandlerNests(r) \/ HandlerEmits(r) \/ HandlerCompletes(r)
           \/ HandlerThrows(r)
  <2>1. CASE HandlerLogs(r) \/ HandlerCompletes(r)
    BY <2>1 DEF HandlerLogs, HandlerCompletes, Ends, LogLines, Answers, contextVars
  <2>2. CASE HandlerNests(r)
    BY <2>2 DEF HandlerNests, RunMerged, Run, requestVars
  <2>3. CASE HandlerEmits(r)
    BY <2>3 DEF HandlerEmits, LogLines, contextVars
  <2>4. CASE HandlerThrows(r)
    <3>1. UNCHANGED <<contextVars, inputs, listeners, watching, values>> /\ Ends(r)
      BY <2>4 DEF HandlerThrows
    <3>2. req'[q] = req[q] /\ res'[q] = res[q] /\ lines'[q] = lines[q] /\ thrown'[q] = thrown[q]
      BY <2>4 DEF HandlerThrows, LogLines, Answers
    <3>3. QED
      BY <3>1, <3>2 DEF Ends, contextVars
  <2>5. QED
    BY <1>6, <2>1, <2>2, <2>3, <2>4
<1>7. CASE Connection(r)
  BY <1>7 DEF Connection, Arrives, Finishes, ClosesDelivered, Aborts, Closes, Continues,
     LogLines, contextVars
<1>8. QED
  BY <1>1, <1>2, <1>3, <1>4, <1>5, <1>6, <1>7 DEF Step, Application

\* A request only steps with the turn, or when nobody has it.
LEMMA HasTurn ==
  ASSUME NEW r \in Requests, Step(r)
  PROVE  turn \in {r, None}
  BY DEF Step, RequestId, RequestIdOpens, RequestIdAdopts, AdoptionThrows, RequestIdStandsDown,
         AccessLog, AccessLogStandsDown, AccessLogExcludes, AccessLogRecords, Interceptor,
         InterceptorStandsAside, InterceptorRecordsOnly, InterceptorLogs, Yields, Application,
         Passes, MiddlewareSets, SetsContext, MiddlewareLosesContext, Authenticates, Rejects,
         HandlerLogs, HandlerNests, HandlerEmits, HandlerCompletes, HandlerThrows, Connection,
         Arrives, Finishes, ClosesDelivered, Aborts, Runs, Waits

-----------------------------------------------------------------------------
(***************************************************************************)
(* What a step logs.  Lines that are neither a START nor a terminal one do *)
(* not matter here.                                                        *)
(***************************************************************************)
StartKeys   == {"START"}
OutcomeKeys == Terminals \ {"ABORTED"}
ErrorKeys   == {"CLIENT_ERROR", "SERVER_ERROR"}

Aside == {"EXCEPTION", "APP"}

KeepsLines(r) ==
  \A i \in DOMAIN lines[r] : i \in DOMAIN lines'[r] /\ lines'[r][i] = lines[r][i]

AddsNothing(r) ==
  /\ KeepsLines(r)
  /\ \A i \in DOMAIN lines'[r] \ DOMAIN lines[r] : lines'[r][i].key \in Aside

AddsLine(r, n, line) ==
  /\ KeepsLines(r)
  /\ n \in DOMAIN lines'[r] /\ lines'[r][n] = line
  /\ \A i \in DOMAIN lines[r] : i < n
  /\ \A i \in DOMAIN lines'[r] \ (DOMAIN lines[r] \cup {n}) : lines'[r][i].key \in Aside

LEMMA LoggedAfter ==
  ASSUME NEW r \in Requests, NEW keys, keys \cap Aside = {}
  PROVE  /\ AddsNothing(r) => Logged(r, keys)' = Logged(r, keys)
         /\ \A n, line : AddsLine(r, n, line) =>
              /\ Logged(r, keys)' = Logged(r, keys) \cup (IF line.key \in keys THEN {n} ELSE {})
              /\ \A i \in Logged(r, keys) : i < n
  BY DEF AddsNothing, AddsLine, KeepsLines, Logged

LEMMA AddsAside ==
  ASSUME Types, NEW r \in Requests, NEW more \in Seq(LineType), LogLines(r, more),
         \A i \in DOMAIN more : more[i].key \in Aside
  PROVE  AddsNothing(r)
<1>1. lines'[r] = lines[r] \o more /\ lines[r] \in Seq(LineType)
  BY DEF Types, LoggedType, LogLines
<1>2. QED
  BY <1>1 DEF AddsNothing, KeepsLines

LEMMA AddsOne ==
  ASSUME Types, NEW r \in Requests, NEW line \in LineType, NEW more \in Seq(LineType),
         LogLines(r, <<line>> \o more), \A i \in DOMAIN more : more[i].key \in Aside
  PROVE  AddsLine(r, Len(lines[r]) + 1, line)
<1>1. PICK tail \in Seq(LineType) : tail = <<line>> \o more
  <2>1. <<line>> \in Seq(LineType)
    OBVIOUS
  <2>2. <<line>> \o more \in Seq(LineType)
    BY <2>1
  <2>3. QED
    BY <2>2
<1>2. Len(tail) = Len(more) + 1 /\ tail[1] = line
  BY <1>1
<1>3. \A i \in 2..Len(tail) : tail[i].key \in Aside
  <2>1. \A i \in 2..Len(tail) : tail[i] = more[i - 1] /\ i - 1 \in DOMAIN more
    BY <1>1, <1>2
  <2>2. QED
    BY <2>1
<1>4. lines'[r] = lines[r] \o tail /\ lines[r] \in Seq(LineType)
  BY <1>1 DEF Types, LoggedType, LogLines
<1>5. \A i \in DOMAIN lines'[r] \ DOMAIN lines[r] :
        i - Len(lines[r]) \in 1..Len(tail) /\ lines'[r][i] = tail[i - Len(lines[r])]
  BY <1>4
<1>6. QED
  BY <1>2, <1>3, <1>4, <1>5 DEF AddsLine, KeepsLines

LEMMA AddsOnlyOne ==
  ASSUME Types, NEW r \in Requests, NEW line \in LineType, LogLines(r, <<line>>)
  PROVE  AddsLine(r, Len(lines[r]) + 1, line)
<1>1. lines'[r] = lines[r] \o <<line>> /\ lines[r] \in Seq(LineType)
  BY DEF Types, LoggedType, LogLines
<1>2. QED
  BY <1>1 DEF AddsLine, KeepsLines

LEMMA FilterLinesAside ==
  ASSUME NEW r \in Requests, NEW error
  PROVE  \A i \in DOMAIN FilterLines(r, error) : FilterLines(r, error)[i].key \in Aside
  BY DEF FilterLines, Line, Aside

-----------------------------------------------------------------------------
(***************************************************************************)
(* Steps that no recorder takes.                                           *)
(***************************************************************************)
Unrecorded(r) ==
  \/ RequestId(r)
  \/ Yields(r) \/ Passes(r) \/ MiddlewareSets(r) \/ MiddlewareLosesContext(r)
  \/ Authenticates(r) \/ Rejects(r)
  \/ HandlerLogs(r) \/ HandlerNests(r) \/ HandlerCompletes(r)
  \/ Arrives(r) \/ Finishes(r)

SameRecords(r) ==
  /\ listeners'[r] = listeners[r]
  /\ watching'[r] = watching[r]
  /\ values'[r] = values[r]
  /\ thrown'[r] = thrown[r]
  /\ req'[r].recorderActive = req[r].recorderActive
  /\ req'[r].recordedError = req[r].recordedError
  /\ res'[r].closed = res[r].closed
  /\ res[r].finished => res'[r].finished

\* The request stays, moves on or ends, and not at a recorder's station.
MovesElsewhere(r) ==
  /\ at'[r] \in {at[r], at[r] + 1, Over}
  /\ at'[r] # at[r] =>
       /\ at[r] \in 0..(Over - 1)
       /\ at[r] \in DOMAIN Pipeline => Pipeline[at[r]] \notin {"accessLog", "interceptor"}

LEMMA UnrecordedLines ==
  ASSUME Types, NEW r \in Requests, Unrecorded(r)
  PROVE  AddsNothing(r)
<1>1. CASE UNCHANGED lines
  BY <1>1 DEF AddsNothing, KeepsLines
<1>2. CASE AdoptionThrows(r)
  BY <1>2, AddsAside, FilterLinesType, FilterLinesAside DEF AdoptionThrows, Errors
<1>3. CASE Rejects(r)
  BY <1>3, AddsAside, FilterLinesType, FilterLinesAside DEF Rejects, Errors
<1>4. CASE HandlerLogs(r)
  <2>1. "APP" \in Keys /\ ctx[r] \in Scopes \cup {None}
    BY DEF Keys, Types, ContextType
  <2>2. <<Line(r, "APP", ctx[r], None)>> \in Seq(LineType)
    BY <2>1, LineTyped
  <2>3. \A i \in DOMAIN <<Line(r, "APP", ctx[r], None)>> :
          <<Line(r, "APP", ctx[r], None)>>[i].key \in Aside
    BY DEF Line, Aside
  <2>4. QED
    BY <1>4, <2>2, <2>3, AddsAside DEF HandlerLogs
<1>5. QED
  BY <1>1, <1>2, <1>3, <1>4 DEF Unrecorded, RequestId, RequestIdOpens, RequestIdAdopts,
     RequestIdStandsDown, Yields, Passes, MiddlewareSets, SetsContext, MiddlewareLosesContext,
     Authenticates, HandlerNests, HandlerCompletes, Arrives, Finishes, requestVars

LEMMA UnrecordedRecords ==
  ASSUME Types, NEW r \in Requests, Unrecorded(r)
  PROVE  SameRecords(r) /\ UNCHANGED <<inputs, lastIndex>>
<1>1. UNCHANGED <<inputs, listeners, watching, values, thrown, lastIndex>>
  BY DEF Unrecorded, RequestId, RequestIdOpens, RequestIdAdopts, AdoptionThrows,
     RequestIdStandsDown, Yields, Passes, MiddlewareSets, SetsContext, MiddlewareLosesContext,
     Authenticates, Rejects, HandlerLogs, HandlerNests, HandlerCompletes, Arrives, Finishes,
     requestVars
<1>2. req[r] \in Reqs /\ req \in [Requests -> Reqs]
  BY DEF Types, ReqType
<1>3. /\ req'[r].recorderActive = req[r].recorderActive
      /\ req'[r].recordedError = req[r].recordedError
  <2>1. CASE UNCHANGED req
    BY <2>1
  <2>2. CASE RequestIdOpens(r)
    BY <1>2, <2>2 DEF RequestIdOpens, Reqs
  <2>3. CASE Authenticates(r)
    BY <1>2, <2>3 DEF Authenticates, Reqs
  <2>4. QED
    BY <2>1, <2>2, <2>3 DEF Unrecorded, RequestId, RequestIdAdopts, AdoptionThrows,
       RequestIdStandsDown, Yields, Passes, MiddlewareSets, SetsContext, MiddlewareLosesContext,
       Rejects, HandlerLogs, HandlerNests, HandlerCompletes, Arrives, Finishes, requestVars
<1>4. res[r] \in Responses /\ res \in [Requests -> Responses]
  BY DEF Types, ResType
<1>5. res'[r].closed = res[r].closed /\ (res[r].finished => res'[r].finished)
  <2>1. CASE UNCHANGED res
    BY <2>1
  <2>2. CASE RequestIdOpens(r) \/ RequestIdAdopts(r)
    BY <1>4, <2>2 DEF RequestIdOpens, RequestIdAdopts, Responses
  <2>3. ASSUME NEW status, Answers(r, status)
        PROVE  res'[r].closed = res[r].closed /\ (res[r].finished => res'[r].finished)
    BY <1>4, <2>3 DEF Answers, Responses
  <2>4. CASE Finishes(r)
    BY <1>4, <2>4 DEF Finishes, Responses
  <2>5. QED
    BY <2>1, <2>2, <2>3, <2>4 DEF Unrecorded, RequestId, AdoptionThrows,
       RequestIdStandsDown, Yields, Passes, MiddlewareSets, SetsContext, MiddlewareLosesContext,
       Authenticates, Rejects, HandlerLogs, HandlerNests, HandlerCompletes, Arrives, requestVars
<1>6. QED
  BY <1>1, <1>3, <1>5 DEF SameRecords

LEMMA MovedTo ==
  ASSUME Types, NEW r \in Requests
  PROVE  /\ Continues(r) => at'[r] = at[r] + 1
         /\ Ends(r) => at'[r] = Over
  BY DEF Types, WalkType, Continues, Ends

LEMMA UnrecordedMoves ==
  ASSUME Types, NEW r \in Requests, Unrecorded(r)
  PROVE  MovesElsewhere(r)
<1>1. CASE UNCHANGED at
  BY <1>1 DEF MovesElsewhere
<1>2. CASE Arrives(r)
  BY <1>2, MovedTo, PipelineIs DEF Arrives, MovesElsewhere, Types, WalkType
<1>3. ASSUME NEW station, Runs(r, station) \/ Waits(r, station),
             station \notin {"accessLog", "interceptor"}, Continues(r) \/ Ends(r)
      PROVE  MovesElsewhere(r)
  <2>1. at[r] \in 1..(Over - 1) /\ Pipeline[at[r]] = station
    BY <1>3, StationIsInside DEF Types
  <2>2. at'[r] = at[r] + 1 \/ at'[r] = Over
    BY <1>3, MovedTo
  <2>3. QED
    BY <1>3, <2>1, <2>2, PipelineIs DEF MovesElsewhere, Types, WalkType
<1>4. CASE RequestId(r)
  BY <1>3, <1>4 DEF RequestId, RequestIdOpens, RequestIdAdopts, AdoptionThrows,
     RequestIdStandsDown
<1>5. CASE \/ Passes(r) \/ MiddlewareSets(r) \/ MiddlewareLosesContext(r) \/ Authenticates(r)
           \/ Rejects(r) \/ HandlerCompletes(r)
  <2>1. \E station \in {"middleware", "parser", "guard", "handler"} : Waits(r, station)
    BY <1>5 DEF Passes, MiddlewareSets, SetsContext, MiddlewareLosesContext, Authenticates,
       Rejects, HandlerCompletes
  <2>2. Continues(r) \/ Ends(r)
    BY <1>5 DEF Passes, MiddlewareSets, SetsContext, MiddlewareLosesContext, Authenticates,
       Rejects, HandlerCompletes
  <2>3. QED
    BY <1>3, <2>1, <2>2
<1>6. QED
  BY <1>1, <1>2, <1>4, <1>5 DEF Unrecorded, Yields, HandlerLogs, HandlerNests, Finishes,
     requestVars

-----------------------------------------------------------------------------
(***************************************************************************)
(* The inductive invariant.                                                *)
(***************************************************************************)

\* Only a pattern that carries a position moves it.
PositionInv == lastIndex # 0 => Stateful

\* The station of an access log middleware is behind the request.
PassedAccessLog(r) == \E i \in DOMAIN chain : chain[i] = "accessLog" /\ i < at[r]

\* Who records: the middleware that claimed the request, with one listener, or
\* the interceptor, never both; and a request that passed the middleware's
\* station is claimed unless it is excluded.
RecorderInv(r) ==
  /\ Len(listeners[r]) = IF req[r].recorderActive THEN 1 ELSE 0
  /\ req[r].recorderActive => Enabled /\ ~shape[r].excluded
  /\ watching[r] = "all" => ~req[r].recorderActive /\ ~shape[r].excluded /\ ~AccessLogWired
  /\ watching[r] # "nothing" => at[r] > Len(chain) + 1
  /\ at[r] = Len(chain) + 2 /\ req[r].recorderActive => watching[r] = "errors"
  /\ Enabled /\ at[r] < Over /\ PassedAccessLog(r)
       => (req[r].recorderActive <=> ~shape[r].excluded)

\* The recorder logged the one START.
StartInv(r) ==
  /\ \A i, j \in Starts(r) : i = j
  /\ Starts(r) # {} <=> req[r].recorderActive \/ watching[r] = "all"

\* A terminal line comes after the START: the middleware's once the connection
\* closed, the interceptor's once the handler answered, with a promise just once.
TerminalInv(r) ==
  /\ \A j \in TerminalsOf(r) : \E i \in Starts(r) : i < j
  /\ TerminalsOf(r) # {} =>
       \/ req[r].recorderActive /\ res[r].closed
       \/ watching[r] = "all" /\ (MaxValues = 1 => values[r] > 0 \/ at[r] = Over)
  /\ MaxValues = 1 \/ req[r].recorderActive => \A i, j \in TerminalsOf(r) : i = j
  /\ AccessLogWired /\ Logged(r, OutcomeKeys) # {} => res[r].finished

\* A failure ends the request, and a claimed request has it on record by then.
OutcomeInv(r) ==
  /\ res[r].ended \/ res[r].finished => at[r] = Over
  /\ at[r] # Over => thrown[r] = None /\ req[r].recordedError = None
  /\ req[r].recorderActive => req[r].recordedError = thrown[r]
  /\ \A i \in Logged(r, ErrorKeys) :
       at[r] = Over /\ lines[r][i].error = thrown[r]

LinesInv(r) == StartInv(r) /\ TerminalInv(r) /\ OutcomeInv(r)

LoggingInv ==
  /\ Types
  /\ PositionInv
  /\ \A r \in Requests : RecorderInv(r) /\ LinesInv(r)

LEMMA Matching ==
  ASSUME Types, PositionInv, NEW r \in Requests
  PROVE  /\ MatchesExcludePath(r) <=> shape[r].excluded
         /\ PositionAfterTest(r) => PositionInv'
<1>1. MatchPosition = 0
  BY DEF MatchPosition, PositionInv
<1>2. QED
  BY <1>1 DEF MatchesExcludePath, PositionAfterTest, PositionInv

\* Where the recorders are.
LEMMA RecorderStations ==
  ASSUME Types, NEW r \in Requests
  PROVE  /\ Runs(r, "accessLog") => at[r] \in 1..Len(chain) /\ chain[at[r]] = "accessLog"
         /\ Runs(r, "interceptor") => at[r] = Len(chain) + 1
         /\ Waits(r, "handler") => at[r] = Len(chain) + 2
         /\ at[r] \in 0..Over /\ Over = Len(chain) + 3 /\ Len(chain) \in Nat
<1>1. chain \in Wirings /\ at[r] \in 0..Over
  BY DEF Types, WalkType
<1>2. "interceptor" \notin Stations /\ "handler" \notin Stations
  BY DEF Stations
<1>3. QED
  BY <1>1, <1>2, PipelineIs DEF Runs, Waits

LEMMA PassedAfter ==
  ASSUME Types, NEW r \in Requests, UNCHANGED inputs
  PROVE  /\ PassedAccessLog(r)' <=> \E i \in DOMAIN chain : chain[i] = "accessLog" /\ i < at'[r]
         /\ AccessLogWired' = AccessLogWired
         /\ PassedAccessLog(r) => AccessLogWired
         /\ Len(chain') = Len(chain) /\ Over' = Over
         /\ shape' = shape /\ chain' = chain
  BY DEF PassedAccessLog, AccessLogWired, inputs, Over, Pipeline

LEMMA RecorderInvUnrecorded ==
  ASSUME Types, NEW r \in Requests, RecorderInv(r), Unrecorded(r)
  PROVE  RecorderInv(r)'
<1>1. SameRecords(r) /\ UNCHANGED inputs /\ MovesElsewhere(r)
  BY UnrecordedRecords, UnrecordedMoves
<1>2. at[r] \in 0..Over /\ Over = Len(chain) + 3 /\ Len(chain) \in Nat
  BY RecorderStations
<1>3. at'[r] \in 0..Over /\ at'[r] >= at[r]
  BY <1>1, <1>2 DEF MovesElsewhere
<1>4. at'[r] # at[r] => at[r] # Len(chain) + 1 /\ at[r] # Over
  BY <1>1, <1>2, PipelineIs DEF MovesElsewhere, Types, WalkType
<1>5. ASSUME at'[r] < Over, PassedAccessLog(r)'
      PROVE  PassedAccessLog(r) /\ at[r] < Over
  <2>1. PICK i \in DOMAIN chain : chain[i] = "accessLog" /\ i < at'[r]
    BY <1>1, <1>5, PassedAfter
  <2>2. i \in 1..Len(chain) /\ Pipeline[i] = "accessLog" /\ i \in DOMAIN Pipeline
    BY <2>1, PipelineIs DEF Types, WalkType
  <2>3. i < at[r]
    BY <1>1, <1>2, <1>5, <2>1, <2>2 DEF MovesElsewhere
  <2>4. QED
    BY <1>2, <1>3, <1>5, <2>1, <2>3 DEF PassedAccessLog
<1>6. QED
  BY <1>1, <1>2, <1>3, <1>4, <1>5, PassedAfter DEF SameRecords, MovesElsewhere, RecorderInv

LEMMA RecorderInvAccessLog ==
  ASSUME Types, PositionInv, NEW r \in Requests, RecorderInv(r), AccessLog(r)
  PROVE  RecorderInv(r)' /\ PositionInv'
<1>1. /\ UNCHANGED <<inputs, watching>> /\ at'[r] = at[r] + 1 /\ at[r] \in 1..Len(chain)
      /\ chain[at[r]] = "accessLog" /\ watching[r] = "nothing"
      /\ Over = Len(chain) + 3 /\ Len(chain) \in Nat
  BY MovedTo, RecorderStations DEF AccessLog, AccessLogStandsDown, AccessLogExcludes,
     AccessLogRecords, RecorderInv
<1>2. CASE AccessLogStandsDown(r)
  BY <1>1, <1>2, PassedAfter DEF AccessLogStandsDown, RecorderInv, PositionInv
<1>3. CASE AccessLogExcludes(r)
  BY <1>1, <1>3, PassedAfter, Matching DEF AccessLogExcludes, RecorderInv
<1>4. CASE AccessLogRecords(r)
  <2>1. Len(listeners[r]) = 0 /\ listeners[r] \in Seq(Scopes \cup {None})
    BY <1>4 DEF AccessLogRecords, RecorderInv, Types, ArmedType
  <2>2. listeners'[r] = Append(listeners[r], ctx[r])
    BY <1>4 DEF AccessLogRecords, Types, ArmedType
  <2>3. Len(listeners'[r]) = 1
    BY <2>1, <2>2
  <2>4. req'[r].recorderActive = TRUE
    BY <1>4 DEF AccessLogRecords, Types, ReqType, Reqs
  <2>5. Enabled /\ ~shape[r].excluded /\ PositionInv'
    BY <1>4, Matching DEF AccessLogRecords
  <2>6. QED
    BY <1>1, <2>3, <2>4, <2>5, PassedAfter DEF RecorderInv
<1>5. QED
  BY <1>2, <1>3, <1>4 DEF AccessLog

LEMMA RecorderInvInterceptor ==
  ASSUME Types, PositionInv, NEW r \in Requests, RecorderInv(r), Interceptor(r)
  PROVE  RecorderInv(r)' /\ PositionInv'
<1>1. /\ UNCHANGED <<inputs, listeners, req>> /\ at'[r] = at[r] + 1
      /\ at[r] = Len(chain) + 1 /\ Over = Len(chain) + 3 /\ Len(chain) \in Nat
  BY MovedTo, RecorderStations DEF Interceptor, InterceptorStandsAside,
     InterceptorRecordsOnly, InterceptorLogs
<1>2. AccessLogWired <=> PassedAccessLog(r)
  BY <1>1, PipelineIs DEF AccessLogWired, PassedAccessLog, Types, WalkType
<1>3. PassedAccessLog(r)' <=> PassedAccessLog(r)
  BY <1>1, PassedAfter, PipelineIs DEF PassedAccessLog, Types, WalkType
<1>4. CASE InterceptorStandsAside(r)
  <2>1. watching'[r] = "nothing" /\ (Enabled => PositionAfterTest(r) /\ ~req[r].recorderActive)
        /\ (~Enabled => UNCHANGED lastIndex)
    BY <1>4 DEF InterceptorStandsAside, Types, ArmedType
  <2>2. QED
    BY <1>1, <1>3, <2>1, PassedAfter, Matching DEF RecorderInv, PositionInv
<1>5. CASE InterceptorRecordsOnly(r)
  <2>1. watching'[r] = "errors" /\ UNCHANGED lastIndex
    BY <1>5 DEF InterceptorRecordsOnly, Types, ArmedType
  <2>2. QED
    BY <1>1, <1>3, <2>1, PassedAfter DEF RecorderInv, PositionInv
<1>6. CASE InterceptorLogs(r)
  <2>1. /\ watching'[r] = "all" /\ Enabled /\ ~req[r].recorderActive
        /\ ~MatchesExcludePath(r) /\ PositionAfterTest(r)
    BY <1>6 DEF InterceptorLogs, Types, ArmedType
  <2>2. ~shape[r].excluded /\ ~AccessLogWired
    BY <1>1, <1>2, <2>1, Matching DEF RecorderInv
  <2>3. QED
    BY <1>1, <1>3, <2>1, <2>2, PassedAfter, Matching DEF RecorderInv
<1>7. QED
  BY <1>4, <1>5, <1>6 DEF Interceptor

LEMMA RecorderInvHandler ==
  ASSUME Types, NEW r \in Requests, RecorderInv(r), HandlerEmits(r) \/ HandlerThrows(r)
  PROVE  RecorderInv(r)'
<1>1. UNCHANGED <<inputs, listeners, watching>>
  BY DEF HandlerEmits, HandlerThrows
<1>2. req'[r].recorderActive = req[r].recorderActive
  BY DEF HandlerEmits, HandlerThrows, Types, ReqType, Reqs
<1>3. /\ at[r] = Len(chain) + 2 /\ Over = Len(chain) + 3 /\ Len(chain) \in Nat
      /\ at'[r] \in {at[r], Over}
  BY MovedTo, RecorderStations DEF HandlerEmits, HandlerThrows
<1>4. at'[r] = at[r] => PassedAccessLog(r)' = PassedAccessLog(r)
  BY <1>1, <1>3, PassedAfter DEF PassedAccessLog
<1>5. QED
  BY <1>1, <1>2, <1>3, <1>4, PassedAfter DEF RecorderInv

LEMMA RecorderInvCloses ==
  ASSUME Types, NEW r \in Requests, RecorderInv(r), NEW live, Closes(r, live)
  PROVE  RecorderInv(r)'
  BY DEF RecorderInv, Closes, PassedAccessLog, AccessLogWired, inputs, Over, Pipeline

-----------------------------------------------------------------------------
(***************************************************************************)
(* Lines: steps that log none that matters.                                *)
(***************************************************************************)

LEMMA LoggedSame ==
  ASSUME NEW r \in Requests, AddsNothing(r)
  PROVE  /\ Starts(r)' = Starts(r)
         /\ TerminalsOf(r)' = TerminalsOf(r)
         /\ Logged(r, OutcomeKeys)' = Logged(r, OutcomeKeys)
         /\ Logged(r, ErrorKeys)' = Logged(r, ErrorKeys)
         /\ \A i \in Logged(r, ErrorKeys) : lines'[r][i] = lines[r][i]
<1>1. /\ StartKeys \cap Aside = {} /\ Terminals \cap Aside = {}
      /\ OutcomeKeys \cap Aside = {} /\ ErrorKeys \cap Aside = {}
  BY DEF StartKeys, Terminals, OutcomeKeys, ErrorKeys, Aside
<1>2. \A i \in Logged(r, ErrorKeys) : lines'[r][i] = lines[r][i]
  BY DEF Logged, AddsNothing, KeepsLines
<1>3. /\ Logged(r, StartKeys)' = Logged(r, StartKeys)
      /\ Logged(r, Terminals)' = Logged(r, Terminals)
      /\ Logged(r, OutcomeKeys)' = Logged(r, OutcomeKeys)
      /\ Logged(r, ErrorKeys)' = Logged(r, ErrorKeys)
  BY <1>1, LoggedAfter
<1>4. QED
  BY <1>2, <1>3 DEF Starts, TerminalsOf, StartKeys

\* A line of a recorder comes after all lines there were.
LEMMA LoggedOneMore ==
  ASSUME NEW r \in Requests, NEW n, NEW line, AddsLine(r, n, line)
  PROVE  /\ line.key = "START" => Starts(r)' = Starts(r) \cup {n}
         /\ line.key # "START" => Starts(r)' = Starts(r)
         /\ line.key \in Terminals => TerminalsOf(r)' = TerminalsOf(r) \cup {n}
         /\ line.key \notin Terminals => TerminalsOf(r)' = TerminalsOf(r)
         /\ Logged(r, OutcomeKeys)' \subseteq Logged(r, OutcomeKeys) \cup {n}
         /\ line.key \notin OutcomeKeys => Logged(r, OutcomeKeys)' = Logged(r, OutcomeKeys)
         /\ Logged(r, ErrorKeys)' \subseteq Logged(r, ErrorKeys) \cup {n}
         /\ line.key \notin ErrorKeys => Logged(r, ErrorKeys)' = Logged(r, ErrorKeys)
         /\ \A i \in Starts(r) : i < n
         /\ lines'[r][n] = line
         /\ \A i \in Logged(r, ErrorKeys) : lines'[r][i] = lines[r][i]
<1>1. /\ StartKeys \cap Aside = {} /\ Terminals \cap Aside = {}
      /\ OutcomeKeys \cap Aside = {} /\ ErrorKeys \cap Aside = {}
  BY DEF StartKeys, Terminals, OutcomeKeys, ErrorKeys, Aside
<1>2. /\ \A i \in Logged(r, ErrorKeys) : lines'[r][i] = lines[r][i]
      /\ lines'[r][n] = line
  BY DEF Logged, AddsLine, KeepsLines
<1>3. ASSUME NEW keys, keys \cap Aside = {}
      PROVE  /\ line.key \in keys => Logged(r, keys)' = Logged(r, keys) \cup {n}
             /\ line.key \notin keys => Logged(r, keys)' = Logged(r, keys)
             /\ \A i \in Logged(r, keys) : i < n
  BY <1>3, LoggedAfter
<1>4. /\ line.key \in StartKeys => Logged(r, StartKeys)' = Logged(r, StartKeys) \cup {n}
      /\ line.key \notin StartKeys => Logged(r, StartKeys)' = Logged(r, StartKeys)
      /\ \A i \in Logged(r, StartKeys) : i < n
  BY <1>1, <1>3
<1>5. /\ line.key \in Terminals => Logged(r, Terminals)' = Logged(r, Terminals) \cup {n}
      /\ line.key \notin Terminals => Logged(r, Terminals)' = Logged(r, Terminals)
  BY <1>1, <1>3
<1>6. /\ line.key \in OutcomeKeys => Logged(r, OutcomeKeys)' = Logged(r, OutcomeKeys) \cup {n}
      /\ line.key \notin OutcomeKeys => Logged(r, OutcomeKeys)' = Logged(r, OutcomeKeys)
  BY <1>1, <1>3
<1>7. /\ line.key \in ErrorKeys => Logged(r, ErrorKeys)' = Logged(r, ErrorKeys) \cup {n}
      /\ line.key \notin ErrorKeys => Logged(r, ErrorKeys)' = Logged(r, ErrorKeys)
  BY <1>1, <1>3
<1>8. QED
  BY <1>2, <1>4, <1>5, <1>6, <1>7 DEF Starts, TerminalsOf, StartKeys

\* A response that ends or finishes belongs to a request that is over.
LEMMA UnrecordedEnds ==
  ASSUME Types, NEW r \in Requests, OutcomeInv(r), Unrecorded(r)
  PROVE  res'[r].ended \/ res'[r].finished => at'[r] = Over
<1>1. req[r] \in Reqs /\ res[r] \in Responses /\ res \in [Requests -> Responses]
  BY DEF Types, ReqType, ResType
<1>2. MovesElsewhere(r) /\ at[r] \in 0..Over
  BY UnrecordedMoves DEF Types, WalkType
<1>3. at[r] = Over => at'[r] = Over
  BY <1>2, RecorderStations DEF MovesElsewhere
<1>4. CASE res'[r].ended = res[r].ended /\ res'[r].finished = res[r].finished
  BY <1>3, <1>4 DEF OutcomeInv
<1>5. CASE Ends(r)
  BY <1>5, MovedTo
<1>6. CASE Finishes(r)
  BY <1>3, <1>6 DEF Finishes, OutcomeInv
<1>7. CASE RequestIdOpens(r) \/ RequestIdAdopts(r)
  BY <1>1, <1>4, <1>7 DEF RequestIdOpens, RequestIdAdopts, Responses
<1>8. QED
  BY <1>4, <1>5, <1>6, <1>7 DEF Unrecorded, RequestId, AdoptionThrows, RequestIdStandsDown,
     Yields, Passes, MiddlewareSets, SetsContext, MiddlewareLosesContext, Authenticates,
     Rejects, HandlerLogs, HandlerNests, HandlerCompletes, Arrives, requestVars

LEMMA LinesInvUnrecorded ==
  ASSUME Types, NEW r \in Requests, RecorderInv(r), LinesInv(r), Unrecorded(r)
  PROVE  LinesInv(r)'
<1>1. /\ AddsNothing(r) /\ SameRecords(r) /\ UNCHANGED inputs /\ MovesElsewhere(r)
      /\ res'[r].ended \/ res'[r].finished => at'[r] = Over
  BY UnrecordedLines, UnrecordedRecords, UnrecordedMoves, UnrecordedEnds DEF LinesInv
<1>2. Over' = Over /\ AccessLogWired' = AccessLogWired /\ (at[r] = Over => at'[r] = Over)
  BY <1>1, PassedAfter, RecorderStations DEF MovesElsewhere
<1>3. StartInv(r)'
  BY <1>1, LoggedSame DEF LinesInv, StartInv, SameRecords
<1>4. TerminalInv(r)'
  BY <1>1, <1>2, LoggedSame DEF LinesInv, TerminalInv, SameRecords
<1>5. OutcomeInv(r)'
  BY <1>1, <1>2, LoggedSame DEF LinesInv, OutcomeInv, SameRecords
<1>6. QED
  BY <1>3, <1>4, <1>5 DEF LinesInv

-----------------------------------------------------------------------------
(***************************************************************************)
(* Lines: the steps of the recorders.                                      *)
(***************************************************************************)
LEMMA StartLine ==
  ASSUME Types, NEW r \in Requests, LogLines(r, <<Line(r, "START", ctx[r], None)>>)
  PROVE  \E n : /\ Starts(r)' = Starts(r) \cup {n}
                /\ TerminalsOf(r)' = TerminalsOf(r)
                /\ Logged(r, OutcomeKeys)' = Logged(r, OutcomeKeys)
                /\ Logged(r, ErrorKeys)' = Logged(r, ErrorKeys)
                /\ \A i \in Logged(r, ErrorKeys) : lines'[r][i] = lines[r][i]
<1>1. PICK line \in LineType : line = Line(r, "START", ctx[r], None)
  BY LineTyped DEF Types, ContextType, Keys
<1>2. line.key = "START" /\ line.key \notin Terminals \cup OutcomeKeys \cup ErrorKeys
  BY <1>1 DEF Line, Terminals, OutcomeKeys, ErrorKeys
<1>3. PICK n : AddsLine(r, n, line)
  BY <1>1, AddsOnlyOne
<1>4. QED
  BY <1>2, <1>3, LoggedOneMore

\* Before its START is logged a request has no line of a recorder.
LEMMA LinesInvStart ==
  ASSUME Types, NEW r \in Requests, RecorderInv(r), LinesInv(r), RecorderInv(r)',
         AccessLogRecords(r) \/ InterceptorLogs(r)
  PROVE  LinesInv(r)'
<1>1. PICK n : /\ Starts(r)' = Starts(r) \cup {n}
               /\ TerminalsOf(r)' = TerminalsOf(r)
               /\ Logged(r, OutcomeKeys)' = Logged(r, OutcomeKeys)
               /\ Logged(r, ErrorKeys)' = Logged(r, ErrorKeys)
               /\ \A i \in Logged(r, ErrorKeys) : lines'[r][i] = lines[r][i]
  BY StartLine DEF AccessLogRecords, InterceptorLogs
<1>2. /\ UNCHANGED <<inputs, res, values, thrown>> /\ at'[r] = at[r] + 1
      /\ at[r] \in 1..(Len(chain) + 1) /\ Over = Len(chain) + 3 /\ Len(chain) \in Nat
      /\ ~req[r].recorderActive
  BY MovedTo, RecorderStations DEF AccessLogRecords, InterceptorLogs
<1>3. watching[r] # "all"
  BY <1>2 DEF RecorderInv
<1>4. Starts(r) = {} /\ TerminalsOf(r) = {}
  BY <1>2, <1>3 DEF LinesInv, StartInv, TerminalInv
<1>5. req'[r].recordedError = req[r].recordedError
  BY DEF AccessLogRecords, InterceptorLogs, Types, ReqType, Reqs
<1>6. req'[r].recorderActive \/ watching'[r] = "all"
  BY DEF AccessLogRecords, InterceptorLogs, Types, ReqType, Reqs, ArmedType
<1>7. StartInv(r)'
  BY <1>1, <1>4, <1>6 DEF StartInv
<1>8. Logged(r, OutcomeKeys) = {} /\ Logged(r, ErrorKeys) = {}
  BY <1>4 DEF Logged, TerminalsOf, OutcomeKeys, ErrorKeys, Terminals
<1>9. TerminalInv(r)'
  BY <1>1, <1>4, <1>8 DEF TerminalInv
<1>10. OutcomeInv(r)'
  BY <1>1, <1>2, <1>5, <1>8, PassedAfter DEF LinesInv, OutcomeInv
<1>11. QED
  BY <1>7, <1>9, <1>10 DEF LinesInv

LEMMA LinesInvAccessLog ==
  ASSUME Types, NEW r \in Requests, RecorderInv(r), LinesInv(r), RecorderInv(r)', AccessLog(r)
  PROVE  LinesInv(r)'
<1>1. CASE AccessLogStandsDown(r) \/ AccessLogExcludes(r)
  <2>1. /\ UNCHANGED <<inputs, req, res, listeners, watching, values, lines, thrown>>
        /\ at'[r] = at[r] + 1 /\ at[r] \in 1..Len(chain)
        /\ Over = Len(chain) + 3 /\ Len(chain) \in Nat
    BY <1>1, MovedTo, RecorderStations DEF AccessLogStandsDown, AccessLogExcludes
  <2>2. AddsNothing(r)
    BY <2>1 DEF AddsNothing, KeepsLines
  <2>3. StartInv(r)'
    BY <2>1, <2>2, LoggedSame DEF LinesInv, StartInv
  <2>4. TerminalInv(r)'
    BY <2>1, <2>2, LoggedSame, PassedAfter DEF LinesInv, TerminalInv
  <2>5. OutcomeInv(r)'
    BY <2>1, <2>2, LoggedSame, PassedAfter DEF LinesInv, OutcomeInv
  <2>6. QED
    BY <2>3, <2>4, <2>5 DEF LinesInv
<1>2. QED
  BY <1>1, LinesInvStart DEF AccessLog

LEMMA LinesInvInterceptor ==
  ASSUME Types, NEW r \in Requests, RecorderInv(r), LinesInv(r), RecorderInv(r)', Interceptor(r)
  PROVE  LinesInv(r)'
<1>1. CASE InterceptorStandsAside(r) \/ InterceptorRecordsOnly(r)
  <2>1. /\ UNCHANGED <<inputs, req, res, listeners, values, lines, thrown>>
        /\ at'[r] = at[r] + 1 /\ at[r] = Len(chain) + 1
        /\ Over = Len(chain) + 3 /\ Len(chain) \in Nat
    BY <1>1, MovedTo, RecorderStations DEF InterceptorStandsAside, InterceptorRecordsOnly
  <2>2. watching[r] # "all" /\ watching'[r] # "all"
    BY <1>1, <2>1 DEF InterceptorStandsAside, InterceptorRecordsOnly, RecorderInv, Types, ArmedType
  <2>3. AddsNothing(r)
    BY <2>1 DEF AddsNothing, KeepsLines
  <2>4. StartInv(r)'
    BY <2>1, <2>2, <2>3, LoggedSame DEF LinesInv, StartInv
  <2>5. TerminalInv(r)'
    BY <2>1, <2>2, <2>3, LoggedSame, PassedAfter DEF LinesInv, TerminalInv
  <2>6. OutcomeInv(r)'
    BY <2>1, <2>3, LoggedSame, PassedAfter DEF LinesInv, OutcomeInv
  <2>7. QED
    BY <2>4, <2>5, <2>6 DEF LinesInv
<1>2. QED
  BY <1>1, LinesInvStart DEF Interceptor

\* The interceptor logs an outcome only of a request it logged the START of.
LEMMA LinesInvEmits ==
  ASSUME Types, NEW r \in Requests, RecorderInv(r), LinesInv(r), HandlerEmits(r)
  PROVE  LinesInv(r)'
<1>1. /\ UNCHANGED <<inputs, at, req, listeners, watching, thrown>>
      /\ at[r] = Len(chain) + 2 /\ Over = Len(chain) + 3 /\ Len(chain) \in Nat
      /\ values[r] < MaxValues /\ values'[r] = values[r] + 1 /\ values[r] \in Nat
  BY RecorderStations DEF HandlerEmits, Types, ArmedType
<1>2. PICK status : /\ res' = [res EXCEPT ![r].statusCode = status]
                    /\ LogLines(r, SuccessLines(r, status))
  BY DEF HandlerEmits
<1>3. /\ res'[r].ended = res[r].ended /\ res'[r].finished = res[r].finished
      /\ res'[r].closed = res[r].closed
  BY <1>2 DEF Types, ResType, Responses
<1>4. CASE AddsNothing(r)
  <2>1. StartInv(r)'
    BY <1>1, <1>4, LoggedSame DEF LinesInv, StartInv
  <2>2. TerminalInv(r)'
    BY <1>1, <1>3, <1>4, LoggedSame, PassedAfter DEF LinesInv, TerminalInv
  <2>3. OutcomeInv(r)'
    BY <1>1, <1>3, <1>4, LoggedSame, PassedAfter DEF LinesInv, OutcomeInv
  <2>4. QED
    BY <2>1, <2>2, <2>3 DEF LinesInv
<1>5. CASE SuccessLines(r, status) # <<>>
  <2>1. watching[r] = "all"
    BY <1>5 DEF SuccessLines
  <2>2. PICK key \in {"SUCCESS", "REDIRECT"} : SuccessLines(r, status) = <<Line(r, key, ctx[r], None)>>
    BY <1>5 DEF SuccessLines
  <2>3. PICK line \in LineType : line = Line(r, key, ctx[r], None)
    BY LineTyped DEF Types, ContextType, Keys
  <2>4. line.key # "START" /\ line.key \in Terminals /\ line.key \notin ErrorKeys
    BY <2>3 DEF Line, Terminals, ErrorKeys
  <2>5. PICK n : AddsLine(r, n, line)
    BY <1>2, <2>2, <2>3, AddsOnlyOne
  <2>6. /\ Starts(r)' = Starts(r) /\ TerminalsOf(r)' = TerminalsOf(r) \cup {n}
        /\ Logged(r, ErrorKeys)' = Logged(r, ErrorKeys)
        /\ \A i \in Starts(r) : i < n
        /\ \A i \in Logged(r, ErrorKeys) : lines'[r][i] = lines[r][i]
    BY <2>4, <2>5, LoggedOneMore
  <2>7. ~req[r].recorderActive /\ ~AccessLogWired /\ Starts(r) # {}
    BY <2>1 DEF RecorderInv, LinesInv, StartInv
  <2>8. MaxValues = 1 => TerminalsOf(r) = {}
    BY <1>1, <2>7 DEF LinesInv, TerminalInv
  <2>9. StartInv(r)'
    BY <1>1, <2>6 DEF LinesInv, StartInv
  <2>10. TerminalInv(r)'
    <3>1. \A j \in TerminalsOf(r)' : \E i \in Starts(r)' : i < j
      BY <2>6, <2>7 DEF LinesInv, TerminalInv
    <3>2. \/ MaxValues # 1 
          \/ values'[r] > 0 /\ \A i, j \in TerminalsOf(r)' : i = j
      BY <1>1, <2>6, <2>8
    <3>3. UNCHANGED <<req, watching>> /\ AccessLogWired' = AccessLogWired
      BY <1>1, PassedAfter
    <3>4. QED
      BY <2>1, <2>7, <3>1, <3>2, <3>3 DEF TerminalInv
  <2>11. OutcomeInv(r)'
    BY <1>1, <1>3, <2>6, PassedAfter DEF LinesInv, OutcomeInv
  <2>12. QED
    BY <2>9, <2>10, <2>11 DEF LinesInv
<1>6. CASE SuccessLines(r, status) = <<>>
  <2>1. <<>> \in Seq(LineType) /\ \A i \in DOMAIN <<>> : <<>>[i].key \in Aside
    OBVIOUS
  <2>2. AddsNothing(r)
    BY <1>2, <1>6, <2>1, AddsAside
  <2>3. QED
    BY <1>4, <2>2
<1>7. QED
  BY <1>5, <1>6

\* A failure that passed the interceptor: logged if it logs, recorded if it records.
LEMMA LinesInvThrows ==
  ASSUME Types, NEW r \in Requests, RecorderInv(r), LinesInv(r), HandlerThrows(r)
  PROVE  LinesInv(r)'
<1>1. /\ UNCHANGED <<inputs, listeners, watching, values>>
      /\ at[r] = Len(chain) + 2 /\ Over = Len(chain) + 3 /\ Len(chain) \in Nat
      /\ at'[r] = Over /\ (values[r] = 0 \/ MaxValues > 1)
  BY RecorderStations, MovedTo DEF HandlerThrows
<1>2. PICK error \in Errors :
        /\ LogLines(r, ErrorLines(r, error) \o FilterLines(r, error))
        /\ req' = IF watching[r] = "errors"
                  THEN [req EXCEPT ![r].recordedError = error]
                  ELSE req
        /\ Answers(r, StatusOf(error))
        /\ thrown' = [thrown EXCEPT ![r] = error]
  BY RequestLoggingAssumption DEF HandlerThrows
<1>3. /\ res'[r].finished = res[r].finished /\ res'[r].closed = res[r].closed
      /\ thrown'[r] = error
  <2>1. StatusOf(error) \in 200..599 /\ ResType
    BY StatusType DEF Types
  <2>2. res'[r].finished = res[r].finished /\ res'[r].closed = res[r].closed
    BY <1>2, <2>1, AnswerType
  <2>3. thrown'[r] = error
    BY <1>2 DEF Types, LoggedType
  <2>4. QED
    BY <2>2, <2>3
<1>4. /\ req'[r].recorderActive = req[r].recorderActive
      /\ req[r].recorderActive => req'[r].recordedError = error
  <2>1. req[r].recorderActive => watching[r] = "errors"
    BY <1>1 DEF RecorderInv
  <2>2. QED
    BY <1>2, <2>1 DEF Types, ReqType, Reqs
<1>5. Logged(r, ErrorKeys) = {}
  BY <1>1 DEF LinesInv, OutcomeInv
<1>6. FilterLines(r, error) \in Seq(LineType)
      /\ \A i \in DOMAIN FilterLines(r, error) : FilterLines(r, error)[i].key \in Aside
  BY FilterLinesType, FilterLinesAside
<1>7. CASE watching[r] # "all"
  <2>1. ErrorLines(r, error) = <<>>
    BY <1>7 DEF ErrorLines
  <2>2. LogLines(r, FilterLines(r, error))
    BY <1>2, <1>6, <2>1
  <2>3. AddsNothing(r)
    BY <1>6, <2>2, AddsAside
  <2>4. StartInv(r)'
    BY <1>1, <1>4, <2>3, LoggedSame DEF LinesInv, StartInv
  <2>5. TerminalInv(r)'
    BY <1>1, <1>3, <1>4, <1>7, <2>3, LoggedSame, PassedAfter DEF LinesInv, TerminalInv
  <2>6. OutcomeInv(r)'
    BY <1>1, <1>3, <1>4, <1>5, <2>3, LoggedSame, PassedAfter DEF LinesInv, OutcomeInv
  <2>7. QED
    BY <2>4, <2>5, <2>6 DEF LinesInv
<1>8. CASE watching[r] = "all"
  <2>1. PICK key \in {"CLIENT_ERROR", "SERVER_ERROR"} :
          ErrorLines(r, error) = <<Line(r, key, ctx[r], error)>>
    BY <1>8 DEF ErrorLines
  <2>2. PICK line \in LineType : line = Line(r, key, ctx[r], error)
    BY LineTyped DEF Types, ContextType, Keys
  <2>3. line.key # "START" /\ line.key \in Terminals /\ line.error = error
    BY <2>2 DEF Line, Terminals
  <2>4. PICK n : AddsLine(r, n, line)
    BY <1>2, <1>6, <2>1, <2>2, AddsOne
  <2>5. /\ Starts(r)' = Starts(r) /\ TerminalsOf(r)' = TerminalsOf(r) \cup {n}
        /\ Logged(r, ErrorKeys)' \subseteq {n}
        /\ \A i \in Starts(r) : i < n
        /\ lines'[r][n].error = error
    BY <1>5, <2>3, <2>4, LoggedOneMore
  <2>6. ~req[r].recorderActive /\ ~AccessLogWired /\ Starts(r) # {}
    BY <1>8 DEF RecorderInv, LinesInv, StartInv
  <2>7. MaxValues = 1 => TerminalsOf(r) = {}
    BY <1>1, <2>6 DEF LinesInv, TerminalInv
  <2>8. StartInv(r)'
    BY <1>1, <1>4, <2>5 DEF LinesInv, StartInv
  <2>9. TerminalInv(r)'
    <3>1. \A j \in TerminalsOf(r)' : \E i \in Starts(r)' : i < j
      BY <2>5, <2>6 DEF LinesInv, TerminalInv
    <3>2. MaxValues # 1 \/ \A i, j \in TerminalsOf(r)' : i = j
      BY <2>5, <2>7
    <3>3. AccessLogWired' = AccessLogWired /\ Over' = Over
      BY <1>1, PassedAfter
    <3>4. QED
      BY <1>1, <1>4, <1>8, <2>6, <3>1, <3>2, <3>3 DEF TerminalInv
  <2>10. OutcomeInv(r)'
    BY <1>1, <1>3, <1>4, <2>5, PassedAfter DEF OutcomeInv
  <2>11. QED
    BY <2>8, <2>9, <2>10 DEF LinesInv
<1>9. QED
  BY <1>7, <1>8

\* The connection closes: the one listener of a claimed request logs its outcome.
LEMMA LinesInvCloses ==
  ASSUME Types, NEW r \in Requests, RecorderInv(r), LinesInv(r), NEW live \in Scopes \cup {None},
         ~res[r].closed, Closes(r, live)
  PROVE  /\ LinesInv(r)'
         /\ req'[r].recorderActive /\ res'[r].closed => TerminalsOf(r)' # {}
<1>1. UNCHANGED <<inputs, at, req, listeners, watching, values, thrown>>
  BY DEF Closes
<1>2. /\ res'[r].closed /\ res'[r].ended = res[r].ended
      /\ res'[r].finished = res[r].finished
  BY DEF Closes, Types, ResType, Responses
<1>3. LogLines(r, ClosingLines(r, live))
  BY DEF Closes, ClosingLines
<1>4. ClosingLines(r, live) \in Seq(LineType) /\ Len(ClosingLines(r, live)) = Len(listeners[r])
  BY ClosingLinesType
<1>5. CASE ~req[r].recorderActive
  <2>1. Len(ClosingLines(r, live)) = 0
    BY <1>4, <1>5 DEF RecorderInv
  <2>2. \A i \in DOMAIN ClosingLines(r, live) : ClosingLines(r, live)[i].key \in Aside
    BY <1>4, <2>1
  <2>3. AddsNothing(r)
    BY <1>3, <1>4, <2>2, AddsAside
  <2>4. StartInv(r)'
    BY <1>1, <2>3, LoggedSame DEF LinesInv, StartInv
  <2>5. TerminalInv(r)'
    BY <1>1, <1>2, <1>5, <2>3, LoggedSame, PassedAfter DEF LinesInv, TerminalInv
  <2>6. OutcomeInv(r)'
    BY <1>1, <1>2, <2>3, LoggedSame, PassedAfter DEF LinesInv, OutcomeInv
  <2>7. QED
    BY <1>1, <1>5, <2>4, <2>5, <2>6 DEF LinesInv
<1>6. CASE req[r].recorderActive
  <2>1. Len(listeners[r]) = 1 /\ watching[r] # "all"
    BY <1>6 DEF RecorderInv
  <2>2. PICK line \in LineType : ClosingLines(r, live) = <<line>> /\ line = ClosingLines(r, live)[1]
    <3>1. PICK closing \in Seq(LineType) : closing = ClosingLines(r, live) /\ Len(closing) = 1
      BY <1>4, <2>1
    <3>2. closing[1] \in LineType /\ closing = <<closing[1]>>
      BY <3>1
    <3>3. QED
      BY <3>1, <3>2
  <2>3. 1 \in DOMAIN listeners[r]
    BY <2>1 DEF Types, ArmedType
  <2>4. line = Terminal(r, EmissionScope(live, listeners[r][1]), res[r].finished)
    BY <2>2, <2>3 DEF ClosingLines
  <2>5. /\ line.key # "START" /\ line.key \in Terminals
        /\ line.key \in OutcomeKeys => res[r].finished
        /\ line.key \in ErrorKeys => res[r].finished /\ line.error = req[r].recordedError
    BY <2>4 DEF Terminal, Line, Terminals, OutcomeKeys, ErrorKeys
  <2>6. PICK n : AddsLine(r, n, line)
    BY <1>3, <2>2, AddsOnlyOne
  <2>7. /\ Starts(r)' = Starts(r) /\ TerminalsOf(r)' = TerminalsOf(r) \cup {n}
        /\ Logged(r, OutcomeKeys)' \subseteq Logged(r, OutcomeKeys) \cup {n}
        /\ line.key \notin OutcomeKeys => Logged(r, OutcomeKeys)' = Logged(r, OutcomeKeys)
        /\ Logged(r, ErrorKeys)' \subseteq Logged(r, ErrorKeys) \cup {n}
        /\ line.key \notin ErrorKeys => Logged(r, ErrorKeys)' = Logged(r, ErrorKeys)
        /\ \A i \in Starts(r) : i < n
        /\ lines'[r][n] = line
        /\ \A i \in Logged(r, ErrorKeys) : lines'[r][i] = lines[r][i]
    BY <2>5, <2>6, LoggedOneMore
  <2>8. TerminalsOf(r) = {} /\ Starts(r) # {}
    BY <1>6, <2>1 DEF LinesInv, TerminalInv, StartInv
  <2>9. StartInv(r)'
    BY <1>1, <2>7 DEF LinesInv, StartInv
  <2>10. TerminalInv(r)'
    <3>1. \A j \in TerminalsOf(r)' : \E i \in Starts(r)' : i < j
      BY <2>7, <2>8
    <3>2. \A i, j \in TerminalsOf(r)' : i = j
      BY <2>7, <2>8
    <3>3. Logged(r, OutcomeKeys) = {}
      BY <2>8 DEF Logged, TerminalsOf, OutcomeKeys
    <3>4. Logged(r, OutcomeKeys)' # {} => res'[r].finished
      BY <1>2, <2>5, <2>7, <3>3
    <3>5. QED
      BY <1>1, <1>2, <1>6, <3>1, <3>2, <3>4 DEF TerminalInv
  <2>11. OutcomeInv(r)'
    <3>1. Logged(r, ErrorKeys) = {}
      BY <2>8 DEF Logged, TerminalsOf, ErrorKeys, Terminals
    <3>2. line.key \in ErrorKeys => at[r] = Over /\ line.error = thrown[r]
      BY <1>6, <2>5 DEF LinesInv, OutcomeInv
    <3>3. QED
      BY <1>1, <1>2, <2>7, <3>1, <3>2, PassedAfter DEF LinesInv, OutcomeInv
  <2>12. QED
    BY <2>7, <2>9, <2>10, <2>11 DEF LinesInv
<1>7. QED
  BY <1>5, <1>6

-----------------------------------------------------------------------------
(***************************************************************************)
(* The invariant is inductive.                                             *)
(***************************************************************************)
LEMMA OtherRequest ==
  ASSUME Types, NEW q \in Requests, SameRequest(q), UNCHANGED inputs, RecorderInv(q), LinesInv(q)
  PROVE  RecorderInv(q)' /\ LinesInv(q)'
<1>1. RecorderInv(q)'
  BY PassedAfter DEF SameRequest, RecorderInv, PassedAccessLog
<1>2. /\ Starts(q)' = Starts(q) /\ TerminalsOf(q)' = TerminalsOf(q)
      /\ Logged(q, OutcomeKeys)' = Logged(q, OutcomeKeys)
      /\ Logged(q, ErrorKeys)' = Logged(q, ErrorKeys)
  BY DEF SameRequest, Starts, TerminalsOf, Logged
<1>3. StartInv(q)'
  BY <1>2 DEF LinesInv, StartInv, SameRequest
<1>4. TerminalInv(q)'
  BY <1>2, PassedAfter DEF LinesInv, TerminalInv, SameRequest
<1>5. OutcomeInv(q)'
  BY <1>2, PassedAfter DEF LinesInv, OutcomeInv, SameRequest
<1>6. QED
  BY <1>1, <1>3, <1>4, <1>5 DEF LinesInv

LEMMA ThisRequest ==
  ASSUME Types, PositionInv, NEW r \in Requests, RecorderInv(r), LinesInv(r), Step(r)
  PROVE  RecorderInv(r)' /\ LinesInv(r)' /\ PositionInv'
<1>1. CASE Unrecorded(r)
  BY <1>1, RecorderInvUnrecorded, LinesInvUnrecorded, UnrecordedRecords DEF PositionInv
<1>2. CASE AccessLog(r)
  BY <1>2, RecorderInvAccessLog, LinesInvAccessLog
<1>3. CASE Interceptor(r)
  BY <1>3, RecorderInvInterceptor, LinesInvInterceptor
<1>4. CASE HandlerEmits(r) \/ HandlerThrows(r)
  <2>1. PositionInv'
    BY <1>4 DEF HandlerEmits, HandlerThrows, PositionInv
  <2>2. QED
    BY <1>4, <2>1, RecorderInvHandler, LinesInvEmits, LinesInvThrows
<1>5. CASE ClosesDelivered(r) \/ Aborts(r)
  <2>1. PICK live \in Scopes \cup {None} : Closes(r, live) /\ ~res[r].closed
    BY <1>5, ScopesAre DEF ClosesDelivered, Aborts, Types, ContextType
  <2>2. PositionInv'
    BY <2>1 DEF Closes, PositionInv
  <2>3. QED
    BY <2>1, <2>2, RecorderInvCloses, LinesInvCloses
<1>6. QED
  BY <1>1, <1>2, <1>3, <1>4, <1>5 DEF Step, Unrecorded, Application, Connection

LEMMA LoggingInit == Init => LoggingInv
<1> SUFFICES ASSUME Init PROVE LoggingInv
  OBVIOUS
<1>1. Types
  BY TypeInit
<1>2. PositionInv
  BY DEF Init, PositionInv
<1>3. ASSUME NEW r \in Requests
      PROVE  RecorderInv(r) /\ LinesInv(r)
  <2>1. /\ listeners[r] = <<>> /\ watching[r] = "nothing" /\ at[r] = 0 /\ lines[r] = <<>>
        /\ thrown[r] = None /\ req[r] = NewRequest /\ res[r] = NewResponse
    BY DEF Init
  <2>2. ~req[r].recorderActive /\ req[r].recordedError = None
    BY <2>1 DEF NewRequest
  <2>3. ~res[r].ended /\ ~res[r].finished
    BY <2>1 DEF NewResponse
  <2>4. \A keys : Logged(r, keys) = {}
    BY <2>1 DEF Logged
  <2>5. Len(chain) \in Nat /\ DOMAIN chain = 1..Len(chain)
    BY PipelineIs DEF Init
  <2>6. RecorderInv(r)
    BY <2>1, <2>2, <2>5 DEF RecorderInv, PassedAccessLog
  <2>7. LinesInv(r)
    BY <2>1, <2>2, <2>3, <2>4 DEF LinesInv, StartInv, TerminalInv, OutcomeInv, Starts, TerminalsOf
  <2>8. QED
    BY <2>6, <2>7
<1>4. QED
  BY <1>1, <1>2, <1>3 DEF LoggingInv

\* A step of the system is a step of one request, or changes nothing.
LEMMA NextIsStep ==
  ASSUME [Next]_vars
  PROVE  (\E r \in Requests : Step(r)) \/ UNCHANGED vars
  BY DEF Next, Step, Settled

LEMMA LoggingStep == LoggingInv /\ [Next]_vars => LoggingInv'
<1> SUFFICES ASSUME LoggingInv, [Next]_vars PROVE LoggingInv'
  OBVIOUS
<1>1. Types /\ Types'
  BY TypeStep DEF LoggingInv
<1>2. CASE UNCHANGED vars
  <2>1. \A q \in Requests : SameRequest(q)
    BY <1>2 DEF SameRequest, vars, contextVars, requestVars
  <2>2. UNCHANGED <<inputs, lastIndex>>
    BY <1>2 DEF vars, requestVars
  <2>3. \A q \in Requests : RecorderInv(q)' /\ LinesInv(q)'
    BY <1>1, <2>1, <2>2, OtherRequest DEF LoggingInv
  <2>4. QED
    BY <1>1, <2>2, <2>3 DEF LoggingInv, PositionInv
<1>3. CASE \E r \in Requests : Step(r)
  <2>1. PICK r \in Requests : Step(r)
    BY <1>3
  <2>2. RecorderInv(r)' /\ LinesInv(r)' /\ PositionInv'
    BY <1>1, <2>1, ThisRequest DEF LoggingInv
  <2>3. ASSUME NEW q \in Requests \ {r}
        PROVE  RecorderInv(q)' /\ LinesInv(q)'
    BY <1>1, <2>1, OthersKept, OtherRequest DEF LoggingInv
  <2>4. QED
    BY <1>1, <2>2, <2>3 DEF LoggingInv
<1>4. QED
  BY <1>2, <1>3, NextIsStep

\* The invariant holds of every wiring, whatever the application and the clients do.
THEOREM LoggingInvariant == Spec => []LoggingInv
  BY LoggingInit, LoggingStep, PTL DEF Spec

-----------------------------------------------------------------------------
(***************************************************************************)
(* What follows for a request's lines.                                     *)
(***************************************************************************)

\* When handlers return promises, a request has at most one START and one terminal
\* line, in that order, however many recorders are mounted and wherever.
THEOREM NothingTwice ==
  ASSUME MaxValues = 1
  PROVE  Spec => []NothingIsLoggedTwice
<1>1. LoggingInv => NothingIsLoggedTwice
  BY DEF LoggingInv, LinesInv, StartInv, TerminalInv, NothingIsLoggedTwice
<1>2. QED
  BY <1>1, LoggingInvariant, PTL

\* With the access log wired, anywhere, only a delivered response gets the outcome
\* its handler intended.
THEOREM SuccessIsDelivered == Spec => []SuccessMeansDelivered
<1>1. LoggingInv => SuccessMeansDelivered
  BY DEF LoggingInv, LinesInv, TerminalInv, OutcomeKeys, SuccessMeansDelivered
<1>2. QED
  BY <1>1, LoggingInvariant, PTL

\* A failure line carries the error that passed the interceptor, whoever writes it.
THEOREM FailuresExplained == Spec => []FailuresAreExplained
<1>1. LoggingInv => FailuresAreExplained
  BY DEF LoggingInv, LinesInv, OutcomeInv, ErrorKeys, FailuresAreExplained
<1>2. QED
  BY <1>1, LoggingInvariant, PTL

-----------------------------------------------------------------------------
(***************************************************************************)
(* Every request is accounted for, when nothing asynchronous comes before  *)
(* the access log: a request that waits there may lose its connection      *)
(* before its 'close' listener is registered.                              *)
(***************************************************************************)

\* An access log middleware with no asynchronous station before it.
PromptIn(wiring, j) ==
  /\ wiring[j] = "accessLog"
  /\ \A i \in 1..j : wiring[i] \in {"requestId", "accessLog"}

PromptAt(j) == j \in DOMAIN chain /\ PromptIn(chain, j)

\* Up to that station the request keeps the turn, the connection and the context.
EarlyInv(r) ==
  /\ at[r] = 0 => ~res[r].closed /\ ~req[r].correlationOpened
  /\ \A j : PromptAt(j) /\ at[r] \in 1..j =>
       /\ turn = r
       /\ ~res[r].closed
       /\ req[r].correlationOpened => ctx[r] # None

\* From then on it is claimed unless excluded, and closing it writes its line.
ClaimedInv(r) ==
  /\ \A j : PromptAt(j) /\ at[r] > j => (req[r].recorderActive <=> ~shape[r].excluded)
  /\ RecordsPromptly /\ req[r].recorderActive /\ res[r].closed => TerminalsOf(r) # {}

PromptInv == \A r \in Requests : EarlyInv(r) /\ ClaimedInv(r)

LEMMA PromptKept ==
  ASSUME UNCHANGED inputs
  PROVE  (\A j : PromptAt(j)' <=> PromptAt(j)) /\ (RecordsPromptly' <=> RecordsPromptly)
  BY DEF PromptAt, PromptIn, RecordsPromptly, inputs

\* The stations up to a prompt one are the library's, and inside the chain.
LEMMA PromptStations ==
  ASSUME Types, NEW r \in Requests, NEW j, PromptAt(j), at[r] \in 1..j
  PROVE  /\ j \in 1..Len(chain) /\ Over = Len(chain) + 3 /\ Len(chain) \in Nat
         /\ at[r] \in DOMAIN Pipeline /\ Pipeline[at[r]] \in {"requestId", "accessLog"}
         /\ Pipeline[j] = "accessLog"
  BY PipelineIs DEF PromptAt, PromptIn, Types, WalkType

\* There a request takes the steps of those stations only, and none that fails.
LEMMA PromptSteps ==
  ASSUME Types, NEW r \in Requests, EarlyInv(r), NEW j, PromptAt(j), at[r] \in 1..j, Step(r)
  PROVE  \/ RequestIdOpens(r) \/ RequestIdAdopts(r) \/ RequestIdStandsDown(r)
         \/ AccessLog(r) /\ Pipeline[at[r]] = "accessLog"
<1>1. turn = r /\ turn # None /\ (req[r].correlationOpened => ctx[r] # None)
  BY LogContextAssumption DEF EarlyInv
<1>2. Pipeline[at[r]] \in {"requestId", "accessLog"}
  BY PromptStations
<1>3. ~Connection(r)
  BY <1>1 DEF Connection, Arrives, Finishes, ClosesDelivered, Aborts
<1>4. ~Yields(r) /\ ~Interceptor(r)
  BY <1>2 DEF Yields, Interceptor, InterceptorStandsAside, InterceptorRecordsOnly,
     InterceptorLogs, Runs
<1>5. ~Application(r)
  BY <1>1 DEF Application, Passes, MiddlewareSets, SetsContext, MiddlewareLosesContext,
     Authenticates, Rejects, HandlerLogs, HandlerNests, HandlerEmits, HandlerCompletes,
     HandlerThrows, Waits
<1>6. ~AdoptionThrows(r)
  BY <1>1 DEF AdoptionThrows, InScope
<1>7. AccessLog(r) => Pipeline[at[r]] = "accessLog"
  BY DEF AccessLog, AccessLogStandsDown, AccessLogExcludes, AccessLogRecords, Runs
<1>8. QED
  BY <1>3, <1>4, <1>5, <1>6, <1>7 DEF Step, RequestId

\* They keep the turn and the connection, and leave the request in a scope.
LEMMA PromptKeeps ==
  ASSUME Types, NEW r \in Requests, EarlyInv(r), NEW j, PromptAt(j), at[r] \in 1..j, Step(r)
  PROVE  /\ at'[r] = at[r] + 1 /\ turn' = r
         /\ ~res'[r].closed
         /\ req'[r].correlationOpened => ctx'[r] # None
         /\ at[r] = j => AccessLog(r)
<1>1. ~res[r].closed /\ (req[r].correlationOpened => ctx[r] # None)
  BY DEF EarlyInv
<1>2. \/ RequestIdOpens(r) \/ RequestIdAdopts(r) \/ RequestIdStandsDown(r)
      \/ AccessLog(r) /\ Pipeline[at[r]] = "accessLog"
  BY PromptSteps
<1>3. Continues(r)
  BY <1>2 DEF RequestIdOpens, RequestIdAdopts, RequestIdStandsDown, AccessLog,
     AccessLogStandsDown, AccessLogExcludes, AccessLogRecords
<1>4. at'[r] = at[r] + 1 /\ turn' = r
  BY <1>3, MovedTo DEF Continues
<1>5. res'[r].closed = res[r].closed
  BY <1>2 DEF RequestIdOpens, RequestIdAdopts, RequestIdStandsDown, AccessLog,
     AccessLogStandsDown, AccessLogExcludes, AccessLogRecords, Types, ResType, Responses
<1>6. req'[r].correlationOpened => ctx'[r] # None
  <2>1. CASE RequestIdOpens(r)
    <3>1. ctx'[r] = RequestScope(r)
      BY <2>1 DEF RequestIdOpens, Run, Types, ContextType
    <3>2. QED
      BY <3>1, ScopesAre, LogContextAssumption
  <2>2. CASE RequestIdAdopts(r) \/ RequestIdStandsDown(r)
    BY <1>1, <2>2 DEF RequestIdAdopts, RequestIdStandsDown, Set, contextVars
  <2>3. CASE AccessLog(r)
    <3>1. UNCHANGED ctx
      BY <2>3 DEF AccessLog, AccessLogStandsDown, AccessLogExcludes, AccessLogRecords, contextVars
    <3>2. req'[r].correlationOpened = req[r].correlationOpened
      BY <2>3 DEF AccessLog, AccessLogStandsDown, AccessLogExcludes, AccessLogRecords,
         Types, ReqType, Reqs
    <3>3. QED
      BY <1>1, <3>1, <3>2
  <2>4. QED
    BY <1>2, <2>1, <2>2, <2>3
<1>7. at[r] = j => AccessLog(r)
  <2>1. Pipeline[j] = "accessLog"
    BY PromptStations
  <2>2. RequestIdOpens(r) \/ RequestIdAdopts(r) \/ RequestIdStandsDown(r)
          => Pipeline[at[r]] = "requestId"
    BY DEF RequestIdOpens, RequestIdAdopts, RequestIdStandsDown, Runs
  <2>3. QED
    BY <1>2, <2>1, <2>2
<1>8. QED
  BY <1>1, <1>4, <1>5, <1>6, <1>7

\* A request only arrives from station 0.
LEMMA FromTheStart ==
  ASSUME Types, NEW r \in Requests, EarlyInv(r), LinesInv(r), at[r] = 0, Step(r)
  PROVE  /\ at'[r] = 1 /\ turn' = r
         /\ ~res'[r].closed /\ ~req'[r].correlationOpened
<1>1. at[r] \notin DOMAIN Pipeline
  BY PipelineIs DEF Types, WalkType
<1>2. ~res[r].ended /\ ~res[r].finished
  BY RecorderStations DEF LinesInv, OutcomeInv
<1>3. Connection(r)
  BY <1>1 DEF Runs, Waits, Step, RequestId, RequestIdOpens, RequestIdAdopts, AdoptionThrows,
     RequestIdStandsDown, AccessLog, AccessLogStandsDown, AccessLogExcludes, AccessLogRecords,
     Interceptor, InterceptorStandsAside, InterceptorRecordsOnly, InterceptorLogs, Yields,
     Application, Passes, MiddlewareSets, SetsContext, MiddlewareLosesContext, Authenticates,
     Rejects, HandlerLogs, HandlerNests, HandlerEmits, HandlerCompletes, HandlerThrows
<1>4. Arrives(r)
  BY <1>2, <1>3 DEF Connection, Finishes, ClosesDelivered, Aborts
<1>5. UNCHANGED <<req, res>> /\ Continues(r)
  BY <1>4 DEF Arrives
<1>6. at'[r] = 1 /\ turn' = r
  <2>1. at'[r] = at[r] + 1 /\ turn' = r
    BY <1>5, MovedTo DEF Continues
  <2>2. at[r] + 1 = 1
    OBVIOUS
  <2>3. QED
    BY <2>1, <2>2
<1>7. ~res[r].closed /\ ~req[r].correlationOpened
  BY DEF EarlyInv
<1>8. QED
  BY <1>5, <1>6, <1>7

-----------------------------------------------------------------------------
\* Lines stay, and only the access log middleware claims.
LEMMA KeepsTerminals ==
  ASSUME Types, NEW r \in Requests, NEW more \in Seq(LineType), LogLines(r, more)
  PROVE  TerminalsOf(r) \subseteq TerminalsOf(r)'
<1>1. lines'[r] = lines[r] \o more /\ lines[r] \in Seq(LineType)
  BY DEF LogLines, Types, LoggedType
<1>2. \A i \in DOMAIN lines[r] : i \in DOMAIN lines'[r] /\ lines'[r][i] = lines[r][i]
  BY <1>1
<1>3. QED
  BY <1>2 DEF TerminalsOf, Logged

LEMMA Claims ==
  ASSUME Types, NEW r \in Requests, Step(r)
  PROVE  req'[r].recorderActive # req[r].recorderActive => AccessLogRecords(r)
<1>1. CASE Unrecorded(r)
  BY <1>1, UnrecordedRecords DEF SameRecords
<1>2. CASE AccessLog(r) \/ Interceptor(r)
  BY <1>2 DEF AccessLog, AccessLogStandsDown, AccessLogExcludes, Interceptor,
     InterceptorStandsAside, InterceptorRecordsOnly, InterceptorLogs
<1>3. CASE HandlerEmits(r) \/ HandlerThrows(r)
  BY <1>3 DEF HandlerEmits, HandlerThrows, Types, ReqType, Reqs
<1>4. CASE ClosesDelivered(r) \/ Aborts(r)
  BY <1>4 DEF ClosesDelivered, Aborts, Closes
<1>5. QED
  BY <1>1, <1>2, <1>3, <1>4 DEF Step, Unrecorded, Application, Connection

\* Only 'close' closes, and a claimed request that was closed before keeps its line.
LEMMA ClosedKeeps ==
  ASSUME Types, NEW r \in Requests, RecorderInv(r), Step(r),
         ~(ClosesDelivered(r) \/ Aborts(r))
  PROVE  /\ res'[r].closed = res[r].closed
         /\ req[r].recorderActive => TerminalsOf(r) \subseteq TerminalsOf(r)'
<1>1. CASE Unrecorded(r)
  <2>1. AddsNothing(r) /\ SameRecords(r)
    BY <1>1, UnrecordedLines, UnrecordedRecords
  <2>2. QED
    BY <2>1, LoggedSame DEF SameRecords
<1>2. CASE AccessLog(r) \/ Interceptor(r)
  <2>1. UNCHANGED res
    BY <1>2 DEF AccessLog, AccessLogStandsDown, AccessLogExcludes, AccessLogRecords,
       Interceptor, InterceptorStandsAside, InterceptorRecordsOnly, InterceptorLogs
  <2>2. req[r].recorderActive => UNCHANGED lines
    BY <1>2 DEF AccessLog, AccessLogStandsDown, AccessLogExcludes, AccessLogRecords,
       Interceptor, InterceptorStandsAside, InterceptorRecordsOnly, InterceptorLogs
  <2>3. QED
    BY <2>1, <2>2 DEF TerminalsOf, Logged
<1>3. CASE HandlerEmits(r)
  <2>1. PICK status : /\ res' = [res EXCEPT ![r].statusCode = status]
                      /\ LogLines(r, SuccessLines(r, status))
    BY <1>3 DEF HandlerEmits
  <2>2. res'[r].closed = res[r].closed
    BY <2>1 DEF Types, ResType, Responses
  <2>3. req[r].recorderActive => SuccessLines(r, status) = <<>>
    BY DEF RecorderInv, SuccessLines
  <2>4. <<>> \in Seq(LineType)
    OBVIOUS
  <2>5. QED
    BY <2>1, <2>2, <2>3, <2>4, KeepsTerminals
<1>4. CASE HandlerThrows(r)
  <2>1. PICK error \in Errors :
          /\ LogLines(r, ErrorLines(r, error) \o FilterLines(r, error))
          /\ Answers(r, StatusOf(error))
    BY <1>4, RequestLoggingAssumption DEF HandlerThrows
  <2>2. res'[r].closed = res[r].closed
    <3>1. StatusOf(error) \in 200..599 /\ ResType
      BY StatusType DEF Types
    <3>2. QED
      BY <2>1, <3>1, AnswerType
  <2>3. req[r].recorderActive => ErrorLines(r, error) = <<>>
    BY DEF RecorderInv, ErrorLines
  <2>4. FilterLines(r, error) \in Seq(LineType)
    BY FilterLinesType
  <2>5. req[r].recorderActive => LogLines(r, FilterLines(r, error))
    BY <2>1, <2>3, <2>4
  <2>6. QED
    BY <2>2, <2>4, <2>5, KeepsTerminals
<1>5. QED
  BY <1>1, <1>2, <1>3, <1>4 DEF Step, Unrecorded, Application, Connection

\* No step goes back.
LEMMA Onward ==
  ASSUME Types, NEW r \in Requests, Step(r)
  PROVE  at'[r] >= at[r] /\ (at[r] > 0 => at'[r] > 0)
<1>1. at[r] \in 0..Over /\ Over = Len(chain) + 3 /\ Len(chain) \in Nat
  BY RecorderStations
<1>2. CASE Unrecorded(r)
  BY <1>1, <1>2, UnrecordedMoves DEF MovesElsewhere
<1>3. CASE AccessLog(r) \/ Interceptor(r)
  BY <1>1, <1>3, MovedTo DEF AccessLog, AccessLogStandsDown, AccessLogExcludes,
     AccessLogRecords, Interceptor, InterceptorStandsAside, InterceptorRecordsOnly, InterceptorLogs
<1>4. CASE HandlerEmits(r) \/ HandlerThrows(r)
  BY <1>1, <1>4, MovedTo DEF HandlerEmits, HandlerThrows
<1>5. CASE ClosesDelivered(r) \/ Aborts(r)
  BY <1>1, <1>5 DEF ClosesDelivered, Aborts, Closes
<1>6. QED
  BY <1>2, <1>3, <1>4, <1>5 DEF Step, Unrecorded, Application, Connection

-----------------------------------------------------------------------------
LEMMA EarlyStep ==
  ASSUME Types, NEW r \in Requests, EarlyInv(r), LinesInv(r), Step(r), UNCHANGED inputs
  PROVE  EarlyInv(r)'
<1>1. at[r] \in Nat /\ at'[r] >= at[r] /\ (at[r] > 0 => at'[r] > 0)
  BY Onward, RecorderStations
<1>2. CASE at[r] = 0
  <2>1. /\ at'[r] = 1 /\ turn' = r
        /\ ~res'[r].closed /\ ~req'[r].correlationOpened
    BY <1>2, FromTheStart
  <2>2. QED
    BY <2>1 DEF EarlyInv
<1>3. CASE at[r] > 0
  <2>1. ASSUME NEW j, PromptAt(j)', at'[r] \in 1..j
        PROVE  /\ turn' = r
               /\ ~res'[r].closed
               /\ req'[r].correlationOpened => ctx'[r] # None
    <3>1. PromptAt(j)
      BY <2>1, PromptKept
    <3>2. j \in Nat
      BY <3>1, PipelineIs DEF PromptAt, Types, WalkType
    <3>3. at[r] \in 1..j
      BY <1>1, <1>3, <2>1, <3>2
    <3>4. QED
      BY <3>1, <3>3, PromptKeeps
  <2>2. at'[r] # 0
    BY <1>1, <1>3
  <2>3. QED
    BY <2>1, <2>2 DEF EarlyInv
<1>4. QED
  BY <1>1, <1>2, <1>3

\* A prompt station is passed by claiming, or by being excluded.
LEMMA ClaimedPast ==
  ASSUME Types, Enabled, NEW r \in Requests, RecorderInv(r), RecorderInv(r)', EarlyInv(r),
         LinesInv(r), ClaimedInv(r), Step(r), UNCHANGED inputs, NEW j, PromptAt(j), at'[r] > j
  PROVE  req'[r].recorderActive <=> ~shape'[r].excluded
<1>1. /\ j \in 1..Len(chain) /\ chain[j] = "accessLog" /\ DOMAIN chain = 1..Len(chain)
      /\ Len(chain) \in Nat /\ Over = Len(chain) + 3 /\ at[r] \in 0..Over
  BY PipelineIs DEF PromptAt, PromptIn, Types, WalkType
<1>2. shape' = shape /\ Over' = Over
  BY PassedAfter
<1>3. CASE at[r] > j
  <2>1. req[r].recorderActive <=> ~shape[r].excluded
    BY <1>3 DEF ClaimedInv
  <2>2. AccessLogRecords(r) => ~req[r].recorderActive /\ req'[r].recorderActive
    BY DEF AccessLogRecords, Types, ReqType, Reqs
  <2>3. req'[r].recorderActive => ~shape[r].excluded
    BY <1>2 DEF RecorderInv
  <2>4. req[r].recorderActive \in BOOLEAN /\ req'[r].recorderActive # req[r].recorderActive
          => AccessLogRecords(r)
    BY Claims
  <2>5. QED
    BY <1>2, <2>1, <2>2, <2>3, <2>4, Claims
<1>4. CASE at[r] <= j
  <2>1. at[r] # 0
    <3>1. ASSUME at[r] = 0 PROVE FALSE
      <4>1. at'[r] = 1
        BY <3>1, FromTheStart
      <4>2. QED
        BY <1>1, <4>1
    <3>2. QED
      BY <3>1
  <2>2. at[r] \in 1..j
    BY <1>1, <1>4, <2>1
  <2>3. at'[r] = at[r] + 1
    BY <2>2, PromptKeeps
  <2>4. at'[r] = j + 1
    BY <1>1, <2>2, <2>3
  <2>5. at'[r] < Over' /\ PassedAccessLog(r)'
    BY <1>1, <1>2, <2>4, PassedAfter
  <2>6. Enabled /\ (Enabled /\ at'[r] < Over' /\ PassedAccessLog(r)'
                      => (req'[r].recorderActive <=> ~shape'[r].excluded))
    BY DEF RecorderInv
  <2>7. QED
    BY <2>5, <2>6
<1>5. QED
  BY <1>1, <1>3, <1>4

\* No request is claimed after its connection closed.
LEMMA ClaimsInTime ==
  ASSUME Types, PositionInv, RecordsPromptly, NEW r \in Requests, EarlyInv(r), ClaimedInv(r),
         AccessLogRecords(r)
  PROVE  ~res[r].closed
<1>1. at[r] \in 1..Len(chain) /\ chain[at[r]] = "accessLog" /\ Len(chain) \in Nat
      /\ chain \in Wirings /\ DOMAIN chain = 1..Len(chain)
  BY RecorderStations, PipelineIs DEF AccessLogRecords, Types, WalkType
<1>2. PICK j \in DOMAIN chain : PromptIn(chain, j)
  BY DEF RecordsPromptly, PromptIn
<1>3. PromptAt(j) /\ j \in 1..Len(chain)
  BY <1>1, <1>2 DEF PromptAt
<1>4. ~req[r].recorderActive /\ ~shape[r].excluded
  BY Matching DEF AccessLogRecords
<1>5. ~(at[r] > j)
  BY <1>3, <1>4 DEF ClaimedInv
<1>6. at[r] \in 1..j
  BY <1>1, <1>3, <1>5
<1>7. QED
  BY <1>3, <1>6 DEF EarlyInv

LEMMA ClaimedStep ==
  ASSUME Types, PositionInv, Enabled, NEW r \in Requests, RecorderInv(r),
         RecorderInv(r)', LinesInv(r), EarlyInv(r), ClaimedInv(r), Step(r), UNCHANGED inputs
  PROVE  ClaimedInv(r)'
<1>1. \A j : PromptAt(j)' /\ at'[r] > j => (req'[r].recorderActive <=> ~shape'[r].excluded)
  BY PromptKept, ClaimedPast
<1>2. ASSUME RecordsPromptly
      PROVE  req'[r].recorderActive /\ res'[r].closed => TerminalsOf(r)' # {}
  <2>1. CASE ClosesDelivered(r) \/ Aborts(r)
    <3>1. PICK live \in Scopes \cup {None} : Closes(r, live) /\ ~res[r].closed
      BY <2>1, ScopesAre DEF ClosesDelivered, Aborts, Types, ContextType
    <3>2. QED
      BY <3>1, LinesInvCloses
  <2>2. CASE ~(ClosesDelivered(r) \/ Aborts(r))
    <3>1. /\ res'[r].closed = res[r].closed
          /\ req[r].recorderActive => TerminalsOf(r) \subseteq TerminalsOf(r)'
      BY <2>2, ClosedKeeps
    <3>2. res[r].closed => req'[r].recorderActive = req[r].recorderActive
      BY <1>2, Claims, ClaimsInTime
    <3>3. req[r].recorderActive /\ res[r].closed => TerminalsOf(r) # {}
      BY <1>2 DEF ClaimedInv
    <3>4. QED
      BY <3>1, <3>2, <3>3
  <2>3. QED
    BY <2>1, <2>2
<1>3. QED
  BY <1>1, <1>2, PromptKept DEF ClaimedInv

\* Another request does not have the turn.
LEMMA OtherPrompt ==
  ASSUME NEW q \in Requests, SameRequest(q), UNCHANGED inputs, turn # q \/ UNCHANGED turn,
         EarlyInv(q), ClaimedInv(q)
  PROVE  EarlyInv(q)' /\ ClaimedInv(q)'
<1>1. TerminalsOf(q)' = TerminalsOf(q) /\ shape' = shape
  BY DEF SameRequest, TerminalsOf, Logged, inputs
<1>2. EarlyInv(q)'
  BY PromptKept DEF EarlyInv, SameRequest
<1>3. ClaimedInv(q)'
  BY <1>1, PromptKept DEF ClaimedInv, SameRequest
<1>4. QED
  BY <1>2, <1>3

LEMMA PromptInit == Init => PromptInv
<1> SUFFICES ASSUME Init, NEW r \in Requests PROVE EarlyInv(r) /\ ClaimedInv(r)
  BY DEF PromptInv
<1>1. /\ at[r] = 0 /\ ~res[r].closed /\ ~req[r].correlationOpened /\ ~req[r].recorderActive
      /\ DOMAIN chain = 1..Len(chain)
  BY PipelineIs DEF Init, NewRequest, NewResponse
<1>2. ASSUME NEW j, PromptAt(j) PROVE ~(at[r] \in 1..j) /\ ~(at[r] > j)
  BY <1>1, <1>2 DEF PromptAt
<1>3. QED
  BY <1>1, <1>2 DEF EarlyInv, ClaimedInv

LEMMA PromptStep ==
  ASSUME Enabled, LoggingInv, LoggingInv', PromptInv, [Next]_vars
  PROVE  PromptInv'
<1>1. CASE UNCHANGED vars
  <2>1. \A q \in Requests : SameRequest(q)
    BY <1>1 DEF SameRequest, vars, contextVars, requestVars
  <2>2. UNCHANGED inputs /\ UNCHANGED turn
    BY <1>1 DEF vars, requestVars
  <2>3. QED
    BY <2>1, <2>2, OtherPrompt DEF PromptInv
<1>2. CASE \E r \in Requests : Step(r)
  <2>1. PICK r \in Requests : Step(r)
    BY <1>2
  <2>2. UNCHANGED inputs
    <3>1. CASE Unrecorded(r)
      BY <3>1, UnrecordedRecords DEF LoggingInv
    <3>2. QED
      BY <2>1, <3>1 DEF Step, Unrecorded, AccessLog, AccessLogStandsDown, AccessLogExcludes,
         AccessLogRecords, Interceptor, InterceptorStandsAside, InterceptorRecordsOnly,
         InterceptorLogs, Application, HandlerEmits, HandlerThrows, Connection,
         ClosesDelivered, Aborts, Closes
  <2>3. EarlyInv(r)' /\ ClaimedInv(r)'
    BY <2>1, <2>2, EarlyStep, ClaimedStep DEF LoggingInv, PromptInv
  <2>4. ASSUME NEW q \in Requests \ {r}
        PROVE  EarlyInv(q)' /\ ClaimedInv(q)'
    <3>1. turn # q
      BY <2>1, HasTurn, LogContextAssumption
    <3>2. SameRequest(q)
      BY <2>1, OthersKept DEF LoggingInv
    <3>3. QED
      BY <2>2, <3>1, <3>2, OtherPrompt DEF PromptInv
  <2>5. QED
    BY <2>3, <2>4 DEF PromptInv
<1>3. QED
  BY <1>1, <1>2, NextIsStep

\* In every wiring in which the access log comes before anything asynchronous, and
\* whatever the guards, the handlers and the clients do, a request that is over has its
\* START and its terminal line, unless it is excluded.
THEOREM RequestsAccountedFor ==
  ASSUME Enabled
  PROVE  Spec => []PromptRequestsAreAccountedFor
<1>1. LoggingInv /\ LoggingInv' /\ PromptInv /\ [Next]_vars => PromptInv'
  BY PromptStep
<1>2. LoggingInv /\ PromptInv => PromptRequestsAreAccountedFor
  <2> SUFFICES ASSUME LoggingInv, PromptInv, RecordsPromptly, NEW r \in Requests, Gone(r)
               PROVE  /\ (Starts(r) = {}) = shape[r].excluded
                      /\ Starts(r) # {} => TerminalsOf(r) # {}
    BY DEF PromptRequestsAreAccountedFor, EveryRequestIsAccountedFor
  <2>1. chain \in Wirings /\ at[r] = Len(chain) + 3 /\ Len(chain) \in Nat
        /\ DOMAIN chain = 1..Len(chain)
    BY PipelineIs DEF LoggingInv, Types, WalkType, Gone
  <2>2. PICK j \in DOMAIN chain : PromptIn(chain, j)
    BY DEF RecordsPromptly, PromptIn
  <2>3. PromptAt(j) /\ at[r] > j
    BY <2>1, <2>2 DEF PromptAt
  <2>4. req[r].recorderActive <=> ~shape[r].excluded
    BY <2>3 DEF PromptInv, ClaimedInv
  <2>5. Starts(r) # {} <=> req[r].recorderActive
    <3>1. AccessLogWired
      BY DEF RecordsPromptly, AccessLogWired
    <3>2. QED
      BY <3>1 DEF LoggingInv, LinesInv, StartInv, RecorderInv
  <2>6. req[r].recorderActive => TerminalsOf(r) # {}
    BY DEF PromptInv, ClaimedInv, Gone
  <2>7. shape[r].excluded \in BOOLEAN
    BY RequestLoggingAssumption DEF LoggingInv, Types, WalkType
  <2>8. QED
    BY <2>4, <2>5, <2>6, <2>7
<1>3. QED
  BY <1>1, <1>2, PromptInit, LoggingInvariant, PTL DEF Spec

-----------------------------------------------------------------------------
(***************************************************************************)
(* Whose ids, tenant and user the lines of a request carry.                *)
(***************************************************************************)

\* Code that loses the request's context and a scope around the server do not come
\* together: else a mount would write into that scope, which all requests share.
LostToNoScope == ~(Enclosed /\ Loses)

Own(r) == {r, Outer, App, None}

ScopesOf(r)   == {RequestScope(r), NestedScope(r)}
Reachable(r) == {Base} \cup ScopesOf(r)

LEMMA ScopesDiffer ==
  ASSUME NEW r \in Requests
  PROVE  /\ ScopesOf(r) \subseteq Scopes
         /\ RequestScope(r) # NestedScope(r)
         /\ \A s \in ScopesOf(r) : s # None /\ s # Outer
         /\ \A q \in Requests \ {r} : ScopesOf(q) \cap ScopesOf(r) = {}
  BY LogContextAssumption DEF ScopesOf, RequestScope, NestedScope, Scopes

LEMMA OwnAre ==
  ASSUME NEW r \in Requests
  PROVE  /\ Own(r) \subseteq Values
         /\ Own(r) \cap (Requests \ {r}) = {}
         /\ Outer # r /\ Outer # App /\ Outer # None /\ None # r
         /\ App # r /\ App # None
  BY LogContextAssumption DEF Own, Values

-----------------------------------------------------------------------------
(***************************************************************************)
(* What a step does to the context of its request.                         *)
(***************************************************************************)

\* The steps that change a context.
Contextual(r) ==
  \/ RequestIdOpens(r)
  \/ RequestIdAdopts(r)
  \/ MiddlewareSets(r)
  \/ MiddlewareLosesContext(r)
  \/ HandlerNests(r)

\* What of the request and the response identifies it.
SameIdentity(r) ==
  /\ req'[r].correlationOpened = req[r].correlationOpened
  /\ req'[r].ownRequestId = req[r].ownRequestId
  /\ res'[r].requestIdHeader = res[r].requestIdHeader

Quiet(r) ==
  /\ UNCHANGED <<contextVars, claimed>>
  /\ SameIdentity(r)
  /\ req'[r].user \in {req[r].user, r}

LEMMA ReqOf == ASSUME Types, NEW r \in Requests PROVE req[r] \in Reqs
  BY DEF Types, ReqType

LEMMA QuietSteps ==
  ASSUME Types, NEW r \in Requests, Step(r), ~Contextual(r)
  PROVE  Quiet(r)
<1>1. req[r] \in Reqs /\ req \in [Requests -> Reqs]
  BY ReqOf DEF Types, ReqType
<1>2. res[r] \in Responses /\ res \in [Requests -> Responses]
  BY ResponseOf DEF Types, ResType
<1>3. ASSUME NEW status, Answers(r, status)
      PROVE  res'[r].requestIdHeader = res[r].requestIdHeader
  BY <1>2, <1>3 DEF Answers, Responses
<1>4. CASE AdoptionThrows(r) \/ RequestIdStandsDown(r)
  BY <1>3, <1>4 DEF AdoptionThrows, RequestIdStandsDown, Quiet, SameIdentity
<1>5. CASE AccessLog(r)
  <2>1. UNCHANGED <<contextVars, res, claimed>>
    BY <1>5 DEF AccessLog, AccessLogStandsDown, AccessLogExcludes, AccessLogRecords
  <2>2. CASE UNCHANGED req
    BY <2>1, <2>2 DEF Quiet, SameIdentity
  <2>3. CASE req' = [req EXCEPT ![r].recorderActive = TRUE]
    BY <1>1, <2>1, <2>3 DEF Quiet, SameIdentity, Reqs
  <2>4. QED
    BY <1>5, <2>2, <2>3 DEF AccessLog, AccessLogStandsDown, AccessLogExcludes, AccessLogRecords
<1>6. CASE Interceptor(r) \/ Yields(r) \/ Passes(r)
  BY <1>6 DEF Interceptor, InterceptorStandsAside, InterceptorRecordsOnly, InterceptorLogs,
     Yields, Passes, Quiet, SameIdentity
<1>7. CASE Authenticates(r)
  BY <1>1, <1>7 DEF Authenticates, Quiet, SameIdentity, Reqs
<1>8. CASE Rejects(r) \/ HandlerCompletes(r)
  BY <1>3, <1>8 DEF Rejects, HandlerCompletes, Quiet, SameIdentity
<1>9. CASE HandlerLogs(r)
  BY <1>9 DEF HandlerLogs, Quiet, SameIdentity
<1>10. CASE HandlerEmits(r)
  BY <1>2, <1>10 DEF HandlerEmits, Quiet, SameIdentity, Responses
<1>11. CASE HandlerThrows(r)
  <2>1. PICK error : /\ req' = IF watching[r] = "errors"
                               THEN [req EXCEPT ![r].recordedError = error]
                               ELSE req
                     /\ Answers(r, StatusOf(error))
    BY <1>11 DEF HandlerThrows
  <2>2. /\ req'[r].correlationOpened = req[r].correlationOpened
        /\ req'[r].ownRequestId = req[r].ownRequestId
        /\ req'[r].user = req[r].user
    BY <1>1, <2>1 DEF Reqs
  <2>3. QED
    BY <1>3, <1>11, <2>1, <2>2 DEF HandlerThrows, Quiet, SameIdentity
<1>12. CASE Connection(r)
  <2>1. UNCHANGED <<contextVars, req, claimed>>
    BY <1>12 DEF Connection, Arrives, Finishes, ClosesDelivered, Aborts, Closes
  <2>2. res'[r].requestIdHeader = res[r].requestIdHeader
    BY <1>2, <1>12 DEF Connection, Arrives, Finishes, ClosesDelivered, Aborts, Closes, Responses
  <2>3. QED
    BY <2>1, <2>2 DEF Quiet, SameIdentity
<1>13. QED
  BY <1>4, <1>5, <1>6, <1>7, <1>8, <1>9, <1>10, <1>11, <1>12
     DEF Step, Contextual, RequestId, Application

-----------------------------------------------------------------------------
(***************************************************************************)
(* What is written into which scope.                                       *)
(***************************************************************************)

\* The step writes the store of this scope and no other.
Writes(scope, store) == stores' = [stores EXCEPT ![scope] = store]

SameRes(r) == res'[r].requestIdHeader = res[r].requestIdHeader

LEMMA MergedIs ==
  ASSUME NEW base \in [Fields -> Values], NEW fields \in [Fields -> Values]
  PROVE  /\ Merged(base, fields) \in [Fields -> Values]
         /\ \A f \in Fields : Merged(base, fields)[f] = IF fields[f] # None THEN fields[f] ELSE base[f]
  BY DEF Merged

\* The store a mount opens its scope with.
LEMMA RequestContextIs ==
  ASSUME Types, NEW r \in Requests
  PROVE  /\ RequestContext(r) \in [Fields -> Values]
         /\ RequestContext(r)["requestId"] =
              IF ResolveRequestId(r) # None THEN r ELSE Get(r, "requestId")
         /\ RequestContext(r)["tenantId"] =
              IF Get(r, "tenantId") = None THEN ResolveTenantId(r) ELSE Get(r, "tenantId")
         /\ RequestContext(r)["userId"] = None
<1>1. GetStore(ctx[r]) \in [Fields -> Values]
  BY GetStoreType DEF Types, ContextType
<1>2. /\ InheritableContext(r) \in [Fields -> Values]
      /\ InheritableContext(r)["userId"] = None
      /\ InheritableContext(r)["requestId"] = Get(r, "requestId")
      /\ InheritableContext(r)["tenantId"] = Get(r, "tenantId")
  BY <1>1 DEF InheritableContext, Get, Fields, Values
<1>3. RequestContext(r) \in [Fields -> Values]
  BY RequestIdFields
<1>4. QED
  BY <1>2, <1>3 DEF RequestContext, Fields

\* What a later mount puts back.
LEMMA AdoptedFieldsAre ==
  ASSUME Types, NEW r \in Requests
  PROVE  /\ AdoptedFields(r) \in [Fields -> Values]
         /\ AdoptedFields(r)["requestId"] = req[r].ownRequestId
         /\ AdoptedFields(r)["tenantId"] =
              IF Get(r, "tenantId") = None THEN ResolveTenantId(r) ELSE None
         /\ AdoptedFields(r)["userId"] = None
<1>1. AdoptedFields(r) \in [Fields -> Values]
  BY RequestIdFields
<1>2. QED
  BY <1>1 DEF AdoptedFields, NoFields, Fields

LEMMA OpensEffect ==
  ASSUME Types, NEW r \in Requests, RequestIdOpens(r)
  PROVE  /\ ~req[r].correlationOpened
         /\ Writes(RequestScope(r), RequestContext(r))
         /\ ctx'[r] = RequestScope(r)
         /\ req'[r].correlationOpened
         /\ req'[r].ownRequestId = ResolveRequestId(r)
         /\ req'[r].user = req[r].user
         /\ res'[r].requestIdHeader = ResolveRequestId(r)
         /\ claimed' = claimed
<1>1. req[r] \in Reqs /\ req \in [Requests -> Reqs]
  BY ReqOf DEF Types, ReqType
<1>2. res[r] \in Responses /\ res \in [Requests -> Responses]
  BY ResponseOf DEF Types, ResType
<1>3. QED
  BY <1>1, <1>2 DEF RequestIdOpens, Run, Writes, Types, ContextType, Reqs, Responses

LEMMA AdoptsEffect ==
  ASSUME Types, NEW r \in Requests, RequestIdAdopts(r)
  PROVE  /\ req[r].correlationOpened /\ req[r].ownRequestId # None /\ ctx[r] # None
         /\ Writes(ctx[r], Merged(stores[ctx[r]], AdoptedFields(r)))
         /\ UNCHANGED <<ctx, req, claimed>>
         /\ res'[r].requestIdHeader = req[r].ownRequestId
<1>1. res[r] \in Responses /\ res \in [Requests -> Responses]
  BY ResponseOf DEF Types, ResType
<1>2. QED
  BY <1>1 DEF RequestIdAdopts, Set, InScope, Writes, Types, ContextType, Responses

\* The field and the value application middleware sets.
LEMMA SetsEffect ==
  ASSUME Types, NEW r \in Requests, MiddlewareSets(r)
  PROVE  \E fields \in [Fields -> Values] : \E f \in Sets :
           /\ fields[f] \in {r, App}
           /\ fields["tenantId"] # r
           /\ \A g \in Fields \ {f} : fields[g] = None
           /\ ctx[r] = RequestScope(r)
           /\ Writes(ctx[r], Merged(stores[ctx[r]], fields))
           /\ claimed' = [claimed EXCEPT ![r] = Merged(claimed[r], fields)]
           /\ UNCHANGED <<ctx, req, res>>
<1>1. PICK f \in Sets : SetsContext(r, [NoFields EXCEPT ![f] = IF f = "userId" THEN r ELSE App])
  BY DEF MiddlewareSets
<1> DEFINE fields == [NoFields EXCEPT ![f] = IF f = "userId" THEN r ELSE App]
<1>2. f \in Fields
  BY RequestLoggingAssumption
<1>3. fields \in [Fields -> Values]
  BY DEF NoFields, Values
<1>4. fields[f] \in {r, App} /\ \A g \in Fields \ {f} : fields[g] = None
  BY <1>2 DEF NoFields
<1>5. fields["tenantId"] # r
  BY <1>2, OwnAre DEF NoFields, Fields
<1>6. SetsContext(r, fields)
  BY <1>1
<1> HIDE DEF fields
<1>7. QED
  BY <1>3, <1>4, <1>5, <1>6 DEF SetsContext, Set, Writes, Types, LoggedType, ContextType

LEMMA LosesEffect ==
  ASSUME Types, NEW r \in Requests, MiddlewareLosesContext(r)
  PROVE  /\ Loses /\ ctx'[r] = Base /\ UNCHANGED <<stores, req, res, claimed>>
  BY DEF MiddlewareLosesContext, Types, ContextType

NestedFields(r) == [NoFields EXCEPT !["userId"] = r]

LEMMA NestsEffect ==
  ASSUME Types, NEW r \in Requests, HandlerNests(r)
  PROVE  /\ ctx[r] = RequestScope(r)
         /\ ctx'[r] = NestedScope(r)
         /\ Writes(NestedScope(r), Merged(stores[RequestScope(r)], NestedFields(r)))
         /\ UNCHANGED <<req, res, claimed>>
<1>1. GetStore(ctx[r]) = stores[RequestScope(r)]
  BY ScopesDiffer DEF HandlerNests, GetStore, ScopesOf
<1>2. QED
  BY <1>1 DEF HandlerNests, RunMerged, Run, Writes, NestedFields, requestVars, Types, ContextType

LEMMA NestedFieldsAre ==
  ASSUME NEW r \in Requests
  PROVE  /\ NestedFields(r) \in [Fields -> Values]
         /\ NestedFields(r)["requestId"] = None
         /\ NestedFields(r)["tenantId"] = None
         /\ NestedFields(r)["userId"] = r
  BY DEF NestedFields, NoFields, Fields, Values

-----------------------------------------------------------------------------
(***************************************************************************)
(* Whose values the scopes of a request hold.                              *)
(***************************************************************************)

\* Nothing of the request exists before its first mount.
UnopenedInv(r) ==
  ~req[r].correlationOpened =>
    /\ ctx[r] = Base
    /\ stores[RequestScope(r)] = NoFields
    /\ claimed[r] = NoFields
    /\ req[r].ownRequestId = None
    /\ res[r].requestIdHeader = None

\* It runs in a scope of its own, or in none; a shared one only before its mount.
ReachInv(r) ==
  /\ ctx[r] \in Reachable(r)
  /\ req[r].correlationOpened => ctx[r] # Outer
  /\ req[r].ownRequestId \in {None, r}
  /\ res[r].requestIdHeader \in {None, req[r].ownRequestId}
  /\ req[r].user \in {None, r}

\* Its scopes hold values of its own, of the application, or inherited; and the
\* inherited tenant, once there, is not replaced by the client's.
OwnInv(r) ==
  /\ \A s \in ScopesOf(r) : \A f \in Fields : stores[s][f] \in Own(r)
  /\ \A s \in ScopesOf(r) : stores[s]["userId"] # Outer
  /\ Enclosed => \A s \in ScopesOf(r) :
       /\ stores[s]["tenantId"] # r
       /\ req[r].correlationOpened /\ ctx[r] = s => stores[s]["tenantId"] # None

\* What the application set stays.
SurvivesInv(r) ==
  \A f \in {"userId", "tenantId"} :
    claimed[r][f] # None => stores[RequestScope(r)][f] = claimed[r][f]

SharedInv == stores[Outer] = [f \in Fields |-> Outer]

ContextInv(r) == UnopenedInv(r) /\ ReachInv(r) /\ OwnInv(r) /\ SurvivesInv(r)

LEMMA ContextInvInit ==
  ASSUME Init
  PROVE  SharedInv /\ \A r \in Requests : ContextInv(r)
<1>1. Outer \in Scopes
  BY DEF Scopes
<1>2. SharedInv
  BY <1>1 DEF Init, SharedInv
<1>3. ASSUME NEW r \in Requests
      PROVE  ContextInv(r)
  <2>1. \A s \in ScopesOf(r) : s \in Scopes /\ stores[s] = NoFields
    BY ScopesDiffer DEF Init
  <2>2. /\ RequestScope(r) \in ScopesOf(r)
        /\ \A f \in Fields : NoFields[f] = None
        /\ {"userId", "tenantId"} \subseteq Fields
    BY DEF ScopesOf, NoFields, Fields
  <2>3. /\ ctx[r] = Base /\ claimed[r] = NoFields
        /\ req[r] = NewRequest /\ res[r] = NewResponse
    BY DEF Init
  <2>4. /\ ~req[r].correlationOpened /\ req[r].ownRequestId = None /\ req[r].user = None
        /\ res[r].requestIdHeader = None
    BY <2>3 DEF NewRequest, NewResponse
  <2>5. OwnInv(r)
    BY <2>1, <2>2, <2>4, OwnAre DEF OwnInv, Own
  <2>6. QED
    BY <2>1, <2>2, <2>3, <2>4, <2>5
       DEF ContextInv, UnopenedInv, ReachInv, SurvivesInv, Reachable
<1>4. QED
  BY <1>2, <1>3

\* A step of a request leaves the scopes of the others and the shared one alone.
OthersScopesKept(r) == \A s \in Scopes \ ScopesOf(r) : stores'[s] = stores[s]

LEMMA ScopesKept ==
  ASSUME Types, NEW r \in Requests, ContextInv(r), Step(r)
  PROVE  OthersScopesKept(r) /\ \A q \in Requests \ {r} : claimed'[q] = claimed[q]
<1>1. CASE ~Contextual(r)
  BY <1>1, QuietSteps DEF Quiet, OthersScopesKept, contextVars
<1>2. ASSUME NEW scope \in ScopesOf(r), NEW store, Writes(scope, store)
      PROVE  OthersScopesKept(r)
  BY <1>2 DEF Writes, OthersScopesKept, Types, ContextType
<1>3. CASE RequestIdOpens(r)
  BY <1>2, <1>3, OpensEffect DEF ScopesOf
<1>4. CASE RequestIdAdopts(r)
  <2>1. ctx[r] \in ScopesOf(r)
    BY <1>4, AdoptsEffect DEF ContextInv, ReachInv, Reachable, Base
  <2>2. QED
    BY <1>2, <1>4, <2>1, AdoptsEffect
<1>5. CASE MiddlewareSets(r)
  <2>1. PICK fields : /\ ctx[r] = RequestScope(r)
                      /\ Writes(ctx[r], Merged(stores[ctx[r]], fields))
                      /\ claimed' = [claimed EXCEPT ![r] = Merged(claimed[r], fields)]
    BY <1>5, SetsEffect
  <2>2. \A q \in Requests \ {r} : claimed'[q] = claimed[q]
    BY <2>1 DEF Types, LoggedType
  <2>3. QED
    BY <1>2, <2>1, <2>2 DEF ScopesOf
<1>6. CASE MiddlewareLosesContext(r)
  BY <1>6, LosesEffect DEF OthersScopesKept
<1>7. CASE HandlerNests(r)
  BY <1>2, <1>7, NestsEffect DEF ScopesOf
<1>8. QED
  BY <1>1, <1>3, <1>4, <1>5, <1>6, <1>7 DEF Contextual

LEMMA ContextInvQuiet ==
  ASSUME Types, NEW r \in Requests, ContextInv(r), Quiet(r)
  PROVE  ContextInv(r)'
  BY DEF Quiet, SameIdentity, contextVars, ContextInv, UnopenedInv, ReachInv, OwnInv,
         SurvivesInv, RequestScope, NestedScope, ScopesOf, Reachable, Own, Base

\* The store written, and the rest.
LEMMA Written ==
  ASSUME Types, NEW scope \in Scopes, NEW store, Writes(scope, store)
  PROVE  stores'[scope] = store /\ \A s \in Scopes \ {scope} : stores'[s] = stores[s]
  BY DEF Writes, Types, ContextType

\* What the request's code reads is its own.
LEMMA GetIsOwn ==
  ASSUME Types, SharedInv, NEW r \in Requests, ContextInv(r), NEW f \in Fields
  PROVE  Get(r, f) \in Own(r)
<1>1. CASE ctx[r] \in ScopesOf(r)
  BY <1>1, ScopesDiffer DEF ContextInv, OwnInv, Get, GetStore
<1>2. CASE ctx[r] = Outer
  BY <1>2, LogContextAssumption DEF SharedInv, Get, GetStore, Own
<1>3. CASE ctx[r] = None
  BY <1>3 DEF Get, GetStore, NoFields, Own
<1>4. QED
  BY <1>1, <1>2, <1>3 DEF ContextInv, ReachInv, Reachable, Base

LEMMA ContextInvOpens ==
  ASSUME Types, SharedInv, NEW r \in Requests, ContextInv(r), RequestIdOpens(r)
  PROVE  ContextInv(r)'
<1> DEFINE R == RequestScope(r)
           N == NestedScope(r)
<1>1. /\ ~req[r].correlationOpened
      /\ Writes(R, RequestContext(r))
      /\ ctx'[r] = R
      /\ req'[r].correlationOpened
      /\ req'[r].ownRequestId = ResolveRequestId(r)
      /\ req'[r].user = req[r].user
      /\ res'[r].requestIdHeader = ResolveRequestId(r)
      /\ claimed' = claimed
  BY OpensEffect
<1>2. /\ R \in Scopes /\ N \in Scopes /\ R # N /\ R # None /\ R # Outer
      /\ ScopesOf(r) = {R, N}
  BY ScopesDiffer DEF ScopesOf
<1>3. stores'[R] = RequestContext(r) /\ stores'[N] = stores[N]
  BY <1>1, <1>2, Written
<1>4. ResolveRequestId(r) \in {None, r} /\ ResolveTenantId(r) \in {None, r}
  BY DEF ResolveRequestId, ResolveTenantId
<1>5. {"requestId", "tenantId", "userId"} = Fields
  BY DEF Fields
<1>6. ctx[r] = Base /\ claimed[r] = NoFields
  BY <1>1 DEF ContextInv, UnopenedInv
<1>7. \A f \in Fields : stores'[R][f] \in Own(r)
  BY <1>3, <1>4, <1>5, GetIsOwn, RequestContextIs DEF Own
<1>8. stores'[R]["userId"] = None
  BY <1>3, RequestContextIs
<1>9. Enclosed => stores'[R]["tenantId"] = Outer
  <2>1. Enclosed => Get(r, "tenantId") = Outer
    BY <1>5, <1>6, LogContextAssumption DEF Base, Get, GetStore, SharedInv
  <2>2. QED
    BY <1>3, <2>1, OwnAre, RequestContextIs
<1>10. OwnInv(r)'
  <2>1. \A f \in Fields : stores'[N][f] \in Own(r)
    BY <1>2, <1>3 DEF ContextInv, OwnInv
  <2>2. stores'[N]["userId"] # Outer /\ (Enclosed => stores'[N]["tenantId"] # r)
    BY <1>2, <1>3 DEF ContextInv, OwnInv
  <2>3. QED
    BY <1>1, <1>2, <1>7, <1>8, <1>9, <2>1, <2>2, OwnAre
       DEF OwnInv, ScopesOf, RequestScope, NestedScope, Own
<1>11. SurvivesInv(r)'
  BY <1>1, <1>6 DEF SurvivesInv, NoFields, Fields
<1>12. ReachInv(r)' /\ UnopenedInv(r)'
  BY <1>1, <1>2, <1>4 DEF ContextInv, ReachInv, UnopenedInv, Reachable, ScopesOf, Base,
     RequestScope, NestedScope
<1>13. QED
  BY <1>10, <1>11, <1>12 DEF ContextInv

LEMMA ContextInvAdopts ==
  ASSUME Types, SharedInv, NEW r \in Requests, ContextInv(r), RequestIdAdopts(r)
  PROVE  ContextInv(r)'
<1> DEFINE R == RequestScope(r)
           N == NestedScope(r)
           c == ctx[r]
<1>1. /\ req[r].correlationOpened /\ req[r].ownRequestId # None /\ c # None
      /\ Writes(c, Merged(stores[c], AdoptedFields(r)))
      /\ UNCHANGED <<ctx, req, claimed>>
      /\ res'[r].requestIdHeader = req[r].ownRequestId
  BY AdoptsEffect
<1>2. /\ R \in Scopes /\ N \in Scopes /\ R # N /\ ScopesOf(r) = {R, N}
  BY ScopesDiffer DEF ScopesOf
<1>3. c \in {R, N}
  BY <1>1, <1>2 DEF ContextInv, ReachInv, Reachable, Base
<1>4. /\ stores'[c] = Merged(stores[c], AdoptedFields(r))
      /\ \A s \in {R, N} \ {c} : stores'[s] = stores[s]
  BY <1>1, <1>2, <1>3, Written
<1>5. stores[c] \in [Fields -> Values]
  BY <1>2, <1>3 DEF Types, ContextType
<1>6. {"requestId", "tenantId", "userId"} = Fields /\ req[r].ownRequestId = r
  BY <1>1 DEF Fields, ContextInv, ReachInv
<1>7. Get(r, "tenantId") = stores[c]["tenantId"]
  BY <1>1 DEF Get, GetStore
<1>8. ResolveTenantId(r) \in {None, r}
  BY DEF ResolveTenantId
<1>9. /\ stores'[c]["requestId"] = r
      /\ stores'[c]["userId"] = stores[c]["userId"]
      /\ stores'[c]["tenantId"] \in {r, stores[c]["tenantId"]}
      /\ stores[c]["tenantId"] # None => stores'[c]["tenantId"] = stores[c]["tenantId"]
  <2>1. \A f \in Fields : stores'[c][f] = IF AdoptedFields(r)[f] # None
                                          THEN AdoptedFields(r)[f] ELSE stores[c][f]
    BY <1>4, <1>5, AdoptedFieldsAre, MergedIs
  <2>2. QED
    BY <1>6, <1>7, <1>8, <2>1, AdoptedFieldsAre, OwnAre
<1>10. \A s \in {R, N} : \A f \in Fields : stores[s][f] \in Own(r)
  BY <1>2 DEF ContextInv, OwnInv
<1>11. \A s \in {R, N} : \A f \in Fields : stores'[s][f] \in Own(r)
  BY <1>3, <1>4, <1>6, <1>9, <1>10 DEF Own
<1>12. OwnInv(r)'
  <2>1. \A s \in {R, N} : stores'[s]["userId"] = stores[s]["userId"]
    BY <1>3, <1>4, <1>9
  <2>2. Enclosed => \A s \in {R, N} : stores'[s]["tenantId"] = stores[s]["tenantId"]
    BY <1>1, <1>2, <1>3, <1>4, <1>9 DEF ContextInv, OwnInv
  <2>3. ScopesOf(r)' = {R, N} /\ RequestScope(r)' = R /\ Own(r)' = Own(r)
    BY <1>2 DEF ScopesOf, RequestScope, NestedScope, Own
  <2>4. QED
    BY <1>1, <1>2, <1>11, <2>1, <2>2, <2>3 DEF ContextInv, OwnInv
<1>13. SurvivesInv(r)'
  <2>1. \A f \in {"userId", "tenantId"} :
          stores[R][f] # None => stores'[R][f] = stores[R][f]
    BY <1>3, <1>4, <1>9
  <2>2. QED
    BY <1>1, <2>1 DEF ContextInv, SurvivesInv, RequestScope
<1>14. ReachInv(r)' /\ UnopenedInv(r)'
  BY <1>1 DEF ContextInv, ReachInv, UnopenedInv, Reachable, ScopesOf, Base,
     RequestScope, NestedScope
<1>15. QED
  BY <1>12, <1>13, <1>14 DEF ContextInv

LEMMA ContextInvSets ==
  ASSUME Types, NEW r \in Requests, ContextInv(r), MiddlewareSets(r)
  PROVE  ContextInv(r)'
<1> DEFINE R == RequestScope(r)
           N == NestedScope(r)
<1>1. PICK fields \in [Fields -> Values], f \in Sets :
        /\ fields[f] \in {r, App}
        /\ fields["tenantId"] # r
        /\ \A g \in Fields \ {f} : fields[g] = None
        /\ ctx[r] = R
        /\ Writes(ctx[r], Merged(stores[ctx[r]], fields))
        /\ claimed' = [claimed EXCEPT ![r] = Merged(claimed[r], fields)]
        /\ UNCHANGED <<ctx, req, res>>
  BY SetsEffect
<1>2. /\ R \in Scopes /\ N \in Scopes /\ R # N /\ R # Outer /\ R # None /\ ScopesOf(r) = {R, N}
  BY ScopesDiffer DEF ScopesOf
<1>3. stores'[R] = Merged(stores[R], fields) /\ stores'[N] = stores[N]
  BY <1>1, <1>2, Written
<1>4. stores[R] \in [Fields -> Values] /\ claimed[r] \in [Fields -> Values] /\ f \in Fields
  BY <1>2, RequestLoggingAssumption DEF Types, ContextType, LoggedType
<1>5. \A g \in Fields : stores'[R][g] = IF fields[g] # None THEN fields[g] ELSE stores[R][g]
  BY <1>1, <1>3, <1>4, MergedIs
<1>6. \A g \in Fields : claimed'[r][g] = IF fields[g] # None THEN fields[g] ELSE claimed[r][g]
  BY <1>1, <1>4, MergedIs DEF Types, LoggedType
<1>7. {"requestId", "tenantId", "userId"} = Fields
  BY DEF Fields
<1>8. \A g \in Fields : fields[g] \in {r, App, None}
  BY <1>1
<1>9. req[r].correlationOpened
  BY <1>1, <1>2 DEF ContextInv, UnopenedInv, Base
<1>10. \A s \in {R, N} : \A g \in Fields : stores'[s][g] \in Own(r)
  BY <1>2, <1>3, <1>5, <1>8 DEF ContextInv, OwnInv, Own
<1>11. \A s \in {R, N} : stores'[s]["userId"] # Outer
  BY <1>2, <1>3, <1>5, <1>7, <1>8, OwnAre DEF ContextInv, OwnInv
<1>12. Enclosed => \A s \in {R, N} : /\ stores'[s]["tenantId"] # r
                                     /\ ctx[r] = s => stores'[s]["tenantId"] # None
  <2>1. Enclosed => stores[R]["tenantId"] # r /\ stores[R]["tenantId"] # None
    BY <1>1, <1>2, <1>9 DEF ContextInv, OwnInv
  <2>2. Enclosed => stores'[R]["tenantId"] # r /\ stores'[R]["tenantId"] # None
    BY <1>1, <1>5, <1>7, <2>1
  <2>3. QED
    BY <1>1, <1>2, <1>3, <2>2 DEF ContextInv, OwnInv
<1>13. ScopesOf(r)' = {R, N} /\ RequestScope(r)' = R /\ Own(r)' = Own(r)
  BY <1>2 DEF ScopesOf, RequestScope, NestedScope, Own
<1>14. OwnInv(r)'
  BY <1>1, <1>10, <1>11, <1>12, <1>13 DEF OwnInv
<1>15. SurvivesInv(r)'
  BY <1>5, <1>6, <1>7, <1>13 DEF ContextInv, SurvivesInv
<1>16. ReachInv(r)' /\ UnopenedInv(r)'
  BY <1>1, <1>9 DEF ContextInv, ReachInv, UnopenedInv, Reachable, ScopesOf, Base,
     RequestScope, NestedScope
<1>17. QED
  BY <1>14, <1>15, <1>16 DEF ContextInv

LEMMA ContextInvLoses ==
  ASSUME Types, LostToNoScope, NEW r \in Requests, ContextInv(r), MiddlewareLosesContext(r)
  PROVE  ContextInv(r)'
<1>1. /\ Loses /\ ~Enclosed /\ ctx'[r] = None /\ Base = None
      /\ UNCHANGED <<stores, req, res, claimed>>
  BY LosesEffect DEF LostToNoScope, Base
<1>2. None # Outer
  BY LogContextAssumption
<1>3. QED
  BY <1>1, <1>2 DEF ContextInv, UnopenedInv, ReachInv, OwnInv, SurvivesInv, RequestScope,
     NestedScope, ScopesOf, Reachable, Own, Base

LEMMA ContextInvNests ==
  ASSUME Types, NEW r \in Requests, ContextInv(r), HandlerNests(r)
  PROVE  ContextInv(r)'
<1> DEFINE R == RequestScope(r)
           N == NestedScope(r)
<1>1. /\ ctx[r] = R /\ ctx'[r] = N
      /\ Writes(N, Merged(stores[R], NestedFields(r)))
      /\ UNCHANGED <<req, res, claimed>>
  BY NestsEffect
<1>2. /\ R \in Scopes /\ N \in Scopes /\ R # N /\ R # None /\ R # Outer /\ N # Outer
      /\ ScopesOf(r) = {R, N}
  BY ScopesDiffer DEF ScopesOf
<1>3. stores'[N] = Merged(stores[R], NestedFields(r)) /\ stores'[R] = stores[R]
  BY <1>1, <1>2, Written
<1>4. stores[R] \in [Fields -> Values]
  BY <1>2 DEF Types, ContextType
<1>5. \A g \in Fields : stores'[N][g] = IF NestedFields(r)[g] # None
                                        THEN NestedFields(r)[g] ELSE stores[R][g]
  BY <1>3, <1>4, MergedIs, NestedFieldsAre
<1>6. {"requestId", "tenantId", "userId"} = Fields
  BY DEF Fields
<1>7. req[r].correlationOpened
  BY <1>1, <1>2 DEF ContextInv, UnopenedInv, Base
<1>8. \A s \in {R, N} : \A g \in Fields : stores'[s][g] \in Own(r)
  BY <1>2, <1>3, <1>5, <1>6, NestedFieldsAre DEF ContextInv, OwnInv, Own
<1>9. Enclosed => \A s \in {R, N} : stores'[s]["tenantId"] # r /\ stores'[s]["tenantId"] # None
  <2>1. Enclosed => stores[R]["tenantId"] # r /\ stores[R]["tenantId"] # None
    BY <1>1, <1>2, <1>7 DEF ContextInv, OwnInv
  <2>2. stores'[N]["tenantId"] = stores[R]["tenantId"]
    BY <1>5, <1>6, NestedFieldsAre
  <2>3. QED
    BY <1>3, <2>1, <2>2
<1>10. ScopesOf(r)' = {R, N} /\ RequestScope(r)' = R /\ Own(r)' = Own(r)
  BY <1>2 DEF ScopesOf, RequestScope, NestedScope, Own
<1>11. OwnInv(r)'
  <2>1. stores'[N]["userId"] # Outer /\ stores'[R]["userId"] # Outer
    BY <1>2, <1>3, <1>5, <1>6, NestedFieldsAre, OwnAre DEF ContextInv, OwnInv
  <2>2. QED
    BY <1>8, <1>9, <1>10, <2>1 DEF OwnInv
<1>12. SurvivesInv(r)' /\ ReachInv(r)' /\ UnopenedInv(r)'
  BY <1>1, <1>2, <1>3, <1>7, <1>10 DEF ContextInv, SurvivesInv, ReachInv, UnopenedInv,
     Reachable, Base
<1>13. QED
  BY <1>11, <1>12 DEF ContextInv

\* The invariant, of the request that steps.
LEMMA ContextInvStep ==
  ASSUME Types, LostToNoScope, SharedInv, NEW r \in Requests, ContextInv(r), Step(r)
  PROVE  ContextInv(r)'
  BY QuietSteps, ContextInvQuiet, ContextInvOpens, ContextInvAdopts, ContextInvSets,
     ContextInvLoses, ContextInvNests DEF Contextual

\* And of the others.
LEMMA ContextInvOther ==
  ASSUME Types, NEW r \in Requests, NEW q \in Requests \ {r}, ContextInv(r), ContextInv(q), Step(r)
  PROVE  ContextInv(q)'
<1>1. SameRequest(q) /\ claimed'[q] = claimed[q] /\ OthersScopesKept(r)
  BY OthersKept, ScopesKept
<1>2. \A s \in ScopesOf(q) : stores'[s] = stores[s]
  BY <1>1, ScopesDiffer DEF OthersScopesKept
<1>3. RequestScope(q) \in ScopesOf(q)
  BY DEF ScopesOf
<1>4. /\ ScopesOf(q)' = ScopesOf(q) /\ RequestScope(q)' = RequestScope(q)
      /\ Own(q)' = Own(q) /\ Reachable(q)' = Reachable(q) /\ Base' = Base
  BY DEF ScopesOf, RequestScope, NestedScope, Own, Reachable, Base
<1>5. UnopenedInv(q)' /\ ReachInv(q)'
  BY <1>1, <1>2, <1>3, <1>4 DEF SameRequest, ContextInv, UnopenedInv, ReachInv
<1>6. OwnInv(q)' /\ SurvivesInv(q)'
  BY <1>1, <1>2, <1>3, <1>4 DEF SameRequest, ContextInv, OwnInv, SurvivesInv
<1>7. QED
  BY <1>5, <1>6 DEF ContextInv

LEMMA SharedInvStep ==
  ASSUME Types, SharedInv, NEW r \in Requests, ContextInv(r), Step(r)
  PROVE  SharedInv'
<1>1. Outer \in Scopes \ ScopesOf(r)
  BY ScopesDiffer DEF Scopes
<1>2. QED
  BY <1>1, ScopesKept DEF OthersScopesKept, SharedInv

-----------------------------------------------------------------------------
(***************************************************************************)
(* The scope a line is built in.                                           *)
(***************************************************************************)

FromScope(r, line, scope) ==
  /\ line.requestId = GetStore(scope)["requestId"]
  /\ line.tenantId = GetStore(scope)["tenantId"]
  /\ line.userId \in {req[r].user, GetStore(scope)["userId"]}

\* Where START and the interceptor's terminal lines are written.
Recording(r) ==
  \/ Runs(r, "accessLog")
  \/ InterceptorLogs(r)
  \/ Waits(r, "handler") /\ watching[r] = "all"

\* The request's own code logs in its context, a listener where it is bound or fires.
LogScope(r, line, scope) ==
  \/ scope = ctx[r] /\ (line.key \in Aside \/ Recording(r))
  \/ /\ line.key \in Terminals
     /\ \E live \in {ctx[r], Base} : \E j \in DOMAIN listeners[r] :
          scope = EmissionScope(live, listeners[r][j])

NewLine(r, line) == \E scope : FromScope(r, line, scope) /\ LogScope(r, line, scope)

OldOrNew(r) ==
  \A i \in DOMAIN lines'[r] :
    (i \in DOMAIN lines[r] /\ lines'[r][i] = lines[r][i]) \/ NewLine(r, lines'[r][i])

LEMMA LineIsFrom ==
  ASSUME NEW r \in Requests, NEW key, NEW scope, NEW error
  PROVE  FromScope(r, Line(r, key, scope, error), scope) /\ Line(r, key, scope, error).key = key
  BY DEF FromScope, Line

LEMMA TerminalIsFrom ==
  ASSUME NEW r \in Requests, NEW scope, NEW finished
  PROVE  /\ FromScope(r, Terminal(r, scope, finished), scope)
         /\ Terminal(r, scope, finished).key \in Terminals
  BY LineIsFrom DEF Terminal, Terminals

LEMMA LoggedAre ==
  ASSUME Types, NEW r \in Requests, NEW more \in Seq(LineType), LogLines(r, more),
         \A j \in DOMAIN more : NewLine(r, more[j])
  PROVE  OldOrNew(r)
<1>1. lines'[r] = lines[r] \o more /\ lines[r] \in Seq(LineType)
  BY DEF Types, LoggedType, LogLines
<1>2. \A i \in DOMAIN lines'[r] :
        \/ i \in DOMAIN lines[r] /\ lines'[r][i] = lines[r][i]
        \/ \E j \in DOMAIN more : lines'[r][i] = more[j]
  <2>1. ASSUME NEW i \in DOMAIN (lines[r] \o more), i \notin DOMAIN lines[r]
        PROVE  \E j \in DOMAIN more : (lines[r] \o more)[i] = more[j]
    <3>1. i - Len(lines[r]) \in DOMAIN more /\ (lines[r] \o more)[i] = more[i - Len(lines[r])]
      BY <1>1, <2>1
    <3>2. QED
      BY <3>1
  <2>2. \A i \in DOMAIN lines[r] : (lines[r] \o more)[i] = lines[r][i]
    BY <1>1
  <2>3. QED
    BY <1>1, <2>1, <2>2
<1>3. QED
  BY <1>2 DEF OldOrNew

\* What a request's own code logs.
LEMMA CodeLogs ==
  ASSUME NEW r \in Requests, NEW key, NEW error, key \in Aside \/ Recording(r)
  PROVE  NewLine(r, Line(r, key, ctx[r], error))
  BY LineIsFrom DEF NewLine, LogScope

LEMMA FilterLogs ==
  ASSUME NEW r \in Requests, NEW error
  PROVE  \A j \in DOMAIN FilterLines(r, error) : NewLine(r, FilterLines(r, error)[j])
<1>1. NewLine(r, Line(r, "EXCEPTION", ctx[r], error))
  BY CodeLogs DEF Aside
<1>2. QED
  BY <1>1 DEF FilterLines

LEMMA NewLines ==
  ASSUME Types, NEW r \in Requests, Step(r)
  PROVE  OldOrNew(r)
<1>1. CASE UNCHANGED lines
  BY <1>1 DEF OldOrNew
<1>2. CASE AdoptionThrows(r) \/ Rejects(r)
  BY <1>2, FilterLogs, FilterLinesType, LoggedAre DEF AdoptionThrows, Rejects, Errors
<1>3. CASE AccessLogRecords(r) \/ InterceptorLogs(r)
  <2>1. Recording(r) /\ LogLines(r, <<Line(r, "START", ctx[r], None)>>)
    BY <1>3 DEF AccessLogRecords, InterceptorLogs, Recording
  <2>2. NewLine(r, Line(r, "START", ctx[r], None))
    BY <2>1, CodeLogs
  <2>3. QED
    BY <2>1, <2>2, StartLineType, LoggedAre
<1>4. CASE HandlerLogs(r)
  <2>1. NewLine(r, Line(r, "APP", ctx[r], None))
    BY CodeLogs DEF Aside
  <2>2. "APP" \in Keys /\ ctx[r] \in Scopes \cup {None}
    BY DEF Keys, Types, ContextType
  <2>3. <<Line(r, "APP", ctx[r], None)>> \in Seq(LineType)
    BY <2>2, LineTyped
  <2>4. LogLines(r, <<Line(r, "APP", ctx[r], None)>>)
    BY <1>4 DEF HandlerLogs
  <2> DEFINE more == <<Line(r, "APP", ctx[r], None)>>
  <2>5. \A j \in DOMAIN more : NewLine(r, more[j])
    BY <2>1
  <2> HIDE DEF more
  <2>6. QED
    BY <2>3, <2>4, <2>5, LoggedAre DEF more
<1>5. CASE HandlerEmits(r)
  <2>1. PICK status : LogLines(r, SuccessLines(r, status))
    BY <1>5 DEF HandlerEmits
  <2>2. watching[r] = "all" => Recording(r)
    BY <1>5 DEF HandlerEmits, Recording
  <2>3. watching[r] = "all" =>
        /\ NewLine(r, Line(r, "SUCCESS", ctx[r], None))
        /\ NewLine(r, Line(r, "REDIRECT", ctx[r], None))
    BY <2>2, CodeLogs
  <2>4. \A j \in DOMAIN SuccessLines(r, status) : NewLine(r, SuccessLines(r, status)[j])
    BY <2>3 DEF SuccessLines
  <2>5. QED
    BY <2>1, <2>4, SuccessLinesType, LoggedAre
<1>6. CASE HandlerThrows(r)
  <2>1. PICK error \in Errors : LogLines(r, ErrorLines(r, error) \o FilterLines(r, error))
    BY <1>6, RequestLoggingAssumption DEF HandlerThrows
  <2>2. watching[r] = "all" => Recording(r)
    BY <1>6 DEF HandlerThrows, Recording
  <2>3. watching[r] = "all" =>
        /\ NewLine(r, Line(r, "SERVER_ERROR", ctx[r], error))
        /\ NewLine(r, Line(r, "CLIENT_ERROR", ctx[r], error))
    BY <2>2, CodeLogs
  <2>4. \A j \in DOMAIN ErrorLines(r, error) : NewLine(r, ErrorLines(r, error)[j])
    BY <2>3 DEF ErrorLines
  <2> DEFINE s    == ErrorLines(r, error)
             t    == FilterLines(r, error)
             more == s \o t
  <2>5. s \in Seq(LineType) /\ t \in Seq(LineType)
    BY ErrorLinesType, FilterLinesType
  <2>6. \A j \in DOMAIN t : NewLine(r, t[j])
    BY FilterLogs
  <2> HIDE DEF s, t
  <2>7. \A j \in DOMAIN more : NewLine(r, more[j])
    <3>1. ASSUME NEW j \in DOMAIN more
          PROVE  NewLine(r, more[j])
      <4>1. CASE j \in DOMAIN s
        <5>1. more[j] = s[j]
          BY <2>5, <4>1
        <5>2. QED
          BY <2>4, <4>1, <5>1 DEF s
      <4>2. CASE j \notin DOMAIN s
        <5>1. j - Len(s) \in DOMAIN t /\ more[j] = t[j - Len(s)]
          BY <2>5, <3>1, <4>2
        <5>2. QED
          BY <2>6, <5>1
      <4>3. QED
        BY <4>1, <4>2
    <3>2. QED
      BY <3>1
  <2>8. more \in Seq(LineType) /\ LogLines(r, more)
    BY <2>1, <2>5 DEF s, t
  <2>9. QED
    <3> HIDE DEF more
    <3>1. QED
      BY <2>7, <2>8, LoggedAre
<1>7. CASE ClosesDelivered(r) \/ Aborts(r)
  <2>1. PICK live \in {ctx[r], Base} : Closes(r, live)
    BY <1>7 DEF ClosesDelivered, Aborts
  <2>2. live \in Scopes \cup {None}
    BY ScopesAre DEF Types, ContextType
  <2>3. LogLines(r, ClosingLines(r, live))
    BY <2>1 DEF Closes, ClosingLines
  <2>4. ASSUME NEW j \in DOMAIN listeners[r]
        PROVE  NewLine(r, ClosingLines(r, live)[j])
    <3>1. ClosingLines(r, live)[j] =
            Terminal(r, EmissionScope(live, listeners[r][j]), res[r].finished)
      BY DEF ClosingLines
    <3>2. QED
      BY <3>1, TerminalIsFrom DEF NewLine, LogScope
  <2>5. DOMAIN ClosingLines(r, live) = DOMAIN listeners[r]
    BY DEF ClosingLines
  <2>6. QED
    BY <2>2, <2>3, <2>4, <2>5, ClosingLinesType, LoggedAre
<1>8. QED
  BY <1>1, <1>2, <1>3, <1>4, <1>5, <1>6, <1>7
     DEF Step, RequestId, RequestIdOpens, RequestIdAdopts, RequestIdStandsDown, AccessLog,
         AccessLogStandsDown, AccessLogExcludes, Interceptor, InterceptorStandsAside,
         InterceptorRecordsOnly, Yields, Application, Passes, MiddlewareSets, SetsContext,
         MiddlewareLosesContext, Authenticates, HandlerNests, HandlerCompletes, Connection,
         Arrives, Finishes, requestVars

\* A listener is bound to the context of the middleware that registers it.
LEMMA NewListeners ==
  ASSUME Types, NEW r \in Requests, Step(r)
  PROVE  \A j \in DOMAIN listeners'[r] :
           \/ j \in DOMAIN listeners[r] /\ listeners'[r][j] = listeners[r][j]
           \/ listeners'[r][j] = ctx[r] /\ Runs(r, "accessLog")
<1>1. CASE AccessLogRecords(r)
  <2>1. listeners'[r] = Append(listeners[r], ctx[r]) /\ listeners[r] \in Seq(Scopes \cup {None})
    BY <1>1 DEF AccessLogRecords, Types, ArmedType
  <2>2. ctx[r] \in Scopes \cup {None}
    BY DEF Types, ContextType
  <2>3. QED
    BY <1>1, <2>1, <2>2 DEF AccessLogRecords
<1>2. CASE UNCHANGED listeners
  BY <1>2
<1>3. QED
  BY <1>1, <1>2 DEF Step, RequestId, RequestIdOpens, RequestIdAdopts, AdoptionThrows,
     RequestIdStandsDown, AccessLog, AccessLogStandsDown, AccessLogExcludes, Interceptor,
     InterceptorStandsAside, InterceptorRecordsOnly, InterceptorLogs, Yields, Application,
     Passes, MiddlewareSets, SetsContext, MiddlewareLosesContext, Authenticates, Rejects,
     HandlerLogs, HandlerNests, HandlerEmits, HandlerCompletes, HandlerThrows, Connection,
     Arrives, Finishes, ClosesDelivered, Aborts, Closes, requestVars

-----------------------------------------------------------------------------
(***************************************************************************)
(* No line carries another request's identity.                             *)
(***************************************************************************)

BleedInv(r) ==
  /\ \A i \in DOMAIN lines[r] :
       {lines[r][i].requestId, lines[r][i].tenantId, lines[r][i].userId} \subseteq Own(r)
  /\ \A j \in DOMAIN listeners[r] : listeners[r][j] \in Reachable(r)

LEMMA StoreIsOwn ==
  ASSUME SharedInv, NEW r \in Requests, ContextInv(r), NEW scope \in Reachable(r), NEW f \in Fields
  PROVE  GetStore(scope)[f] \in Own(r)
<1>1. CASE scope \in ScopesOf(r)
  BY <1>1, ScopesDiffer DEF ContextInv, OwnInv, GetStore
<1>2. CASE scope = Outer
  BY <1>2, LogContextAssumption DEF SharedInv, GetStore, Own
<1>3. CASE scope = None
  BY <1>3 DEF GetStore, NoFields, Own
<1>4. QED
  BY <1>1, <1>2, <1>3 DEF Reachable, Base

LEMMA BleedInvStep ==
  ASSUME Types, SharedInv, NEW r \in Requests, ContextInv(r), BleedInv(r), Step(r)
  PROVE  BleedInv(r)'
<1>1. /\ Own(r)' = Own(r) /\ Reachable(r)' = Reachable(r)
      /\ {"requestId", "tenantId", "userId"} = Fields
  BY DEF ScopesOf, RequestScope, NestedScope, Own, Reachable, Base, Fields
<1>2. ctx[r] \in Reachable(r) /\ Base \in Reachable(r) /\ req[r].user \in Own(r)
  BY DEF ContextInv, ReachInv, Reachable, Own
<1>3. \A j \in DOMAIN listeners'[r] : listeners'[r][j] \in Reachable(r)
  BY <1>2, NewListeners DEF BleedInv
<1>4. ASSUME NEW line, NewLine(r, line)
      PROVE  {line.requestId, line.tenantId, line.userId} \subseteq Own(r)
  <2>1. PICK scope : FromScope(r, line, scope) /\ LogScope(r, line, scope)
    BY <1>4 DEF NewLine
  <2>2. scope \in Reachable(r)
    BY <1>2, <2>1 DEF LogScope, EmissionScope, BleedInv
  <2>3. \A f \in Fields : GetStore(scope)[f] \in Own(r)
    BY <2>2, StoreIsOwn
  <2>4. QED
    BY <1>1, <1>2, <2>1, <2>3 DEF FromScope
<1>5. \A i \in DOMAIN lines'[r] :
        {lines'[r][i].requestId, lines'[r][i].tenantId, lines'[r][i].userId} \subseteq Own(r)
  BY <1>4, NewLines DEF OldOrNew, BleedInv
<1>6. QED
  BY <1>1, <1>3, <1>5 DEF BleedInv

LEMMA BleedInvOther ==
  ASSUME NEW q \in Requests, BleedInv(q), SameRequest(q)
  PROVE  BleedInv(q)'
  BY DEF SameRequest, BleedInv, ScopesOf, RequestScope, NestedScope, Own, Reachable, Base

-----------------------------------------------------------------------------
(***************************************************************************)
(* Where a request moves.                                                  *)
(***************************************************************************)
LEMMA StepInputs ==
  ASSUME Types, NEW r \in Requests, Step(r)
  PROVE  UNCHANGED inputs
<1>1. CASE Unrecorded(r)
  BY <1>1, UnrecordedRecords
<1>2. QED
  BY <1>1 DEF Step, Unrecorded, AccessLog, AccessLogStandsDown, AccessLogExcludes,
     AccessLogRecords, Interceptor, InterceptorStandsAside, InterceptorRecordsOnly,
     InterceptorLogs, Application, HandlerEmits, HandlerThrows, Connection, ClosesDelivered,
     Aborts, Closes

LEMMA StepMoves ==
  ASSUME Types, NEW r \in Requests, Step(r)
  PROVE  at'[r] \in {at[r], at[r] + 1, Over}
<1>1. CASE Continues(r) \/ Ends(r)
  BY <1>1, MovedTo
<1>2. CASE UNCHANGED at
  BY <1>2
<1>3. QED
  BY <1>1, <1>2 DEF Step, RequestId, RequestIdOpens, RequestIdAdopts, AdoptionThrows,
     RequestIdStandsDown, AccessLog, AccessLogStandsDown, AccessLogExcludes, AccessLogRecords,
     Interceptor, InterceptorStandsAside, InterceptorRecordsOnly, InterceptorLogs, Yields,
     Application, Passes, MiddlewareSets, SetsContext, MiddlewareLosesContext, Authenticates,
     Rejects, HandlerLogs, HandlerNests, HandlerEmits, HandlerCompletes, HandlerThrows,
     Connection, Arrives, Finishes, ClosesDelivered, Aborts, Closes, requestVars

\* A mount is passed by running it.
LEMMA MountIsRun ==
  ASSUME Types, NEW r \in Requests, Step(r), at[r] \in DOMAIN Pipeline,
         Pipeline[at[r]] = "requestId", at'[r] = at[r] + 1, at'[r] < Over
  PROVE  RequestIdOpens(r) \/ RequestIdAdopts(r) \/ RequestIdStandsDown(r)
<1>1. at[r] \in Nat \ {0} /\ Over \in Nat
  BY PipelineIs DEF Types, WalkType
<1>2. at'[r] # at[r] /\ at' # at /\ ~Ends(r)
  BY <1>1, MovedTo
<1>3. ~Arrives(r)
  BY <1>1 DEF Arrives
<1>4. \A station : Runs(r, station) \/ Waits(r, station) => station = "requestId"
  BY DEF Runs, Waits
<1>5. QED
  BY <1>2, <1>3, <1>4 DEF Step, RequestId, AdoptionThrows, AccessLog, AccessLogStandsDown,
     AccessLogExcludes, AccessLogRecords, Interceptor, InterceptorStandsAside,
     InterceptorRecordsOnly, InterceptorLogs, Yields, Application, Passes, MiddlewareSets,
     SetsContext, MiddlewareLosesContext, Authenticates, Rejects, HandlerLogs, HandlerNests,
     HandlerEmits, HandlerCompletes, HandlerThrows, Connection, Finishes, ClosesDelivered,
     Aborts, Closes, requestVars

\* Where a context changes.
LEMMA ContextualAt ==
  ASSUME NEW r \in Requests, Contextual(r)
  PROVE  /\ at[r] \in DOMAIN Pipeline
         /\ RequestIdOpens(r) \/ RequestIdAdopts(r) => Pipeline[at[r]] = "requestId"
         /\ MiddlewareSets(r) \/ MiddlewareLosesContext(r) => Pipeline[at[r]] = "middleware"
         /\ HandlerNests(r) => Pipeline[at[r]] = "handler" /\ at' = at
  BY DEF Contextual, RequestIdOpens, RequestIdAdopts, MiddlewareSets, SetsContext,
         MiddlewareLosesContext, HandlerNests, Runs, Waits, requestVars

-----------------------------------------------------------------------------
(***************************************************************************)
(* The header and the store.                                               *)
(***************************************************************************)

\* The last mount, with no application middleware behind it.
LastMount(mount) ==
  /\ mount \in DOMAIN Pipeline
  /\ Pipeline[mount] = "requestId"
  /\ \A i \in mount + 1..Len(Pipeline) : Pipeline[i] \notin {"requestId", "middleware"}

HeaderInv(r) ==
  \A mount : /\ LastMount(mount)
             /\ at[r] \in mount + 1..Len(Pipeline)
             /\ res[r].requestIdHeader # None
             => Get(r, "requestId") = res[r].requestIdHeader

LEMMA LastMountKept ==
  ASSUME UNCHANGED inputs
  PROVE  (\A mount : LastMount(mount)' <=> LastMount(mount)) /\ Pipeline' = Pipeline
  BY DEF LastMount, Pipeline, inputs

\* What the mount itself establishes.
LEMMA MountEstablishes ==
  ASSUME Types, NEW r \in Requests, ContextInv(r),
         RequestIdOpens(r) \/ RequestIdAdopts(r) \/ RequestIdStandsDown(r),
         res'[r].requestIdHeader # None
  PROVE  Get(r, "requestId")' = res'[r].requestIdHeader
<1>1. "requestId" \in Fields
  BY DEF Fields
<1>2. CASE RequestIdOpens(r)
  <2>1. /\ Writes(RequestScope(r), RequestContext(r))
        /\ ctx'[r] = RequestScope(r)
        /\ res'[r].requestIdHeader = ResolveRequestId(r)
    BY <1>2, OpensEffect
  <2>2. RequestScope(r) \in Scopes /\ RequestScope(r) # None
    BY ScopesDiffer DEF ScopesOf
  <2>3. stores'[RequestScope(r)] = RequestContext(r)
    BY <2>1, <2>2, Written
  <2>4. RequestContext(r)["requestId"] = r /\ ResolveRequestId(r) = r
    BY <2>1, RequestContextIs DEF ResolveRequestId
  <2>5. QED
    BY <2>1, <2>2, <2>3, <2>4 DEF Get, GetStore
<1>3. CASE RequestIdAdopts(r)
  <2>1. /\ req[r].ownRequestId # None /\ ctx[r] # None
        /\ Writes(ctx[r], Merged(stores[ctx[r]], AdoptedFields(r)))
        /\ UNCHANGED <<ctx, req, claimed>>
        /\ res'[r].requestIdHeader = req[r].ownRequestId
    BY <1>3, AdoptsEffect
  <2>2. ctx[r] \in Scopes /\ stores[ctx[r]] \in [Fields -> Values]
    BY <2>1 DEF Types, ContextType
  <2>3. stores'[ctx[r]] = Merged(stores[ctx[r]], AdoptedFields(r))
    BY <2>1, <2>2, Written
  <2>4. stores'[ctx[r]]["requestId"] = req[r].ownRequestId
    BY <1>1, <2>1, <2>2, <2>3, MergedIs, AdoptedFieldsAre
  <2>5. QED
    BY <2>1, <2>4 DEF Get, GetStore
<1>4. CASE RequestIdStandsDown(r)
  BY <1>4 DEF RequestIdStandsDown, ContextInv, ReachInv
<1>5. QED
  BY <1>2, <1>3, <1>4

\* A nested scope inherits the id.
LEMMA NestingKeepsId ==
  ASSUME Types, NEW r \in Requests, HandlerNests(r)
  PROVE  Get(r, "requestId")' = Get(r, "requestId") /\ res' = res
<1>1. /\ ctx[r] = RequestScope(r)
      /\ ctx'[r] = NestedScope(r)
      /\ Writes(NestedScope(r), Merged(stores[RequestScope(r)], NestedFields(r)))
      /\ UNCHANGED <<req, res, claimed>>
  BY NestsEffect
<1>2. /\ RequestScope(r) \in Scopes /\ NestedScope(r) \in Scopes
      /\ RequestScope(r) # None /\ NestedScope(r) # None
  BY ScopesDiffer DEF ScopesOf
<1>3. stores[RequestScope(r)] \in [Fields -> Values] /\ "requestId" \in Fields
  BY <1>2 DEF Types, ContextType, Fields
<1>4. stores'[NestedScope(r)]["requestId"] = stores[RequestScope(r)]["requestId"]
  BY <1>1, <1>2, <1>3, Written, MergedIs, NestedFieldsAre
<1>5. QED
  BY <1>1, <1>2, <1>4 DEF Get, GetStore

LEMMA HeaderInvStep ==
  ASSUME Types, NEW r \in Requests, ContextInv(r), HeaderInv(r), Step(r)
  PROVE  HeaderInv(r)'
<1> SUFFICES ASSUME NEW mount, LastMount(mount)', at'[r] \in mount + 1..Len(Pipeline)',
                    res'[r].requestIdHeader # None
             PROVE  Get(r, "requestId")' = res'[r].requestIdHeader
  BY DEF HeaderInv
<1>1. LastMount(mount) /\ Pipeline' = Pipeline
  BY StepInputs, LastMountKept
<1>2. /\ at[r] \in Nat /\ at'[r] \in {at[r], at[r] + 1} /\ at'[r] < Over
      /\ DOMAIN Pipeline = 1..Len(Pipeline) /\ Len(Pipeline) \in Nat /\ mount \in Nat
  <2>1. chain \in Seq(Stations)
    BY RequestLoggingAssumption DEF Types, WalkType
  <2>2. Pipeline \in Seq(Stations \cup {"interceptor", "handler"})
    BY <2>1 DEF Pipeline
  <2>3. Over = Len(Pipeline) + 1 /\ at[r] \in 0..Over
    BY DEF Over, Types, WalkType
  <2>4. QED
    BY <1>1, <2>2, <2>3, StepMoves DEF LastMount
<1>3. CASE at[r] = mount
  BY <1>1, <1>2, <1>3, MountIsRun, MountEstablishes DEF LastMount
<1>4. CASE at[r] # mount
  <2>1. at[r] \in mount + 1..Len(Pipeline)
    BY <1>1, <1>2, <1>4
  <2>2. Pipeline[at[r]] \notin {"requestId", "middleware"}
    BY <1>1, <2>1 DEF LastMount
  <2>3. res[r].requestIdHeader # None => Get(r, "requestId") = res[r].requestIdHeader
    BY <1>1, <2>1 DEF HeaderInv
  <2>4. CASE Contextual(r)
    <3>1. HandlerNests(r)
      BY <2>2, <2>4, ContextualAt DEF Contextual
    <3>2. QED
      BY <2>3, <3>1, NestingKeepsId
  <2>5. CASE ~Contextual(r)
    <3>1. Quiet(r)
      BY <2>5, QuietSteps
    <3>2. QED
      BY <2>3, <3>1 DEF Quiet, SameIdentity, contextVars, Get, GetStore
  <2>6. QED
    BY <2>4, <2>5
<1>5. QED
  BY <1>3, <1>4

\* Another request's step leaves what this one's code reads.
LEMMA OtherReads ==
  ASSUME Types, SharedInv, SharedInv', NEW q \in Requests, ContextInv(q), NEW r \in Requests \ {q},
         ContextInv(r), Step(r), NEW scope \in Reachable(q)
  PROVE  GetStore(scope)' = GetStore(scope)
<1>1. CASE scope \in ScopesOf(q)
  <2>1. scope \in Scopes \ ScopesOf(r)
    BY <1>1, ScopesDiffer
  <2>2. QED
    BY <2>1, ScopesKept DEF OthersScopesKept, GetStore
<1>2. CASE scope = Base
  BY <1>2 DEF SharedInv, GetStore, Base
<1>3. QED
  BY <1>1, <1>2 DEF Reachable

LEMMA HeaderInvOther ==
  ASSUME Types, SharedInv, SharedInv', NEW q \in Requests, ContextInv(q), HeaderInv(q),
         NEW r \in Requests \ {q}, ContextInv(r), Step(r)
  PROVE  HeaderInv(q)'
<1>1. SameRequest(q) /\ UNCHANGED inputs
  BY OthersKept
<1>2. GetStore(ctx[q])' = GetStore(ctx[q])
  <2>1. ctx[q] \in Reachable(q) /\ ctx'[q] = ctx[q]
    BY <1>1 DEF ContextInv, ReachInv, SameRequest
  <2>2. \A scope \in Reachable(q) :
          (IF scope = None THEN NoFields ELSE stores'[scope])
            = (IF scope = None THEN NoFields ELSE stores[scope])
    BY OtherReads DEF GetStore
  <2>3. QED
    BY <2>1, <2>2 DEF GetStore
<1>3. QED
  BY <1>1, <1>2, LastMountKept DEF HeaderInv, Get, SameRequest

-----------------------------------------------------------------------------
(***************************************************************************)
(* Where the enclosing user may appear.                                    *)
(***************************************************************************)

\* The mount comes before anything that logs.
MountFirst == chain # <<>> /\ chain[1] = "requestId"

UserInv(r) ==
  MountFirst =>
    /\ at[r] \in 2..Len(Pipeline) => req[r].correlationOpened
    /\ \A i \in DOMAIN lines[r] : lines[r][i].userId = Outer => lines[r][i].key \in Terminals

\* Before its mount a request logs nothing but what 'close' writes.
LEMMA MountLogsNothing ==
  ASSUME Types, NEW r \in Requests, Step(r), ~req[r].correlationOpened,
         at[r] \in DOMAIN Pipeline => Pipeline[at[r]] = "requestId"
  PROVE  UNCHANGED lines \/ \E live \in {ctx[r], Base} : Closes(r, live)
<1>1. \A station : Runs(r, station) \/ Waits(r, station) => station = "requestId"
  BY DEF Runs, Waits
<1>2. QED
  BY <1>1 DEF Step, RequestId, RequestIdOpens, RequestIdAdopts, AdoptionThrows,
     RequestIdStandsDown, AccessLog, AccessLogStandsDown, AccessLogExcludes, AccessLogRecords,
     Interceptor, InterceptorStandsAside, InterceptorRecordsOnly, InterceptorLogs, Yields,
     Application, Passes, MiddlewareSets, SetsContext, MiddlewareLosesContext, Authenticates,
     Rejects, HandlerLogs, HandlerNests, HandlerEmits, HandlerCompletes, HandlerThrows,
     Connection, Arrives, Finishes, ClosesDelivered, Aborts, requestVars

\* What 'close' writes are terminal lines.
LEMMA ClosesLogTerminals ==
  ASSUME Types, NEW r \in Requests, NEW live \in {ctx[r], Base}, Closes(r, live)
  PROVE  \A i \in DOMAIN lines'[r] :
           \/ i \in DOMAIN lines[r] /\ lines'[r][i] = lines[r][i]
           \/ lines'[r][i].key \in Terminals
<1>1. ClosingLines(r, live) \in Seq(LineType) /\ DOMAIN ClosingLines(r, live) = DOMAIN listeners[r]
  <2>1. live \in Scopes \cup {None}
    BY ScopesAre DEF Types, ContextType
  <2>2. QED
    BY <2>1, ClosingLinesType DEF ClosingLines
<1>2. lines'[r] = lines[r] \o ClosingLines(r, live) /\ lines[r] \in Seq(LineType)
  BY DEF Closes, ClosingLines, LogLines, Types, LoggedType
<1>3. \A j \in DOMAIN ClosingLines(r, live) : ClosingLines(r, live)[j].key \in Terminals
  BY <1>1, TerminalIsFrom DEF ClosingLines
<1>4. ASSUME NEW i \in DOMAIN lines'[r], i \notin DOMAIN lines[r]
      PROVE  lines'[r][i].key \in Terminals
  <2>1. /\ i - Len(lines[r]) \in DOMAIN ClosingLines(r, live)
        /\ lines'[r][i] = ClosingLines(r, live)[i - Len(lines[r])]
    BY <1>1, <1>2, <1>4
  <2>2. QED
    BY <1>3, <2>1
<1>5. \A i \in DOMAIN lines[r] : lines'[r][i] = lines[r][i]
  BY <1>1, <1>2
<1>6. QED
  BY <1>4, <1>5

\* A mounted request's code does not read the enclosing user.
LEMMA MountedLogs ==
  ASSUME SharedInv, NEW r \in Requests, ContextInv(r), req[r].correlationOpened,
         NEW line, NewLine(r, line), line.userId = Outer
  PROVE  line.key \in Terminals
<1>1. PICK scope : FromScope(r, line, scope) /\ LogScope(r, line, scope)
  BY DEF NewLine
<1>2. req[r].user # Outer
  BY OwnAre DEF ContextInv, ReachInv
<1>3. GetStore(scope)["userId"] = Outer
  BY <1>1, <1>2 DEF FromScope
<1>4. ctx[r] \in ScopesOf(r) \cup {None}
  BY DEF ContextInv, ReachInv, Reachable, Base
<1>5. GetStore(ctx[r])["userId"] # Outer
  BY <1>4, OwnAre DEF ContextInv, OwnInv, GetStore, NoFields, Fields
<1>6. QED
  BY <1>1, <1>3, <1>5 DEF LogScope

LEMMA OpenedStays ==
  ASSUME Types, NEW r \in Requests, Step(r), req[r].correlationOpened
  PROVE  req'[r].correlationOpened
<1>1. CASE Contextual(r)
  BY <1>1, OpensEffect, AdoptsEffect, SetsEffect, LosesEffect, NestsEffect DEF Contextual
<1>2. CASE ~Contextual(r)
  BY <1>2, QuietSteps DEF Quiet, SameIdentity
<1>3. QED
  BY <1>1, <1>2

LEMMA UserInvStep ==
  ASSUME Types, SharedInv, NEW r \in Requests, ContextInv(r), UserInv(r), Step(r)
  PROVE  UserInv(r)'
<1>1. Pipeline' = Pipeline /\ (MountFirst' <=> MountFirst)
  BY StepInputs DEF Pipeline, MountFirst, inputs
<1> SUFFICES ASSUME MountFirst PROVE UserInv(r)'
  BY <1>1 DEF UserInv
<1>2. /\ DOMAIN Pipeline = 1..Len(Pipeline) /\ Len(Pipeline) \in Nat \ {0}
      /\ Pipeline[1] = "requestId" /\ at[r] \in 0..Over /\ Over = Len(Pipeline) + 1
  <2>1. chain \in Seq(Stations)
    BY RequestLoggingAssumption DEF Types, WalkType
  <2>2. Pipeline \in Seq(Stations \cup {"interceptor", "handler"})
    BY <2>1 DEF Pipeline
  <2>3. Len(Pipeline) = Len(chain) + 2 /\ Pipeline[1] = chain[1]
    BY <2>1 DEF MountFirst, Pipeline
  <2>4. QED
    BY <2>2, <2>3 DEF MountFirst, Over, Types, WalkType
<1>3. at'[r] \in 2..Len(Pipeline) => req'[r].correlationOpened
  <2> SUFFICES ASSUME at'[r] \in 2..Len(Pipeline) PROVE req'[r].correlationOpened
    OBVIOUS
  <2>1. at'[r] \in {at[r], at[r] + 1} /\ at'[r] < Over
    BY <1>2, StepMoves
  <2>2. CASE at[r] \in 2..Len(Pipeline)
    BY <2>2, OpenedStays DEF UserInv
  <2>3. CASE at[r] \notin 2..Len(Pipeline)
    <3>1. at[r] = 1 /\ at'[r] = at[r] + 1 /\ at[r] \in DOMAIN Pipeline
      BY <1>2, <2>1, <2>3
    <3>2. RequestIdOpens(r) \/ RequestIdAdopts(r) \/ RequestIdStandsDown(r)
      BY <1>2, <2>1, <3>1, MountIsRun
    <3>3. QED
      BY <3>2, OpensEffect, OpenedStays DEF RequestIdAdopts, RequestIdStandsDown
  <2>4. QED
    BY <2>2, <2>3
<1>4. \A i \in DOMAIN lines'[r] :
        lines'[r][i].userId = Outer => lines'[r][i].key \in Terminals
  <2>1. CASE req[r].correlationOpened
    BY <2>1, NewLines, MountedLogs DEF OldOrNew, UserInv
  <2>2. CASE ~req[r].correlationOpened
    <3>1. at[r] \in DOMAIN Pipeline => Pipeline[at[r]] = "requestId"
      BY <1>2, <2>2 DEF UserInv
    <3>2. UNCHANGED lines \/ \E live \in {ctx[r], Base} : Closes(r, live)
      BY <2>2, <3>1, MountLogsNothing
    <3>3. QED
      BY <3>2, ClosesLogTerminals DEF UserInv
  <2>3. QED
    BY <2>1, <2>2
<1>5. QED
  BY <1>1, <1>3, <1>4 DEF UserInv

LEMMA UserInvOther ==
  ASSUME NEW q \in Requests, UserInv(q), SameRequest(q), UNCHANGED inputs
  PROVE  UserInv(q)'
  BY DEF SameRequest, UserInv, MountFirst, Pipeline, inputs

-----------------------------------------------------------------------------
(***************************************************************************)
(* The invariant is inductive.                                             *)
(***************************************************************************)
IdentityInv ==
  /\ Types
  /\ SharedInv
  /\ \A r \in Requests : ContextInv(r) /\ BleedInv(r) /\ HeaderInv(r) /\ UserInv(r)

LEMMA IdentityInit == Init => IdentityInv
<1> SUFFICES ASSUME Init PROVE IdentityInv
  OBVIOUS
<1>1. Types /\ SharedInv /\ \A r \in Requests : ContextInv(r)
  BY TypeInit, ContextInvInit
<1>2. ASSUME NEW r \in Requests
      PROVE  BleedInv(r) /\ HeaderInv(r) /\ UserInv(r)
  <2>1. lines[r] = <<>> /\ listeners[r] = <<>> /\ at[r] = 0
    BY DEF Init
  <2>2. ASSUME NEW mount, LastMount(mount) PROVE at[r] \notin mount + 1..Len(Pipeline)
    <3>1. mount \in Nat \ {0}
      BY <1>1, <2>2, PipelineIs DEF LastMount, Types, WalkType
    <3>2. QED
      BY <2>1, <3>1
  <2>3. QED
    BY <2>1, <2>2 DEF BleedInv, HeaderInv, UserInv
<1>3. QED
  BY <1>1, <1>2 DEF IdentityInv

LEMMA IdentityStep ==
  ASSUME LostToNoScope, IdentityInv, [Next]_vars
  PROVE  IdentityInv'
<1>1. Types /\ Types'
  BY TypeStep DEF IdentityInv
<1>2. CASE UNCHANGED vars
  <2>1. SharedInv'
    BY <1>2 DEF vars, contextVars, IdentityInv, SharedInv
  <2>2. ASSUME NEW r \in Requests
        PROVE  ContextInv(r)' /\ BleedInv(r)' /\ HeaderInv(r)' /\ UserInv(r)'
    <3>1. Quiet(r) /\ SameRequest(r) /\ UNCHANGED inputs
      BY <1>2 DEF vars, contextVars, requestVars, Quiet, SameIdentity, SameRequest
    <3>2. ContextInv(r)' /\ BleedInv(r)' /\ UserInv(r)'
      BY <3>1, ContextInvQuiet, BleedInvOther, UserInvOther DEF IdentityInv
    <3>3. HeaderInv(r)'
      BY <3>1, LastMountKept DEF IdentityInv, HeaderInv, Quiet, SameRequest, contextVars, Get,
         GetStore
    <3>4. QED
      BY <3>2, <3>3
  <2>3. QED
    BY <1>1, <2>1, <2>2 DEF IdentityInv
<1>3. CASE \E r \in Requests : Step(r)
  <2>1. PICK r \in Requests : Step(r)
    BY <1>3
  <2>2. SharedInv'
    BY <2>1, SharedInvStep DEF IdentityInv
  <2>3. ContextInv(r)' /\ BleedInv(r)' /\ HeaderInv(r)' /\ UserInv(r)'
    BY <2>1, ContextInvStep, BleedInvStep, HeaderInvStep, UserInvStep DEF IdentityInv
  <2>4. ASSUME NEW q \in Requests \ {r}
        PROVE  ContextInv(q)' /\ BleedInv(q)' /\ HeaderInv(q)' /\ UserInv(q)'
    <3>1. r \in Requests \ {q} /\ SameRequest(q) /\ UNCHANGED inputs
      BY <2>1, OthersKept DEF IdentityInv
    <3>2. QED
      BY <2>1, <2>2, <3>1, ContextInvOther, BleedInvOther, HeaderInvOther, UserInvOther
         DEF IdentityInv
  <2>5. QED
    BY <1>1, <2>2, <2>3, <2>4 DEF IdentityInv
<1>4. QED
  BY <1>2, <1>3, NextIsStep

LEMMA IdentityInvariant ==
  ASSUME LostToNoScope
  PROVE  Spec => []IdentityInv
<1>1. IdentityInv /\ [Next]_vars => IdentityInv'
  BY IdentityStep
<1>2. QED
  BY <1>1, IdentityInit, PTL DEF Spec

\* No line of a request carries another's id, tenant or user; its scope takes no user
\* from the scope around the server; behind a first mount that user is on the terminal
\* line at most.  In any wiring, provided that no middleware drops the context of a
\* request into a scope around the server: a later mount would write into that scope
\* (request-id.middleware.ts, adoptExistingScope), and requests would share the id.
THEOREM IdentitiesAreOwn ==
  ASSUME LostToNoScope
  PROVE  Spec => []IdentityIsItsOwn
<1>1. IdentityInv => NothingBleedsAcross
  BY OwnAre DEF IdentityInv, BleedInv, NothingBleedsAcross
<1>2. IdentityInv => RequestScopesAreOwn
  BY DEF IdentityInv, ContextInv, OwnInv, ScopesOf, RequestScopesAreOwn
<1>3. IdentityInv => OuterUserOnlyAtTheEnd
  BY DEF IdentityInv, UserInv, MountFirst, OuterUserOnlyAtTheEnd
<1>4. QED
  BY <1>1, <1>2, <1>3, IdentityInvariant, PTL DEF IdentityIsItsOwn

\* Behind the last mount the header's id is the one its code reads, and what the
\* application wrote between two mounts is still there.
THEOREM LaterMountsAreConsistent ==
  ASSUME LostToNoScope
  PROVE  Spec => []SecondMountIsConsistent
<1>1. IdentityInv => HeaderMatchesStore
  BY DEF IdentityInv, HeaderInv, LastMount, HeaderMatchesStore
<1>2. IdentityInv => ApplicationContextSurvives
  BY DEF IdentityInv, ContextInv, SurvivesInv, ApplicationContextSurvives
<1>3. QED
  BY <1>1, <1>2, IdentityInvariant, PTL DEF SecondMountIsConsistent

-----------------------------------------------------------------------------
(***************************************************************************)
(* Lines that can be joined on the request's id.  A server created inside  *)
(* a scope is left out: the socket's events run there, so that the         *)
(* terminal line carries the scope's id.                                   *)
(***************************************************************************)

\* A mount comes first, and no application middleware in between loses the context.
MountedBefore(wiring, station) ==
  \E m \in 1..station - 1 :
    /\ wiring[m] = "requestId"
    /\ Loses => \A i \in m + 1..station - 1 : wiring[i] # "middleware"

\* Every access log follows a mount, and so does the interceptor where it records.
JoinableWirings ==
  \A wiring \in Wirings :
    /\ \A i \in DOMAIN wiring : wiring[i] = "accessLog" => MountedBefore(wiring, i)
    /\ \/ \E i \in DOMAIN wiring : wiring[i] = "accessLog"
       \/ MountedBefore(wiring, Len(wiring) + 1)

\* Nothing else is readable where the socket's events run, and the application leaves
\* requestId alone.
Joinable == ~Enclosed /\ "requestId" \notin Sets /\ JoinableWirings

\* What is read in this scope is the request's own id, or its having none.
ReadsOwn(r, scope) == GetStore(scope)["requestId"] = req[r].ownRequestId

ScopeReadsOwn(r) ==
  req[r].correlationOpened =>
    /\ ReadsOwn(r, RequestScope(r))
    /\ ctx[r] # None => ReadsOwn(r, ctx[r])

ListenersReadOwn(r) ==
  \A j \in DOMAIN listeners[r] :
    req[r].correlationOpened /\ ReadsOwn(r, listeners[r][j])

\* Behind a mount, where nothing lost the context since.
BehindMount(r, m) ==
  /\ m \in DOMAIN Pipeline /\ Pipeline[m] = "requestId"
  /\ at[r] \in m + 1..Len(Pipeline)
  /\ Loses => \A i \in m + 1..at[r] - 1 : Pipeline[i] # "middleware"

BehindReadsOwn(r) ==
  \A m : BehindMount(r, m) => req[r].correlationOpened /\ ReadsOwn(r, ctx[r])

LinesAreOwn(r) ==
  \A i \in Starts(r) \cup TerminalsOf(r) :
    req[r].correlationOpened /\ lines[r][i].requestId = req[r].ownRequestId

JoinInv(r) ==
  ScopeReadsOwn(r) /\ ListenersReadOwn(r) /\ BehindReadsOwn(r) /\ LinesAreOwn(r)

LEMMA NestedReadsOwn ==
  ASSUME Types, NEW r \in Requests, ScopeReadsOwn(r), req[r].correlationOpened, HandlerNests(r)
  PROVE  ReadsOwn(r, NestedScope(r))'
<1>1. /\ Writes(NestedScope(r), Merged(stores[RequestScope(r)], NestedFields(r)))
      /\ UNCHANGED req
  BY NestsEffect
<1>2. /\ RequestScope(r) \in Scopes /\ NestedScope(r) \in Scopes
      /\ RequestScope(r) # None /\ NestedScope(r) # None
  BY ScopesDiffer DEF ScopesOf
<1>3. stores[RequestScope(r)] \in [Fields -> Values] /\ "requestId" \in Fields
  BY <1>2 DEF Types, ContextType, Fields
<1>4. stores'[NestedScope(r)]["requestId"] = stores[RequestScope(r)]["requestId"]
  BY <1>1, <1>2, <1>3, Written, MergedIs, NestedFieldsAre
<1>5. stores[RequestScope(r)]["requestId"] = req[r].ownRequestId
  BY <1>2 DEF ScopeReadsOwn, ReadsOwn, GetStore
<1>6. stores'[NestedScope(r)]["requestId"] = req'[r].ownRequestId
  BY <1>1, <1>4, <1>5
<1>7. QED
  BY <1>2, <1>6 DEF ReadsOwn, GetStore, NestedScope

\* An open request keeps its id, and the scopes that give it keep giving it.
LEMMA KeepsReading ==
  ASSUME Joinable, Types, NEW r \in Requests, ContextInv(r), ScopeReadsOwn(r), Step(r),
         req[r].correlationOpened
  PROVE  /\ req'[r].correlationOpened /\ req'[r].ownRequestId = req[r].ownRequestId
         /\ \A scope \in Reachable(r) : ReadsOwn(r, scope) => ReadsOwn(r, scope)'
<1>1. "requestId" \in Fields
  BY DEF Fields
<1>2. ASSUME NEW scope \in Reachable(r)
      PROVE  scope = None \/ scope \in Scopes
  BY <1>2, ScopesDiffer DEF Reachable, Base, Joinable
<1>3. CASE ~Contextual(r)
  BY <1>3, QuietSteps DEF Quiet, SameIdentity, contextVars, ReadsOwn, GetStore
<1>4. CASE RequestIdOpens(r)
  BY <1>4 DEF RequestIdOpens
<1>5. CASE RequestIdAdopts(r)
  <2>1. /\ req[r].ownRequestId # None /\ ctx[r] # None
        /\ Writes(ctx[r], Merged(stores[ctx[r]], AdoptedFields(r)))
        /\ UNCHANGED <<ctx, req>>
    BY <1>5, AdoptsEffect
  <2>2. ctx[r] \in Scopes /\ stores[ctx[r]] \in [Fields -> Values]
    BY <2>1 DEF Types, ContextType
  <2>3. /\ stores'[ctx[r]] = Merged(stores[ctx[r]], AdoptedFields(r))
        /\ \A s \in Scopes \ {ctx[r]} : stores'[s] = stores[s]
    BY <2>1, <2>2, Written
  <2>4. stores'[ctx[r]]["requestId"] = req[r].ownRequestId
    BY <1>1, <2>1, <2>2, <2>3, MergedIs, AdoptedFieldsAre
  <2>5. QED
    BY <1>2, <2>1, <2>3, <2>4 DEF ReadsOwn, GetStore
<1>6. CASE MiddlewareSets(r)
  <2>1. PICK fields \in [Fields -> Values], f \in Sets :
          /\ \A g \in Fields \ {f} : fields[g] = None
          /\ ctx[r] = RequestScope(r)
          /\ Writes(ctx[r], Merged(stores[ctx[r]], fields))
          /\ UNCHANGED <<ctx, req>>
    BY <1>6, SetsEffect
  <2>2. fields["requestId"] = None
    BY <1>1, <2>1 DEF Joinable
  <2>3. ctx[r] \in Scopes /\ stores[ctx[r]] \in [Fields -> Values]
    BY <2>1, ScopesDiffer DEF ScopesOf, Types, ContextType
  <2>4. /\ stores'[ctx[r]] = Merged(stores[ctx[r]], fields)
        /\ \A s \in Scopes \ {ctx[r]} : stores'[s] = stores[s]
    BY <2>1, <2>3, Written
  <2>5. stores'[ctx[r]]["requestId"] = stores[ctx[r]]["requestId"]
    BY <1>1, <2>2, <2>3, <2>4, MergedIs
  <2>6. QED
    BY <1>2, <2>1, <2>4, <2>5 DEF ReadsOwn, GetStore
<1>7. CASE MiddlewareLosesContext(r)
  BY <1>7, LosesEffect DEF ReadsOwn, GetStore
<1>8. CASE HandlerNests(r)
  <2>1. /\ Writes(NestedScope(r), Merged(stores[RequestScope(r)], NestedFields(r)))
        /\ UNCHANGED req
    BY <1>8, NestsEffect
  <2>2. NestedScope(r) \in Scopes
    BY ScopesDiffer DEF ScopesOf
  <2>3. \A s \in Scopes \ {NestedScope(r)} : stores'[s] = stores[s]
    BY <2>1, <2>2, Written
  <2>4. ASSUME NEW scope \in Reachable(r), ReadsOwn(r, scope)
        PROVE  ReadsOwn(r, scope)'
    <3>1. CASE scope = NestedScope(r)
      BY <1>8, <3>1, NestedReadsOwn DEF ReadsOwn, NestedScope
    <3>2. CASE scope # NestedScope(r)
      BY <1>2, <2>1, <2>3, <2>4, <3>2 DEF ReadsOwn, GetStore
    <3>3. QED
      BY <3>1, <3>2
  <2>5. QED
    BY <2>1, <2>4
<1>9. QED
  BY <1>3, <1>4, <1>5, <1>6, <1>7, <1>8 DEF Contextual

\* How the scope the request's code runs in changes.
LEMMA ContextMoves ==
  ASSUME Types, NEW r \in Requests, ContextInv(r), Step(r)
  PROVE  \/ ctx'[r] = ctx[r]
         \/ RequestIdOpens(r)
         \/ MiddlewareLosesContext(r)
         \/ HandlerNests(r) /\ ctx'[r] = NestedScope(r) /\ req[r].correlationOpened
<1>1. CASE ~Contextual(r)
  BY <1>1, QuietSteps DEF Quiet, contextVars
<1>2. CASE RequestIdAdopts(r)
  BY <1>2, AdoptsEffect
<1>3. CASE MiddlewareSets(r)
  BY <1>3, SetsEffect
<1>4. CASE HandlerNests(r)
  <2>1. ctx[r] = RequestScope(r) /\ ctx'[r] = NestedScope(r)
    BY <1>4, NestsEffect
  <2>2. ctx[r] # Base
    BY <2>1, ScopesDiffer DEF ScopesOf, Base
  <2>3. QED
    BY <1>4, <2>1, <2>2 DEF ContextInv, UnopenedInv
<1>5. QED
  BY <1>1, <1>2, <1>3, <1>4 DEF Contextual

\* A request is opened by its first mount only.
LEMMA OpenedBy ==
  ASSUME Types, NEW r \in Requests, Step(r), ~req[r].correlationOpened,
         req'[r].correlationOpened
  PROVE  RequestIdOpens(r)
<1>1. CASE ~Contextual(r)
  BY <1>1, QuietSteps DEF Quiet, SameIdentity
<1>2. QED
  BY <1>1, AdoptsEffect, SetsEffect, LosesEffect, NestsEffect DEF Contextual

LEMMA OpensReadsOwn ==
  ASSUME Joinable, Types, NEW r \in Requests, ContextInv(r), RequestIdOpens(r)
  PROVE  ReadsOwn(r, RequestScope(r))' /\ ctx'[r] = RequestScope(r)
<1>1. /\ ~req[r].correlationOpened
      /\ Writes(RequestScope(r), RequestContext(r))
      /\ ctx'[r] = RequestScope(r)
      /\ req'[r].ownRequestId = ResolveRequestId(r)
  BY OpensEffect
<1>2. ctx[r] = None
  BY <1>1 DEF ContextInv, UnopenedInv, Base, Joinable
<1>3. Get(r, "requestId") = None
  BY <1>2 DEF Get, GetStore, NoFields, Fields
<1>4. RequestContext(r)["requestId"] = ResolveRequestId(r)
  BY <1>3, RequestContextIs DEF ResolveRequestId
<1>5. RequestScope(r) \in Scopes /\ RequestScope(r) # None
  BY ScopesDiffer DEF ScopesOf
<1>6. stores'[RequestScope(r)]["requestId"] = ResolveRequestId(r)
  BY <1>1, <1>4, <1>5, Written
<1>7. QED
  BY <1>1, <1>5, <1>6 DEF ReadsOwn, GetStore, RequestScope

LEMMA ScopeReadsOwnStep ==
  ASSUME Joinable, Types, NEW r \in Requests, ContextInv(r), ScopeReadsOwn(r), Step(r)
  PROVE  ScopeReadsOwn(r)'
<1>1. CASE RequestIdOpens(r)
  BY <1>1, OpensReadsOwn DEF ScopeReadsOwn, ReadsOwn, RequestScope
<1>2. CASE ~RequestIdOpens(r)
  <2>1. SUFFICES ASSUME req'[r].correlationOpened PROVE ScopeReadsOwn(r)'
    BY DEF ScopeReadsOwn
  <2>2. req[r].correlationOpened
    BY <1>2, <2>1, OpenedBy
  <2>3. RequestScope(r) \in Reachable(r) /\ ctx[r] \in Reachable(r)
    BY DEF Reachable, ScopesOf, ContextInv, ReachInv
  <2>4. ReadsOwn(r, RequestScope(r))'
    BY <2>2, <2>3, KeepsReading DEF ScopeReadsOwn, ReadsOwn, RequestScope
  <2>5. ASSUME ctx'[r] # None
        PROVE  ReadsOwn(r, ctx[r])'
    <3>1. CASE ctx'[r] = ctx[r]
      <4>1. \A scope \in Reachable(r) : ReadsOwn(r, scope) =>
              (IF scope = None THEN NoFields ELSE stores'[scope])["requestId"]
                = req'[r].ownRequestId
        BY <2>2, KeepsReading DEF ReadsOwn, GetStore
      <4>2. ReadsOwn(r, ctx[r])
        BY <2>2, <2>5, <3>1 DEF ScopeReadsOwn
      <4>3. QED
        BY <2>3, <3>1, <4>1, <4>2 DEF ReadsOwn, GetStore
    <3>2. CASE MiddlewareLosesContext(r)
      BY <2>5, <3>2, LosesEffect DEF Base, Joinable
    <3>3. CASE HandlerNests(r) /\ ctx'[r] = NestedScope(r)
      BY <2>2, <3>3, NestedReadsOwn DEF ReadsOwn, GetStore, NestedScope
    <3>4. QED
      BY <1>2, <3>1, <3>2, <3>3, ContextMoves
  <2>6. QED
    BY <2>4, <2>5 DEF ScopeReadsOwn
<1>3. QED
  BY <1>1, <1>2

\* Behind a mount the request reads its own id.
LEMMA BehindReadsOwnStep ==
  ASSUME Joinable, Types, NEW r \in Requests, ContextInv(r), ContextInv(r)', ScopeReadsOwn(r),
         ScopeReadsOwn(r)', BehindReadsOwn(r), Step(r)
  PROVE  BehindReadsOwn(r)'
<1> SUFFICES ASSUME NEW m, BehindMount(r, m)'
             PROVE  req'[r].correlationOpened /\ ReadsOwn(r, ctx[r])'
  BY DEF BehindReadsOwn
<1>1. Pipeline' = Pipeline
  BY StepInputs DEF Pipeline, inputs
<1>2. /\ m \in 1..Len(Pipeline) /\ Pipeline[m] = "requestId"
      /\ at'[r] \in m + 1..Len(Pipeline)
      /\ Loses => \A i \in m + 1..at'[r] - 1 : Pipeline[i] # "middleware"
      /\ at[r] \in Nat /\ at'[r] \in {at[r], at[r] + 1} /\ at'[r] < Over
      /\ DOMAIN Pipeline = 1..Len(Pipeline) /\ Len(Pipeline) \in Nat
  <2>1. chain \in Seq(Stations)
    BY RequestLoggingAssumption DEF Types, WalkType
  <2>2. Pipeline \in Seq(Stations \cup {"interceptor", "handler"})
    BY <2>1 DEF Pipeline
  <2>3. Over = Len(Pipeline) + 1 /\ at[r] \in 0..Over
    BY DEF Over, Types, WalkType
  <2>4. QED
    BY <1>1, <2>2, <2>3, StepMoves DEF BehindMount
<1>3. req'[r].correlationOpened /\ ctx'[r] # None => ReadsOwn(r, ctx[r])'
  BY DEF ScopeReadsOwn
<1>4. ctx'[r] = None => GetStore(ctx[r])' = NoFields /\ NoFields["requestId"] = None
  BY DEF GetStore, NoFields, Fields
<1>5. CASE at[r] = m
  <2>1. RequestIdOpens(r) \/ RequestIdAdopts(r) \/ RequestIdStandsDown(r)
    BY <1>2, <1>5, MountIsRun
  <2>2. CASE RequestIdOpens(r)
    BY <1>3, <2>2, OpensEffect, ScopesDiffer DEF ScopesOf
  <2>3. CASE RequestIdAdopts(r)
    BY <1>3, <2>3, AdoptsEffect
  <2>4. CASE RequestIdStandsDown(r)
    <3>1. req' = req /\ req[r].correlationOpened /\ req[r].ownRequestId = None
      BY <2>4 DEF RequestIdStandsDown
    <3>2. QED
      BY <1>3, <1>4, <3>1 DEF ReadsOwn
  <2>5. QED
    BY <2>1, <2>2, <2>3, <2>4
<1>6. CASE at[r] # m
  <2>1. BehindMount(r, m)
    BY <1>2, <1>6 DEF BehindMount
  <2>2. req[r].correlationOpened /\ ReadsOwn(r, ctx[r])
    BY <2>1 DEF BehindReadsOwn
  <2>3. req'[r].correlationOpened /\ req'[r].ownRequestId = req[r].ownRequestId
    BY <2>2, KeepsReading
  <2>4. ~MiddlewareLosesContext(r)
    <3>1. SUFFICES ASSUME MiddlewareLosesContext(r) PROVE FALSE
      OBVIOUS
    <3>2. Loses /\ Pipeline[at[r]] = "middleware" /\ Continues(r)
      BY <3>1, ContextualAt DEF Contextual, MiddlewareLosesContext
    <3>3. at'[r] = at[r] + 1
      BY <3>2, MovedTo
    <3>4. at[r] \in m + 1..at'[r] - 1
      BY <1>2, <1>6, <3>3
    <3>5. QED
      BY <1>2, <3>2, <3>4
  <2>5. ctx'[r] = None => ctx[r] = None
    BY <2>2, <2>4, ContextMoves, OpensEffect, ScopesDiffer DEF ScopesOf
  <2>6. QED
    BY <1>3, <1>4, <2>2, <2>3, <2>5 DEF ReadsOwn, GetStore
<1>7. QED
  BY <1>5, <1>6

\* Where a line is recorded, a mount is behind.
LEMMA RecordingReadsOwn ==
  ASSUME Joinable, Types, NEW r \in Requests, RecorderInv(r), RecorderInv(r)', BehindReadsOwn(r),
         Step(r), Recording(r)
  PROVE  req[r].correlationOpened /\ ReadsOwn(r, ctx[r])
<1>1. /\ Len(chain) \in Nat /\ DOMAIN chain = 1..Len(chain) /\ chain \in Wirings
      /\ DOMAIN Pipeline = 1..(Len(chain) + 2)
      /\ \A i \in 1..Len(chain) : Pipeline[i] = chain[i]
      /\ Pipeline[Len(chain) + 1] = "interceptor"
  BY PipelineIs DEF Types, WalkType
<1>2. Len(Pipeline) = Len(chain) + 2
  BY <1>1 DEF Pipeline
<1> PICK n \in Nat : n = Len(chain)
  BY <1>1
<1>0. at[r] \in Nat
  BY RecorderStations
<1> PICK a \in Nat : a = at[r]
  BY <1>0
<1>3. ASSUME NEW p \in Nat, 1 <= p, p <= n + 1, a = p \/ (a = n + 2 /\ p = n + 1),
             MountedBefore(chain, p)
      PROVE  req[r].correlationOpened /\ ReadsOwn(r, ctx[r])
  <2>1. PICK m \in Nat : /\ 1 <= m /\ m <= p - 1 /\ chain[m] = "requestId"
                         /\ Loses => \A i \in m + 1..p - 1 : chain[i] # "middleware"
    BY <1>3 DEF MountedBefore
  <2>2. /\ DOMAIN Pipeline = 1..n + 2 /\ Len(Pipeline) = n + 2
        /\ \A i \in 1..n : Pipeline[i] = chain[i]
        /\ Pipeline[n + 1] = "interceptor"
    BY <1>1, <1>2, <1>3
  <2>3. m \in 1..n /\ m \in 1..n + 2 /\ a \in m + 1..n + 2
    BY <1>3, <2>1
  <2>4. ASSUME Loses, NEW i \in m + 1..a - 1
        PROVE  Pipeline[i] # "middleware"
    <3>1. (i \in m + 1..p - 1 /\ i \in 1..n) \/ i = n + 1
      BY <1>3, <2>1
    <3>2. QED
      BY <2>1, <2>2, <2>4, <3>1
  <2>5. BehindMount(r, m)
    BY <1>3, <2>1, <2>2, <2>3, <2>4 DEF BehindMount
  <2>6. QED
    BY <2>5 DEF BehindReadsOwn
<1>4. CASE Runs(r, "accessLog")
  <2>1. a \in 1..n /\ chain[a] = "accessLog"
    BY <1>4, RecorderStations
  <2>2. MountedBefore(chain, a)
    BY <1>1, <2>1 DEF Joinable, JoinableWirings
  <2>3. QED
    BY <1>3, <2>1, <2>2
<1>5. CASE InterceptorLogs(r)
  <2>1. a = n + 1
    BY <1>5, RecorderStations DEF InterceptorLogs
  <2>2. watching'[r] = "all"
    BY <1>5 DEF InterceptorLogs, Types, ArmedType
  <2>3. ~AccessLogWired'
    BY <2>2 DEF RecorderInv
  <2>4. ~AccessLogWired
    BY <2>3, StepInputs DEF AccessLogWired, inputs
  <2>5. MountedBefore(chain, n + 1)
    BY <1>1, <2>4 DEF AccessLogWired, Joinable, JoinableWirings
  <2>6. QED
    BY <1>3, <2>1, <2>5
<1>6. CASE Waits(r, "handler") /\ watching[r] = "all"
  <2>1. ~AccessLogWired /\ a = n + 2
    BY <1>6, RecorderStations DEF RecorderInv
  <2>2. MountedBefore(chain, n + 1)
    BY <1>1, <2>1 DEF AccessLogWired, Joinable, JoinableWirings
  <2>3. QED
    BY <1>3, <2>1, <2>2
<1>7. QED
  BY <1>4, <1>5, <1>6 DEF Recording

LEMMA ListenersReadOwnStep ==
  ASSUME Joinable, Types, NEW r \in Requests, RecorderInv(r), RecorderInv(r)', ContextInv(r),
         BleedInv(r), JoinInv(r), Step(r)
  PROVE  ListenersReadOwn(r)'
<1>1. ASSUME req[r].correlationOpened, NEW scope \in Reachable(r), ReadsOwn(r, scope)
      PROVE  /\ req'[r].correlationOpened
             /\ (IF scope = None THEN NoFields ELSE stores'[scope])["requestId"]
                  = req'[r].ownRequestId
  <2>1. req'[r].correlationOpened /\ ReadsOwn(r, scope)'
    BY <1>1, KeepsReading DEF JoinInv
  <2>2. QED
    BY <2>1 DEF ReadsOwn, GetStore
<1>2. ASSUME NEW j \in DOMAIN listeners'[r]
      PROVE  /\ listeners'[r][j] \in Reachable(r)
             /\ req[r].correlationOpened /\ ReadsOwn(r, listeners'[r][j])
  <2>1. CASE j \in DOMAIN listeners[r] /\ listeners'[r][j] = listeners[r][j]
    BY <2>1 DEF JoinInv, ListenersReadOwn, BleedInv
  <2>2. CASE listeners'[r][j] = ctx[r] /\ Runs(r, "accessLog")
    BY <2>2, RecordingReadsOwn DEF Recording, JoinInv, ContextInv, ReachInv
  <2>3. QED
    BY <2>1, <2>2, NewListeners
<1>3. QED
  BY <1>1, <1>2 DEF ListenersReadOwn, ReadsOwn, GetStore

\* What is logged now carries the id the request has.
LEMMA NewLineIsOwn ==
  ASSUME Joinable, Types, NEW r \in Requests, RecorderInv(r), RecorderInv(r)', JoinInv(r),
         Step(r), NEW line, NewLine(r, line), line.key \notin Aside
  PROVE  req[r].correlationOpened /\ line.requestId = req[r].ownRequestId
<1>1. PICK scope : FromScope(r, line, scope) /\ LogScope(r, line, scope)
  BY DEF NewLine
<1>2. line.requestId = GetStore(scope)["requestId"]
  BY <1>1 DEF FromScope
<1>3. CASE scope = ctx[r] /\ Recording(r)
  BY <1>2, <1>3, RecordingReadsOwn DEF JoinInv, ReadsOwn
<1>4. ASSUME NEW live \in {ctx[r], Base}, NEW j \in DOMAIN listeners[r],
             scope = EmissionScope(live, listeners[r][j])
      PROVE  req[r].correlationOpened /\ ReadsOwn(r, scope)
  <2>1. req[r].correlationOpened /\ ReadsOwn(r, listeners[r][j])
    BY DEF JoinInv, ListenersReadOwn
  <2>2. ctx[r] # None => ReadsOwn(r, ctx[r])
    BY <2>1 DEF JoinInv, ScopeReadsOwn
  <2>3. Base = None
    BY DEF Base, Joinable
  <2>4. QED
    BY <1>4, <2>1, <2>2, <2>3 DEF EmissionScope
<1>5. QED
  BY <1>1, <1>2, <1>3, <1>4 DEF LogScope, ReadsOwn

LEMMA LinesAreOwnStep ==
  ASSUME Joinable, Types, NEW r \in Requests, RecorderInv(r), RecorderInv(r)', ContextInv(r),
         JoinInv(r), Step(r)
  PROVE  LinesAreOwn(r)'
<1> SUFFICES ASSUME NEW i \in DOMAIN lines'[r], lines'[r][i].key \in {"START"} \cup Terminals
             PROVE  req'[r].correlationOpened /\ lines'[r][i].requestId = req'[r].ownRequestId
  BY DEF LinesAreOwn, Starts, TerminalsOf, Logged
<1>1. req[r].correlationOpened /\ lines'[r][i].requestId = req[r].ownRequestId
  <2>1. CASE i \in DOMAIN lines[r] /\ lines'[r][i] = lines[r][i]
    BY <2>1 DEF JoinInv, LinesAreOwn, Starts, TerminalsOf, Logged
  <2>2. CASE NewLine(r, lines'[r][i])
    <3>1. lines'[r][i].key \notin Aside
      BY DEF Aside, Terminals
    <3>2. QED
      BY <2>2, <3>1, NewLineIsOwn
  <2>3. QED
    BY <2>1, <2>2, NewLines DEF OldOrNew
<1>2. QED
  BY <1>1, KeepsReading DEF JoinInv

LEMMA JoinInvStep ==
  ASSUME Joinable, Types, NEW r \in Requests, RecorderInv(r), RecorderInv(r)', ContextInv(r),
         ContextInv(r)', BleedInv(r), JoinInv(r), Step(r)
  PROVE  JoinInv(r)'
<1>1. ScopeReadsOwn(r)'
  BY ScopeReadsOwnStep DEF JoinInv
<1>2. QED
  BY <1>1, BehindReadsOwnStep, ListenersReadOwnStep, LinesAreOwnStep DEF JoinInv

\* The scopes of a request give what they gave.
LEMMA JoinInvSame ==
  ASSUME NEW q \in Requests, ContextInv(q), BleedInv(q), JoinInv(q), SameRequest(q),
         UNCHANGED inputs,
         \A scope \in Reachable(q) : (IF scope = None THEN NoFields ELSE stores'[scope])
                                     = (IF scope = None THEN NoFields ELSE stores[scope])
  PROVE  JoinInv(q)'
<1>1. RequestScope(q) \in Reachable(q) /\ RequestScope(q)' = RequestScope(q)
      /\ ctx[q] \in Reachable(q) /\ \A j \in DOMAIN listeners[q] : listeners[q][j] \in Reachable(q)
  BY DEF Reachable, ScopesOf, RequestScope, ContextInv, ReachInv, BleedInv
<1>2. ScopeReadsOwn(q)'
  BY <1>1 DEF SameRequest, JoinInv, ScopeReadsOwn, ReadsOwn, GetStore
<1>3. ListenersReadOwn(q)'
  BY <1>1 DEF SameRequest, JoinInv, ListenersReadOwn, ReadsOwn, GetStore
<1>4. BehindReadsOwn(q)'
  <2>1. \A m : BehindMount(q, m)' => BehindMount(q, m)
    BY DEF SameRequest, BehindMount, Pipeline, inputs
  <2>2. \A m : BehindMount(q, m) => req[q].correlationOpened /\ ReadsOwn(q, ctx[q])
    BY DEF JoinInv, BehindReadsOwn
  <2>3. ReadsOwn(q, ctx[q]) => ReadsOwn(q, ctx[q])'
    BY <1>1 DEF SameRequest, ReadsOwn, GetStore
  <2>4. req'[q].correlationOpened = req[q].correlationOpened
    BY DEF SameRequest
  <2>5. QED
    BY <2>1, <2>2, <2>3, <2>4 DEF BehindReadsOwn
<1>5. LinesAreOwn(q)'
  BY DEF SameRequest, JoinInv, LinesAreOwn, Starts, TerminalsOf, Logged
<1>6. QED
  BY <1>2, <1>3, <1>4, <1>5 DEF JoinInv

AllJoin == \A r \in Requests : JoinInv(r)

LEMMA AllJoinInit == Init => AllJoin
<1> SUFFICES ASSUME Init, NEW r \in Requests PROVE JoinInv(r)
  BY DEF AllJoin
<1>1. /\ lines[r] = <<>> /\ listeners[r] = <<>> /\ at[r] = 0 /\ ~req[r].correlationOpened
      /\ DOMAIN Pipeline = 1..(Len(chain) + 2) /\ Len(chain) \in Nat
  BY PipelineIs DEF Init, NewRequest
<1>2. ASSUME NEW m, BehindMount(r, m) PROVE FALSE
  BY <1>1, <1>2 DEF BehindMount
<1>3. QED
  BY <1>1, <1>2 DEF JoinInv, ScopeReadsOwn, ListenersReadOwn, BehindReadsOwn, LinesAreOwn,
     Starts, TerminalsOf, Logged

LEMMA AllJoinStep ==
  ASSUME Joinable, LoggingInv, LoggingInv', IdentityInv, IdentityInv', AllJoin, [Next]_vars
  PROVE  AllJoin'
<1>1. CASE UNCHANGED vars
  <2>1. ASSUME NEW q \in Requests PROVE JoinInv(q)'
    <3>1. SameRequest(q) /\ UNCHANGED inputs /\ stores' = stores
      BY <1>1 DEF vars, contextVars, requestVars, SameRequest
    <3>2. QED
      BY <3>1, JoinInvSame DEF IdentityInv, AllJoin
  <2>2. QED
    BY <2>1 DEF AllJoin
<1>2. CASE \E r \in Requests : Step(r)
  <2>1. PICK r \in Requests : Step(r)
    BY <1>2
  <2>2. JoinInv(r)'
    BY <2>1, JoinInvStep DEF LoggingInv, IdentityInv, AllJoin
  <2>3. ASSUME NEW q \in Requests \ {r}
        PROVE  JoinInv(q)'
    <3>1. r \in Requests \ {q} /\ SameRequest(q) /\ UNCHANGED inputs
      BY <2>1, OthersKept DEF IdentityInv
    <3>2. ASSUME NEW scope \in Reachable(q)
          PROVE  (IF scope = None THEN NoFields ELSE stores'[scope])
                   = (IF scope = None THEN NoFields ELSE stores[scope])
      BY <2>1, <3>1, OtherReads DEF GetStore, IdentityInv
    <3>3. QED
      BY <3>1, <3>2, JoinInvSame DEF IdentityInv, AllJoin
  <2>4. QED
    BY <2>2, <2>3 DEF AllJoin
<1>3. QED
  BY <1>1, <1>2, NextIsStep

\* In a server that was not created inside a scope, where every recorder follows a mount
\* that the application does not undo, the START and the terminal line of a request carry
\* its own id, wherever 'close' fires, or neither carries one (http-access-log.middleware,
\* EmissionScope).  In an enclosed server the code does not give this.
THEOREM LinesAreJoinable ==
  ASSUME Joinable
  PROVE  Spec => []AccessLinesAreJoinable
<1>1. LostToNoScope
  BY DEF Joinable, LostToNoScope
<1>2. /\ LoggingInv /\ LoggingInv' /\ IdentityInv /\ IdentityInv' /\ AllJoin /\ [Next]_vars
      => AllJoin'
  BY AllJoinStep
<1>3. AllJoin => AccessLinesAreJoinable
  BY DEF AllJoin, JoinInv, LinesAreOwn, AccessLinesAreJoinable
<1>4. Spec => []IdentityInv
  BY <1>1, IdentityInvariant
<1>5. QED
  BY <1>2, <1>3, <1>4, AllJoinInit, LoggingInvariant, PTL DEF Spec
=============================================================================
