---------------------------- MODULE RequestLogging ----------------------------
(***************************************************************************)
(* What is logged of an HTTP request, from its arrival to the end of its   *)
(* connection: the correlation scope (middlewares/request-id.middleware),  *)
(* the access log (middlewares/http-access-log.middleware), the global     *)
(* interceptor and exception filter, and the state they share on the       *)
(* request object (utils/http-log-state.util).                             *)
(*                                                                         *)
(* A request walks a chain of stations.  The library's are synchronous;    *)
(* the application's (its middleware, the body parser, its guards, the     *)
(* handler) give up the turn, and meanwhile other requests run and the     *)
(* connection may die.                                                     *)
(***************************************************************************)
EXTENDS LogContext, Integers, Sequences

CONSTANTS
  Wirings,     \* chains of stations before the interceptor, in mounting order
  Enclosed,    \* the server was created inside a scope
  Generate,    \* http.shouldGenerateRequestId
  Enabled,     \* http.isEnabled
  Filter,      \* the library's exception filter is registered
  Stateful,    \* the exclude pattern carries a position (g or y)
  Loses,       \* application middleware may lose the asynchronous context
  Sets,        \* fields it may set
  Shapes,      \* what clients send: with an id, with a tenant, on an excluded path
  Statuses,    \* statuses handlers answer with
  Failures,    \* errors handlers throw
  MaxValues    \* bound: how many values a handler's observable emits

Stations == {"requestId", "accessLog", "middleware", "parser", "guard"}
Errors   == {"http4xx", "http5xx", "error"}

ASSUME RequestLoggingAssumption ==
  /\ Wirings \subseteq Seq(Stations)
  /\ {Enclosed, Generate, Enabled, Filter, Stateful, Loses} \subseteq BOOLEAN
  /\ Sets \subseteq Fields
  /\ Shapes \subseteq [id : BOOLEAN, tenant : BOOLEAN, excluded : BOOLEAN]
  /\ Statuses \subseteq 200..599
  /\ Failures \subseteq Errors
  /\ MaxValues \in Nat \ {0}

VARIABLES
  chain,      \* how the application is wired; never changes
  shape,      \* what each request carries; never changes
  at,         \* the station each request is at
  turn,       \* the request whose synchronous code is running
  req,        \* the request object
  res,        \* the response object
  listeners,  \* its 'close' listeners: the scope each is bound to
  watching,   \* what the interceptor reports of the handler
  values,     \* how many values the handler emitted
  lastIndex,  \* the exclude pattern's position
  lines,      \* what was logged of each request
  claimed,    \* history: fields the application set in the request's scope
  thrown      \* history: the error that passed the interceptor

inputs == <<chain, shape>>
requestVars == <<inputs, at, turn, req, res, listeners, watching, values, lastIndex,
                 lines, claimed, thrown>>
vars == <<contextVars, requestVars>>

Keys == {"START", "SUCCESS", "REDIRECT", "CLIENT_ERROR", "SERVER_ERROR", "ABORTED",
         "EXCEPTION", "APP"}

HTTP_REDIRECT_MIN     == 300
HTTP_CLIENT_ERROR_MIN == 400
HTTP_SERVER_ERROR_MIN == 500

\* The context outside any request's own scope: where the socket's events run.
Base == IF Enclosed THEN Outer ELSE None

Pipeline == chain \o <<"interceptor", "handler">>
Over     == Len(Pipeline) + 1

\* The request is at this station, with the turn, or waiting for its own.
Runs(r, station)  == turn = r /\ at[r] \in DOMAIN Pipeline /\ Pipeline[at[r]] = station
Waits(r, station) == turn = None /\ at[r] \in DOMAIN Pipeline /\ Pipeline[at[r]] = station

\* next(): the following station runs in the same turn.
Continues(r) ==
  /\ at' = [at EXCEPT ![r] = @ + 1]
  /\ turn' = r

Ends(r) ==
  /\ at' = [at EXCEPT ![r] = Over]
  /\ turn' = None

-----------------------------------------------------------------------------
(***************************************************************************)
(* Lines.                                                                  *)
(***************************************************************************)

\* The mixin reads the scope the line is built in; an explicit user wins.
Line(r, key, scope, error) ==
  [key       |-> key,
   requestId |-> GetStore(scope).requestId,
   tenantId  |-> GetStore(scope).tenantId,
   userId    |-> IF req[r].user # None THEN req[r].user ELSE GetStore(scope).userId,
   error     |-> error]

LogLines(r, more) == lines' = [lines EXCEPT ![r] = @ \o more]

StatusOf(error) ==
  CASE error = "http4xx" -> 404
    [] error = "http5xx" -> 503
    [] error = "error"   -> 500

\* The exception layer: the library's filter, if registered, logs the error;
\* either way it is answered with its status.
Answers(r, status) == res' = [res EXCEPT ![r].statusCode = status, ![r].ended = TRUE]

FilterLines(r, error) ==
  IF Filter THEN <<Line(r, "EXCEPTION", ctx[r], error)>> ELSE <<>>

-----------------------------------------------------------------------------
(***************************************************************************)
(* Excluded paths: one pattern, shared by every test of every request.     *)
(***************************************************************************)

\* Mutant: the pattern resumes from where the last test left it.
MatchPositionKept == lastIndex

MatchPosition == IF Stateful THEN 0 ELSE lastIndex

MatchesExcludePath(r) == shape[r].excluded /\ MatchPosition = 0

PositionAfterTest(r) ==
  lastIndex' = IF Stateful /\ MatchesExcludePath(r) THEN 1 ELSE 0

-----------------------------------------------------------------------------
(***************************************************************************)
(* RequestIdMiddleware.                                                    *)
(***************************************************************************)

\* The inbound id when acceptable, or a minted one: either is the request's own.
ResolveRequestId(r) == IF shape[r].id \/ Generate THEN r ELSE None
ResolveTenantId(r)  == IF shape[r].tenant THEN r ELSE None

\* Mutant: the whole enclosing store is inherited.
InheritableContextAll(r) == GetStore(ctx[r])

InheritableContext(r) == [GetStore(ctx[r]) EXCEPT !.userId = None]

\* The store a request starts from: its own id over an inherited one, the
\* inherited tenant over the client's header.
RequestContext(r) ==
  LET inherited == InheritableContext(r) IN
  [inherited EXCEPT
     !.requestId = IF ResolveRequestId(r) # None THEN r ELSE @,
     !.tenantId  = IF @ = None THEN ResolveTenantId(r) ELSE @]

\* Mutant: the enclosing store is enriched instead of opening a new one.
RequestIdOpensInPlace(r) ==
  /\ Runs(r, "requestId")
  /\ ~req[r].correlationOpened
  /\ req' = [req EXCEPT ![r].correlationOpened = TRUE, ![r].ownRequestId = ResolveRequestId(r)]
  /\ res' = [res EXCEPT ![r].requestIdHeader = ResolveRequestId(r)]
  /\ IF ctx[r] = Outer THEN Set(r, RequestContext(r))
                       ELSE Run(r, RequestScope(r), RequestContext(r))
  /\ Continues(r)
  /\ UNCHANGED <<inputs, listeners, watching, values, lastIndex, lines, claimed, thrown>>

\* Mutant: a second mount is recognized by the id alone.
RequestIdOpensAgain(r) ==
  /\ Runs(r, "requestId")
  /\ req[r].ownRequestId = None
  /\ req' = [req EXCEPT ![r].correlationOpened = TRUE, ![r].ownRequestId = ResolveRequestId(r)]
  /\ res' = [res EXCEPT ![r].requestIdHeader = ResolveRequestId(r)]
  /\ Run(r, RequestScope(r), RequestContext(r))
  /\ Continues(r)
  /\ UNCHANGED <<inputs, listeners, watching, values, lastIndex, lines, claimed, thrown>>

\* First mount: a new scope, never a write into the enclosing one.
RequestIdOpens(r) ==
  /\ Runs(r, "requestId")
  /\ ~req[r].correlationOpened
  /\ req' = [req EXCEPT ![r].correlationOpened = TRUE, ![r].ownRequestId = ResolveRequestId(r)]
  /\ res' = [res EXCEPT ![r].requestIdHeader = ResolveRequestId(r)]
  /\ Run(r, RequestScope(r), RequestContext(r))
  /\ Continues(r)
  /\ UNCHANGED <<inputs, listeners, watching, values, lastIndex, lines, claimed, thrown>>

\* Mutant: the id is echoed but not put back into the store.
AdoptedFieldsTenantOnly(r) ==
  [NoFields EXCEPT !.tenantId = IF Get(r, "tenantId") = None THEN ResolveTenantId(r) ELSE None]

\* adoptExistingScope: the validated id is put back, a missing tenant filled in.
AdoptedFields(r) ==
  [NoFields EXCEPT
     !.requestId = req[r].ownRequestId,
     !.tenantId  = IF Get(r, "tenantId") = None THEN ResolveTenantId(r) ELSE None]

RequestIdAdopts(r) ==
  /\ Runs(r, "requestId")
  /\ req[r].correlationOpened
  /\ req[r].ownRequestId # None
  /\ res' = [res EXCEPT ![r].requestIdHeader = req[r].ownRequestId]
  /\ Set(r, AdoptedFields(r))
  /\ Continues(r)
  /\ UNCHANGED <<inputs, req, listeners, watching, values, lastIndex, lines, claimed, thrown>>

\* set throws when the context was lost on the way from the first mount.
AdoptionThrows(r) ==
  /\ Runs(r, "requestId")
  /\ req[r].correlationOpened
  /\ req[r].ownRequestId # None
  /\ ~InScope(r)
  /\ LogLines(r, FilterLines(r, "error"))
  /\ Answers(r, StatusOf("error"))
  /\ Ends(r)
  /\ UNCHANGED <<contextVars, inputs, req, listeners, watching, values, lastIndex, claimed, thrown>>

\* Second mount on a request that has no id of its own: nothing to do.
RequestIdStandsDown(r) ==
  /\ Runs(r, "requestId")
  /\ req[r].correlationOpened
  /\ req[r].ownRequestId = None
  /\ Continues(r)
  /\ UNCHANGED <<contextVars, inputs, req, res, listeners, watching, values, lastIndex,
                 lines, claimed, thrown>>

-----------------------------------------------------------------------------
(***************************************************************************)
(* HttpAccessLogMiddleware.                                                *)
(***************************************************************************)

AccessLogStandsDown(r) ==
  /\ Runs(r, "accessLog")
  /\ req[r].recorderActive \/ ~Enabled
  /\ Continues(r)
  /\ UNCHANGED <<contextVars, inputs, req, res, listeners, watching, values, lastIndex,
                 lines, claimed, thrown>>

AccessLogExcludes(r) ==
  /\ Runs(r, "accessLog")
  /\ ~req[r].recorderActive /\ Enabled
  /\ MatchesExcludePath(r)
  /\ PositionAfterTest(r)
  /\ Continues(r)
  /\ UNCHANGED <<contextVars, inputs, req, res, listeners, watching, values, lines, claimed, thrown>>

\* Mutant: the request is not claimed.
AccessLogRecordsUnclaimed(r) ==
  /\ Runs(r, "accessLog")
  /\ ~req[r].recorderActive /\ Enabled
  /\ ~MatchesExcludePath(r)
  /\ PositionAfterTest(r)
  /\ LogLines(r, <<Line(r, "START", ctx[r], None)>>)
  /\ listeners' = [listeners EXCEPT ![r] = Append(@, ctx[r])]
  /\ Continues(r)
  /\ UNCHANGED <<contextVars, inputs, req, res, watching, values, claimed, thrown>>

\* The request is claimed, START logged, and the terminal line armed, bound to
\* the scope of the middleware.
AccessLogRecords(r) ==
  /\ Runs(r, "accessLog")
  /\ ~req[r].recorderActive /\ Enabled
  /\ ~MatchesExcludePath(r)
  /\ PositionAfterTest(r)
  /\ req' = [req EXCEPT ![r].recorderActive = TRUE]
  /\ LogLines(r, <<Line(r, "START", ctx[r], None)>>)
  /\ listeners' = [listeners EXCEPT ![r] = Append(@, ctx[r])]
  /\ Continues(r)
  /\ UNCHANGED <<contextVars, inputs, res, watching, values, claimed, thrown>>

\* Mutant: the status alone decides.
TerminalByStatus(r, scope, finished) ==
  LET status == res[r].statusCode IN
  IF status >= HTTP_SERVER_ERROR_MIN THEN Line(r, "SERVER_ERROR", scope, req[r].recordedError)
  ELSE IF status >= HTTP_CLIENT_ERROR_MIN THEN Line(r, "CLIENT_ERROR", scope, req[r].recordedError)
  ELSE IF status >= HTTP_REDIRECT_MIN THEN Line(r, "REDIRECT", scope, None)
  ELSE Line(r, "SUCCESS", scope, None)

\* logTerminal: delivery first, then the status. An error is attached if the
\* interceptor recorded one.
Terminal(r, scope, finished) ==
  LET status == res[r].statusCode IN
  IF ~finished THEN Line(r, "ABORTED", scope, None)
  ELSE IF status >= HTTP_SERVER_ERROR_MIN THEN Line(r, "SERVER_ERROR", scope, req[r].recordedError)
  ELSE IF status >= HTTP_CLIENT_ERROR_MIN THEN Line(r, "CLIENT_ERROR", scope, req[r].recordedError)
  ELSE IF status >= HTTP_REDIRECT_MIN THEN Line(r, "REDIRECT", scope, None)
  ELSE Line(r, "SUCCESS", scope, None)

\* Mutant: the terminal line is built wherever the event fires.
EmissionScopeLive(live, bound) == live

\* The live scope when there is one, else the one bound at registration.
EmissionScope(live, bound) == IF live # None THEN live ELSE bound

\* Mutant: the listener waits for 'finish', which an abort never fires.
ClosesOnFinish(r, live) ==
  /\ res' = [res EXCEPT ![r].closed = TRUE]
  /\ LogLines(r, [i \in DOMAIN IF res[r].finished THEN listeners[r] ELSE <<>> |->
                    Terminal(r, EmissionScope(live, listeners[r][i]), res[r].finished)])
  /\ UNCHANGED <<contextVars, inputs, at, turn, req, listeners, watching, values, lastIndex,
                 claimed, thrown>>

\* 'close' fires: every listener logs its terminal line.
Closes(r, live) ==
  /\ res' = [res EXCEPT ![r].closed = TRUE]
  /\ LogLines(r, [i \in DOMAIN listeners[r] |->
                    Terminal(r, EmissionScope(live, listeners[r][i]), res[r].finished)])
  /\ UNCHANGED <<contextVars, inputs, at, turn, req, listeners, watching, values, lastIndex,
                 claimed, thrown>>

-----------------------------------------------------------------------------
(***************************************************************************)
(* The connection.                                                         *)
(***************************************************************************)

NewRequest ==
  [recorderActive |-> FALSE, correlationOpened |-> FALSE, ownRequestId |-> None,
   recordedError |-> None, user |-> None]

NewResponse ==
  [statusCode |-> 200, requestIdHeader |-> None, ended |-> FALSE, finished |-> FALSE,
   closed |-> FALSE]

Arrives(r) ==
  /\ turn = None
  /\ at[r] = 0
  /\ Continues(r)
  /\ UNCHANGED <<contextVars, inputs, req, res, listeners, watching, values, lastIndex,
                 lines, claimed, thrown>>

\* The response's last byte is handed to the operating system.
Finishes(r) ==
  /\ turn = None
  /\ res[r].ended /\ ~res[r].finished /\ ~res[r].closed
  /\ res' = [res EXCEPT ![r].finished = TRUE]
  /\ UNCHANGED <<contextVars, inputs, at, turn, req, listeners, watching, values, lastIndex,
                 lines, claimed, thrown>>

\* 'close' after 'finish': in the request's context, or in the socket's.
ClosesDelivered(r) ==
  /\ turn = None
  /\ res[r].finished /\ ~res[r].closed
  /\ \E live \in {ctx[r], Base} : Closes(r, live)

\* The connection dies first: 'close' alone, in the socket's context.
Aborts(r) ==
  /\ turn = None
  /\ at[r] > 0
  /\ ~res[r].finished /\ ~res[r].closed
  /\ Closes(r, Base)

-----------------------------------------------------------------------------
(***************************************************************************)
(* The application.                                                        *)
(***************************************************************************)

\* An asynchronous station gives up the turn.
Yields(r) ==
  /\ \E station \in {"middleware", "parser", "guard", "handler"} : Runs(r, station)
  /\ turn' = None
  /\ UNCHANGED <<contextVars, inputs, at, req, res, listeners, watching, values, lastIndex,
                 lines, claimed, thrown>>

\* The station is done and changed nothing.
Passes(r) ==
  /\ \E station \in {"middleware", "parser", "guard"} : Waits(r, station)
  /\ Continues(r)
  /\ UNCHANGED <<contextVars, inputs, req, res, listeners, watching, values, lastIndex,
                 lines, claimed, thrown>>

\* Application middleware sets fields of the request's scope.
SetsContext(r, fields) ==
  /\ Waits(r, "middleware")
  /\ ctx[r] = RequestScope(r)
  /\ Set(r, fields)
  /\ claimed' = [claimed EXCEPT ![r] = Merged(@, fields)]
  /\ Continues(r)
  /\ UNCHANGED <<inputs, req, res, listeners, watching, values, lastIndex, lines, thrown>>

MiddlewareSets(r) ==
  \E f \in Sets :
    SetsContext(r, [NoFields EXCEPT ![f] = IF f = "userId" THEN r ELSE App])

\* Its continuation runs in a callback created elsewhere.
MiddlewareLosesContext(r) ==
  /\ Waits(r, "middleware")
  /\ Loses
  /\ ctx' = [ctx EXCEPT ![r] = Base]
  /\ Continues(r)
  /\ UNCHANGED <<stores, inputs, req, res, listeners, watching, values, lastIndex, lines,
                 claimed, thrown>>

\* The guard authenticates: it attaches the principal.
Authenticates(r) ==
  /\ Waits(r, "guard")
  /\ req' = [req EXCEPT ![r].user = r]
  /\ Continues(r)
  /\ UNCHANGED <<contextVars, inputs, res, listeners, watching, values, lastIndex, lines,
                 claimed, thrown>>

\* The parser refuses the body, or a guard the request, or no route matches:
\* no interceptor runs.
Rejects(r) ==
  /\ \E station \in {"parser", "guard"} : Waits(r, station)
  /\ LogLines(r, FilterLines(r, "http4xx"))
  /\ Answers(r, StatusOf("http4xx"))
  /\ Ends(r)
  /\ UNCHANGED <<contextVars, inputs, req, listeners, watching, values, lastIndex, claimed, thrown>>

HandlerLogs(r) ==
  /\ Waits(r, "handler")
  /\ \A i \in DOMAIN lines[r] : lines[r][i].key # "APP"
  /\ LogLines(r, <<Line(r, "APP", ctx[r], None)>>)
  /\ UNCHANGED <<contextVars, inputs, at, turn, req, res, listeners, watching, values,
                 lastIndex, claimed, thrown>>

\* The rest of the handler runs inside runMerged({ userId }).
HandlerNests(r) ==
  /\ Waits(r, "handler")
  /\ ctx[r] = RequestScope(r)
  /\ RunMerged(r, NestedScope(r), [NoFields EXCEPT !.userId = r])
  /\ UNCHANGED requestVars

-----------------------------------------------------------------------------
(***************************************************************************)
(* HttpLoggingInterceptor, around the handler.                             *)
(***************************************************************************)

\* Also the pass-through interceptor, which stands in when logging is off.
InterceptorStandsAside(r) ==
  /\ Runs(r, "interceptor")
  /\ ~Enabled \/ (~req[r].recorderActive /\ MatchesExcludePath(r))
  /\ IF Enabled THEN PositionAfterTest(r) ELSE UNCHANGED lastIndex
  /\ watching' = [watching EXCEPT ![r] = "nothing"]
  /\ Continues(r)
  /\ UNCHANGED <<contextVars, inputs, req, res, listeners, values, lines, claimed, thrown>>

\* Mutant: a claimed request is left to the middleware entirely.
InterceptorIgnoresClaimed(r) ==
  /\ Runs(r, "interceptor")
  /\ Enabled /\ req[r].recorderActive
  /\ watching' = [watching EXCEPT ![r] = "nothing"]
  /\ Continues(r)
  /\ UNCHANGED <<contextVars, inputs, req, res, listeners, values, lastIndex, lines, claimed, thrown>>

InterceptorRecordsOnly(r) ==
  /\ Runs(r, "interceptor")
  /\ Enabled /\ req[r].recorderActive
  /\ watching' = [watching EXCEPT ![r] = "errors"]
  /\ Continues(r)
  /\ UNCHANGED <<contextVars, inputs, req, res, listeners, values, lastIndex, lines, claimed, thrown>>

InterceptorLogs(r) ==
  /\ Runs(r, "interceptor")
  /\ Enabled /\ ~req[r].recorderActive
  /\ ~MatchesExcludePath(r)
  /\ PositionAfterTest(r)
  /\ LogLines(r, <<Line(r, "START", ctx[r], None)>>)
  /\ watching' = [watching EXCEPT ![r] = "all"]
  /\ Continues(r)
  /\ UNCHANGED <<contextVars, inputs, req, res, listeners, values, claimed, thrown>>

\* logSuccess: nothing for a status set without throwing.
SuccessLines(r, status) ==
  IF watching[r] # "all" \/ status >= HTTP_CLIENT_ERROR_MIN THEN <<>>
  ELSE IF status >= HTTP_REDIRECT_MIN THEN <<Line(r, "REDIRECT", ctx[r], None)>>
  ELSE <<Line(r, "SUCCESS", ctx[r], None)>>

\* The handler's observable emits a value; the first is a promise's only one.
HandlerEmits(r) ==
  /\ Waits(r, "handler")
  /\ values[r] < MaxValues
  /\ \E status \in IF values[r] = 0 THEN Statuses ELSE {res[r].statusCode} :
       /\ res' = [res EXCEPT ![r].statusCode = status]
       /\ LogLines(r, SuccessLines(r, status))
  /\ values' = [values EXCEPT ![r] = @ + 1]
  /\ UNCHANGED <<contextVars, inputs, at, turn, req, listeners, watching, lastIndex, claimed, thrown>>

\* It completes: the response is sent.
HandlerCompletes(r) ==
  /\ Waits(r, "handler")
  /\ values[r] > 0
  /\ Answers(r, res[r].statusCode)
  /\ Ends(r)
  /\ UNCHANGED <<contextVars, inputs, req, listeners, watching, values, lastIndex, lines,
                 claimed, thrown>>

\* logError.
ErrorLines(r, error) ==
  IF watching[r] # "all" THEN <<>>
  ELSE IF StatusOf(error) >= HTTP_SERVER_ERROR_MIN
       THEN <<Line(r, "SERVER_ERROR", ctx[r], error)>>
       ELSE <<Line(r, "CLIENT_ERROR", ctx[r], error)>>

\* The error is logged or recorded, and always thrown on to the exception layer.
\* A promise (MaxValues = 1) does not fail after its value.
HandlerThrows(r) ==
  /\ Waits(r, "handler")
  /\ values[r] = 0 \/ MaxValues > 1
  /\ \E error \in Failures :
       /\ LogLines(r, ErrorLines(r, error) \o FilterLines(r, error))
       /\ req' = IF watching[r] = "errors"
                 THEN [req EXCEPT ![r].recordedError = error]
                 ELSE req
       /\ Answers(r, StatusOf(error))
       /\ thrown' = [thrown EXCEPT ![r] = error]
  /\ Ends(r)
  /\ UNCHANGED <<contextVars, inputs, listeners, watching, values, lastIndex, claimed>>

-----------------------------------------------------------------------------
Init ==
  /\ chain \in Wirings
  /\ shape \in [Requests -> Shapes]
  /\ stores = [s \in Scopes |-> IF s = Outer THEN [f \in Fields |-> Outer] ELSE NoFields]
  /\ ctx = [r \in Requests |-> Base]
  /\ at = [r \in Requests |-> 0]
  /\ turn = None
  /\ req = [r \in Requests |-> NewRequest]
  /\ res = [r \in Requests |-> NewResponse]
  /\ listeners = [r \in Requests |-> <<>>]
  /\ watching = [r \in Requests |-> "nothing"]
  /\ values = [r \in Requests |-> 0]
  /\ lastIndex = 0
  /\ lines = [r \in Requests |-> <<>>]
  /\ claimed = [r \in Requests |-> NoFields]
  /\ thrown = [r \in Requests |-> None]

RequestId(r) ==
  \/ RequestIdOpens(r)
  \/ RequestIdAdopts(r)
  \/ AdoptionThrows(r)
  \/ RequestIdStandsDown(r)

AccessLog(r) ==
  \/ AccessLogStandsDown(r)
  \/ AccessLogExcludes(r)
  \/ AccessLogRecords(r)

Interceptor(r) ==
  \/ InterceptorStandsAside(r)
  \/ InterceptorRecordsOnly(r)
  \/ InterceptorLogs(r)

Application(r) ==
  \/ Passes(r)
  \/ MiddlewareSets(r)
  \/ MiddlewareLosesContext(r)
  \/ Authenticates(r)
  \/ Rejects(r)
  \/ HandlerLogs(r)
  \/ HandlerNests(r)
  \/ HandlerEmits(r)
  \/ HandlerCompletes(r)
  \/ HandlerThrows(r)

Connection(r) ==
  \/ Arrives(r)
  \/ Finishes(r)
  \/ ClosesDelivered(r)
  \/ Aborts(r)

\* Every request was answered and its connection is gone.
Settled ==
  /\ \A r \in Requests : at[r] = Over /\ res[r].closed
  /\ UNCHANGED vars

Next ==
  \/ \E r \in Requests :
       \/ RequestId(r)
       \/ AccessLog(r)
       \/ Interceptor(r)
       \/ Yields(r)
       \/ Application(r)
       \/ Connection(r)
  \/ Settled

Spec == Init /\ [][Next]_vars

\* Turns run to their end and connections do not stay open forever.  Nothing is
\* assumed of the application: a handler may never answer.
FairSpec ==
  /\ Spec
  /\ \A r \in Requests :
       /\ WF_vars(RequestId(r) \/ AccessLog(r) \/ Interceptor(r) \/ Yields(r))
       /\ WF_vars(ClosesDelivered(r) \/ Aborts(r))

-----------------------------------------------------------------------------
(***************************************************************************)
(* Properties.                                                             *)
(***************************************************************************)

LineType == [key : Keys, requestId : Values, tenantId : Values, userId : Values,
             error : Errors \cup {None}]

\* The types of every variable.
TypeOK ==
  /\ stores \in [Scopes -> [Fields -> Values]]
  /\ ctx \in [Requests -> Scopes \cup {None}]
  /\ chain \in Wirings
  /\ shape \in [Requests -> Shapes]
  /\ at \in [Requests -> 0..Over]
  /\ turn \in Requests \cup {None}
  /\ req \in [Requests -> [recorderActive : BOOLEAN, correlationOpened : BOOLEAN,
                           ownRequestId : Requests \cup {None},
                           recordedError : Errors \cup {None}, user : Requests \cup {None}]]
  /\ res \in [Requests -> [statusCode : 200..599, requestIdHeader : Requests \cup {None},
                           ended : BOOLEAN, finished : BOOLEAN, closed : BOOLEAN]]
  /\ listeners \in [Requests -> Seq(Scopes \cup {None})]
  /\ watching \in [Requests -> {"nothing", "errors", "all"}]
  /\ values \in [Requests -> 0..MaxValues]
  /\ lastIndex \in {0, 1}
  /\ lines \in [Requests -> Seq(LineType)]
  /\ claimed \in [Requests -> [Fields -> Values]]
  /\ thrown \in [Requests -> Errors \cup {None}]

Terminals == {"SUCCESS", "REDIRECT", "CLIENT_ERROR", "SERVER_ERROR", "ABORTED"}

Logged(r, keys) == {i \in DOMAIN lines[r] : lines[r][i].key \in keys}

Starts(r)      == Logged(r, {"START"})
TerminalsOf(r) == Logged(r, Terminals)

\* The middleware records, not the interceptor alone.
AccessLogWired == \E i \in DOMAIN chain : chain[i] = "accessLog"

Gone(r) == at[r] = Over /\ res[r].closed

\* However the recorders are wired, a request has at most one START and one
\* terminal line, in that order ("nothing is logged twice", README).
NothingIsLoggedTwice ==
  \A r \in Requests :
    /\ \A i, j \in Starts(r) : i = j
    /\ \A i, j \in TerminalsOf(r) : i = j
    /\ \A j \in TerminalsOf(r) : \E i \in Starts(r) : i < j

\* With the middleware wired, whatever the guards, the handler and the client do,
\* a request that is over has the terminal line of its START, and only an
\* excluded request has none ("one terminal entry when the connection closes,
\* for EVERY request").
EveryRequestIsAccountedFor ==
  \A r \in Requests : AccessLogWired /\ Gone(r) =>
    /\ (Starts(r) = {}) = shape[r].excluded
    /\ Starts(r) # {} => TerminalsOf(r) # {}

\* Some mount of the access log has the library's own middleware before it only.
RecordsPromptly ==
  \E j \in DOMAIN chain :
    /\ chain[j] = "accessLog"
    /\ \A i \in 1..j : chain[i] \in {"requestId", "accessLog"}

\* The same, where the access log is mounted before anything asynchronous; behind it the
\* connection may be gone before the 'close' listener is registered (request_late).
PromptRequestsAreAccountedFor == RecordsPromptly => EveryRequestIsAccountedFor

\* With the middleware wired, a request gets the outcome its handler intended only
\* if the response was handed over (the interceptor alone "cannot judge DELIVERY").
SuccessMeansDelivered ==
  \A r \in Requests :
    AccessLogWired /\ Logged(r, Terminals \ {"ABORTED"}) # {} => res[r].finished

\* The terminal line of a failure that passed the interceptor carries its error,
\* although it is written at another station, later, from the status alone.
FailuresAreExplained ==
  \A r \in Requests : \A i \in Logged(r, {"CLIENT_ERROR", "SERVER_ERROR"}) :
    lines[r][i].error = thrown[r]

\* The START and the terminal line of a request carry the same id, its own if it
\* has one, on whatever path and also when 'close' fires outside its scope ("Both
\* entries carry the same requestId, so joining on that gives the whole request",
\* README).  Not so in a server created inside a scope, where 'close' finds a live
\* context and the bound one is not used.
AccessLinesAreJoinable ==
  \A r \in Requests : \A i, j \in Starts(r) \cup TerminalsOf(r) :
    /\ lines[r][i].requestId = lines[r][j].requestId
    /\ req[r].ownRequestId \in {lines[r][i].requestId, None}

\* No line of a request carries the id, tenant or user of another.
NothingBleedsAcross ==
  \A r \in Requests : \A i \in DOMAIN lines[r] :
    LET line == lines[r][i] IN
    {line.requestId, line.tenantId, line.userId} \cap (Requests \ {r}) = {}

\* No scope of a request holds the user of the enclosing scope, nor does a client's
\* header replace the tenant resolved there.
RequestScopesAreOwn ==
  \A r \in Requests :
    /\ stores[RequestScope(r)].userId # Outer
    /\ Enclosed => stores[RequestScope(r)].tenantId # r

\* Where the mount comes first, the enclosing user appears on the terminal line at
\* most: 'close' may fire in the enclosing scope, and the line is then built there.
OuterUserOnlyAtTheEnd ==
  \A r \in Requests : chain # <<>> /\ chain[1] = "requestId" =>
    \A i \in DOMAIN lines[r] : lines[r][i].userId = Outer => lines[r][i].key \in Terminals

\* No line of a request carries another request's id, tenant or user; its scope takes
\* no user from the scope around the server; and behind a first mount that user is on
\* no line its code writes (request-id.middleware.ts: "what keeps requests isolated").
\* The terminal line is not covered: see AccessLinesAreJoinable in an enclosed server.
IdentityIsItsOwn == NothingBleedsAcross /\ RequestScopesAreOwn /\ OuterUserOnlyAtTheEnd

\* Once the last mount ran, the id in the response header is the one the store
\* gives to every later line, even if the application overwrote it in between.
HeaderMatchesStore ==
  \A r \in Requests : \A mount \in DOMAIN Pipeline :
    /\ Pipeline[mount] = "requestId"
    /\ at[r] \in mount + 1..Len(Pipeline)
    /\ \A i \in mount + 1..Len(Pipeline) : Pipeline[i] \notin {"requestId", "middleware"}
    /\ res[r].requestIdHeader # None
    => Get(r, "requestId") = res[r].requestIdHeader

\* The user and tenant the application established between two mounts survive
\* the second one, whether or not the request has an id.
ApplicationContextSurvives ==
  \A r \in Requests : \A f \in {"userId", "tenantId"} :
    claimed[r][f] # None => stores[RequestScope(r)][f] = claimed[r][f]

\* A mount that finds the request's scope already open leaves it consistent: with the
\* header it answers with and with what the application wrote in between.
SecondMountIsConsistent == HeaderMatchesStore /\ ApplicationContextSurvives

\* With the middleware wired, every request that is logged before its connection is gone
\* gets its terminal line, even if its handler never answers.
EveryStartIsClosed ==
  \A r \in Requests :
    (AccessLogWired /\ Starts(r) # {} /\ ~res[r].closed) ~> (TerminalsOf(r) # {})
=============================================================================
