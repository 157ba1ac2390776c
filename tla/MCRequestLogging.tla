--------------------------- MODULE MCRequestLogging ---------------------------
(* Small instances of RequestLogging. *)
EXTENDS RequestLogging, TLC

\* applyAccessLog(app) with applyRequestIdMiddleware(consumer): both are mounted
\* twice, before and after the body parser.
Double == <<"requestId", "accessLog", "parser", "requestId", "accessLog", "guard">>

\* The same around the application's own middleware.
Around == <<"requestId", "accessLog", "middleware", "requestId", "guard">>

\* The access log not wired.
InterceptorAlone == <<"requestId", "guard">>

\* applyAccessLog(app) alone.
Alone == <<"requestId", "accessLog", "parser", "guard">>

\* applyRequestIdMiddleware(consumer) alone: behind the body parser.
Behind == <<"parser", "requestId", "accessLog", "guard">>

MC_Wirings == {Double, Around, Alone, Behind, InterceptorAlone}

\* Two mounts with the application's middleware in between, small enough for two
\* requests at once.
MC_Pair == {<<"requestId", "middleware", "requestId", "accessLog">>}

\* The recorders behind the application's asynchronous middleware.
MC_Late == {<<"middleware", "requestId", "accessLog", "guard">>}

MC_AnyShape == [id : BOOLEAN, tenant : BOOLEAN, excluded : BOOLEAN]
MC_Logged   == [id : BOOLEAN, tenant : BOOLEAN, excluded : {FALSE}]
MC_Plain    == [id : {TRUE}, tenant : {FALSE}, excluded : BOOLEAN]

MC_Symmetry == Permutations(Requests)
==============================================================================
