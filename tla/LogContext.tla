------------------------------ MODULE LogContext ------------------------------
(***************************************************************************)
(* The request-scoped log context (services/log-context.service.ts): an    *)
(* AsyncLocalStorage whose stores are objects.  Each asynchronous activity *)
(* runs in a scope, or in none; run opens a fresh one, set writes into the *)
(* one it is called in, and whoever shares the scope sees the write.       *)
(*                                                                         *)
(* A field holds who its value comes from: the request it was validated or *)
(* minted for, the enclosing scope, or the application.  Keys that pollute *)
(* prototypes are not among the modelled ones.                             *)
(***************************************************************************)
CONSTANTS
  Requests,
  Outer,     \* the scope the server was created in, and what it holds
  App,       \* a value the application set
  None       \* no scope; an absent field

VARIABLES
  stores,    \* the fields of each scope's store
  ctx        \* the scope each request's code runs in

contextVars == <<stores, ctx>>

Fields == {"requestId", "tenantId", "userId"}
Scopes == {Outer} \cup (Requests \X {"request", "nested"})
Values == Requests \cup {Outer, App, None}

ASSUME LogContextAssumption ==
  /\ None \notin Requests \cup {Outer, App} \cup Scopes
  /\ Outer \notin Requests \cup {App} \cup (Requests \X {"request", "nested"})
  /\ App \notin Requests

NoFields == [f \in Fields |-> None]

RequestScope(r) == <<r, "request">>
NestedScope(r)  == <<r, "nested">>

\* Spreading an absent store gives no fields.
GetStore(scope) == IF scope = None THEN NoFields ELSE stores[scope]

Get(r, field) == GetStore(ctx[r])[field]

\* Mutant: the fields replace the store.
MergedReplaces(base, fields) ==
  [f \in {g \in DOMAIN base : fields[g] # None} |-> fields[f]]

\* The fields of the second override those of the first, key by key.
Merged(base, fields) ==
  [f \in Fields |-> IF fields[f] # None THEN fields[f] ELSE base[f]]

\* The rest of the activity runs in a scope that holds context alone.
Run(r, scope, context) ==
  /\ stores' = [stores EXCEPT ![scope] = context]
  /\ ctx' = [ctx EXCEPT ![r] = scope]

RunMerged(r, scope, context) == Run(r, scope, Merged(GetStore(ctx[r]), context))

\* set throws outside a scope.
InScope(r) == ctx[r] # None

Set(r, fields) ==
  /\ InScope(r)
  /\ stores' = [stores EXCEPT ![ctx[r]] = Merged(@, fields)]
  /\ UNCHANGED ctx
=============================================================================
