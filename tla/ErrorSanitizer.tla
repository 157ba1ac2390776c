---------------------------- MODULE ErrorSanitizer ----------------------------
(***************************************************************************)
(* sanitizeError (utils/sanitize-error.util.ts): any thrown value becomes  *)
(* a plain, bounded node, whatever its getters do.  It is a depth-first    *)
(* walk over the links of an error, its cause and the members of its       *)
(* errors; each read, list and node is a step, and tasks is the call stack *)
(* of toSanitizedError.                                                    *)
(*                                                                         *)
(* The application's objects are a graph in heap.  A field holds the set   *)
(* of answers reading it may give, so a getter that throws, or that        *)
(* answers differently the second time, is a field with several.  Texts    *)
(* are all one value: what is cut, scrubbed or escaped is still a text.    *)
(***************************************************************************)
EXTENDS Integers, Sequences, FiniteSets

CONSTANTS
  Text,           \* a string, or any other primitive where one is not asked for
  Undefined,      \* what reading a field that is not there answers
  Throws,         \* the read, or the call, throws
  Heaps,          \* bound: the object graphs the application may log
  Names,          \* the names fields may have
  Indexes,        \* the names of array elements, in order
  Policies,       \* what is censored and which own fields of an error are written
  MaxCauseDepth,  \* DEFAULT_MAX_CAUSE_DEPTH
  MaxAggregate,   \* MAX_AGGREGATE_ERRORS
  MaxOmitted      \* bound: the members a list may have past the cap

Kinds == {"object", "array", "error", "function", "buffer"}
Vias  == {"none", "method", "accessor", "throwing", "buffer"}

\* f, and g where f answers nothing; f answering v at k.
Over(f, g) == [x \in DOMAIN f \cup DOMAIN g |-> IF x \in DOMAIN f THEN f[x] ELSE g[x]]
Assign(f, k, v) == [x \in DOMAIN f \cup {k} |-> IF x = k THEN v ELSE f[x]]

DERIVED_ERROR_FIELDS  == {"name", "message", "stack", "cause", "errors"}
ARGUMENT_FIELDS       == {"args", "parameters"}
DATABASE_VALUE_FIELDS == {"detail", "where", "internalQuery"}
INCOMPLETE_KEY        == "_errorFieldsIncomplete"

\* An object: its own enumerable keys in order, what its fields answer, how it
\* comes by a toJSON and what that returns; whether it carries a SQLSTATE, and,
\* of a list, how many members it had before it was capped.
Node(kind, keys, field) ==
  [kind |-> kind, keys |-> keys, field |-> field, via |-> "none", form |-> {},
   sqlState |-> FALSE, size |-> Len(keys)]

\* Markers are small objects of the library.
DepthMarker    == [marker |-> "cause-depth-exceeded", omitted |-> 0]
WidthMarker(n) == [marker |-> "aggregate-width-exceeded", omitted |-> n]
Markers        == {DepthMarker} \cup {WidthMarker(n) : n \in 1..MaxOmitted}
MarkerNodes    == [m \in Markers |-> Node("object", <<>>, <<>>)]

\* What is written of a driver's command: its name alone.
CommandName == [marker |-> "command", omitted |-> 0]
LibraryNodes ==
  Assign(MarkerNodes, CommandName, Node("object", <<"name">>, [k \in {"name"} |-> {Text}]))

\* Nodes the library builds are named by the call they were made in and the links
\* to them.
Id(base, route) == [base |-> base, route |-> route]
NodeIds         == [base : Nat, route : Seq(Names)]

\* An object has each of its keys once; those of a list are the first indexes.
WellFormed(node, answers) ==
  /\ DOMAIN node = {"kind", "keys", "field", "via", "form", "sqlState", "size"}
  /\ node.kind \in Kinds /\ node.via \in Vias
  /\ node.keys \in Seq(Names) /\ node.size \in Nat /\ node.sqlState \in BOOLEAN
  /\ \A i, j \in DOMAIN node.keys : node.keys[i] = node.keys[j] => i = j
  /\ DOMAIN node.field \subseteq Names
  /\ \A k \in DOMAIN node.field : node.field[k] \subseteq answers
  /\ node.form \subseteq answers
Indexed(node) ==
  Len(node.keys) <= Len(Indexes) /\ node.keys = SubSeq(Indexes, 1, Len(node.keys))

\* Reads of the application's objects answer with its objects, or with primitives.
ASSUME SanitizerAssumption ==
  /\ DERIVED_ERROR_FIELDS \cup {"type", "toString", INCOMPLETE_KEY} \subseteq Names
  /\ MaxCauseDepth \in Nat
  /\ MaxAggregate \in Nat \ {0}
  /\ MaxOmitted \in Nat
  /\ Indexes \in Seq(Names) /\ Len(Indexes) \in (MaxAggregate + 1)..(MaxAggregate + MaxOmitted)
  /\ \A i, j \in DOMAIN Indexes : Indexes[i] = Indexes[j] => i = j
  /\ \A i \in DOMAIN Indexes : Indexes[i] # "errors"
  /\ Text # Undefined /\ Text # Throws /\ Undefined # Throws
  /\ {Text, Undefined, Throws} \cap (NodeIds \cup DOMAIN LibraryNodes) = {}
  /\ \A h \in Heaps :
       /\ DOMAIN h \cap (NodeIds \cup DOMAIN LibraryNodes \cup {Text, Undefined, Throws}) = {}
       /\ \A v \in DOMAIN h :
            /\ WellFormed(h[v], DOMAIN h \cup Markers \cup {Text, Undefined, Throws})
            /\ h[v].kind = "array" => Indexed(h[v])

\* The members a list had: those it shows, unless its last place is that of the marker the
\* redaction walk put there for the rest.
WidthMarkers    == {WidthMarker(n) : n \in 1..MaxOmitted}
PastTheCap(node) ==
  LET k == Indexes[MaxAggregate + 1] IN IF k \in DOMAIN node.field THEN node.field[k] ELSE {}
SizeIsTrue(node) ==
  IF Len(node.keys) = MaxAggregate + 1 /\ PastTheCap(node) \cap WidthMarkers # {}
  THEN \A v \in PastTheCap(node) : v \in WidthMarkers /\ node.size = MaxAggregate + v.omitted
  ELSE node.size = Len(node.keys)

ASSUME SizeAssumption ==
  \A h \in Heaps : \A v \in DOMAIN h : h[v].kind = "array" => SizeIsTrue(h[v])

VARIABLES
  heap,    \* the application's objects, and the nodes the library builds
  policy,  \* the configuration; never changes
  tasks,   \* the calls of toSanitizedError in progress, the innermost last
  seen,    \* objects visited by the sanitization in progress
  made     \* history: for each sanitized node, what it was made from and how

sanitizerVars == <<heap, policy, tasks, seen, made>>

Read(v, k)    == IF k \in DOMAIN heap[v].field THEN heap[v].field[k] ELSE {Undefined}
IsObject(v)   == v \in DOMAIN heap
IsKind(v, k)  == IsObject(v) /\ heap[v].kind = k
IsArray(v)    == IsKind(v, "array")
IsRecord(v)   == IsObject(v) /\ heap[v].kind # "function"   \* typeof v is 'object'
IsError(v)    == IsKind(v, "error")
KeysOf(v)     == {heap[v].keys[i] : i \in DOMAIN heap[v].keys}

\* Every way the named fields may answer, each read once.
Readings(v, ks) ==
  {f \in [ks -> UNION {Read(v, k) : k \in ks}] : \A k \in ks : f[k] \in Read(v, k)}
Fails(reading) == \E k \in DOMAIN reading : reading[k] = Throws

\* The keys of s that are not in ks, in order.
Without(s, ks) ==
  LET kept[i \in 0..Len(s)] ==
        IF i = 0 THEN <<>>
        ELSE IF s[i] \in ks THEN kept[i - 1] ELSE Append(kept[i - 1], s[i])
  IN kept[Len(s)]

-----------------------------------------------------------------------------
(***************************************************************************)
(* The own-field policy (utils/own-field-policy.util.ts).                  *)
(***************************************************************************)

AllowsOwnField(k) ==
  \/ ~policy.safe
  \/ k \in DERIVED_ERROR_FIELDS \cup {INCOMPLETE_KEY} \cup policy.names

\* A binary value is written as its size.
WithBinaryAsSize(v) == IF IsKind(v, "buffer") THEN Text ELSE v

\* Whether an own field of an error is left out; a command without a name of its
\* own is.
HasOwnName(v) == "name" \in KeysOf(v) /\ Read(v, "name") = {Text}

OmitsOwnField(v, k, value) ==
  \/ ~AllowsOwnField(k)
  \/ k \in ARGUMENT_FIELDS
  \/ k \in DATABASE_VALUE_FIELDS /\ heap[v].sqlState
  \/ k = "command" /\ IsRecord(value) /\ ~HasOwnName(value)

\* The value it is written with.
OwnFieldForLog(k, value) ==
  IF k = "command" /\ IsRecord(value) THEN CommandName ELSE WithBinaryAsSize(value)

-----------------------------------------------------------------------------
(***************************************************************************)
(* toSanitizedError.                                                       *)
(***************************************************************************)

Top             == tasks[Len(tasks)]
Sanitizing      == tasks # <<>>

Task(v, id, level) == [from |-> v, id |-> id, level |-> level, step |-> "identify",
                        links |-> <<>>, left |-> 0]

\* The call starts; what an earlier one left under its name is garbage.
StartSanitizing(v, base) ==
  LET kept == {i \in DOMAIN made : i.base # base}
      live == {o \in DOMAIN heap : o \in kept \/ o \notin DOMAIN made} IN
  /\ tasks' = <<Task(v, Id(base, <<>>), 0)>>
  /\ seen' = {}
  /\ made' = [i \in kept |-> made[i]]
  /\ heap' = [o \in live |-> heap[o]]

Advance(step) == tasks' = [tasks EXCEPT ![Len(tasks)].step = step]
Leave         == tasks' = SubSeq(tasks, 1, Len(tasks) - 1)

\* The node under construction gains a field.
Built == heap[Top.id]
With(node, k, v) ==
  IF k \in DOMAIN node.field THEN node
  ELSE [node EXCEPT !.keys = Append(@, k), !.field = Assign(@, k, {v})]
Store(node) == heap' = Assign(heap, Top.id, node)

TwoTexts == Node("object", <<"name", "message">>, [k \in {"name", "message"} |-> {Text}])
Make(tag) ==
  made' = Assign(made, Top.id,
                 [from |-> Top.from, tag |-> tag, level |-> Top.level, lost |-> FALSE])

\* Mutant: the mark is not written.
Unmarked == Built

Marked == With(Built, INCOMPLETE_KEY, Text)

Lose == made' = [made EXCEPT ![Top.id].lost = TRUE]

\* The outer catch: the node keeps nothing of the value.
Degrade == Store(TwoTexts) /\ Make("failed") /\ Leave

\* readsAsError, and the name and message read again for the node.  A getter
\* that answers with a text may throw the next time.
Identify ==
  /\ Sanitizing /\ Top.step = "identify"
  /\ UNCHANGED policy
  /\ \/ /\ ~IsRecord(Top.from)
        /\ Store(TwoTexts) /\ Make("unknown") /\ Leave
        /\ UNCHANGED seen
     \/ /\ IsRecord(Top.from)
        /\ \E shape \in Readings(Top.from, {"name", "message"}) :
             LET unreadable == \/ shape["name"] = Throws
                               \/ (shape["name"] = Text /\ shape["message"] = Throws) IN
             IF shape = [k \in {"name", "message"} |-> Text]
             THEN /\ seen' = seen \cup {Top.from}
                  /\ \E head \in Readings(Top.from, {"name", "message"}) :
                       IF Fails(head) THEN Degrade
                       ELSE Store(TwoTexts) /\ Make("error") /\ Advance("stack")
             ELSE /\ \/ unreadable /\ Degrade
                     \/ /\ ~unreadable
                        /\ \E printed \in Read(Top.from, "toString") :
                             IF printed = Throws THEN Degrade
                             ELSE Store(TwoTexts) /\ Make("unknown") /\ Leave
                  /\ UNCHANGED seen

\* readOptional: an unreadable part costs itself and marks the node.  A stack that is
\* no string is read, but scrubStack has no guard of its own, and the outer catch takes
\* the node.
ReadStack ==
  /\ Sanitizing /\ Top.step = "stack"
  /\ \E stack \in Read(Top.from, "stack") :
       \/ stack \notin {Text, Throws, Undefined} /\ Degrade
       \/ stack = Throws /\ Lose /\ Store(Marked) /\ Advance("cause")
       \/ stack = Text /\ Store(With(Built, "stack", Text)) /\ Advance("cause") /\ UNCHANGED made
       \/ stack = Undefined /\ Advance("cause") /\ UNCHANGED <<heap, made>>
  /\ UNCHANGED <<policy, seen>>

\* Mutant: the limit is noticed one link late.
PastDepthLimit == Top.level > MaxCauseDepth

AtDepthLimit == Top.level >= MaxCauseDepth

\* Mutant: only an error that is its own link is recognised.
LinksItself(v) == v = Top.from

WasSeen(v) == IsRecord(v) /\ v \in seen

\* toSanitizedChild, or the marker: what stands for a linked value, and whether
\* a call is made for it.
Child(v, route) ==
  IF AtDepthLimit THEN DepthMarker
  ELSE IF WasSeen(v) THEN Text
  ELSE Id(Top.id.base, Top.id.route \o route)
Calls(v) == ~AtDepthLimit /\ ~WasSeen(v)

ReadCause ==
  /\ Sanitizing /\ Top.step = "cause"
  /\ \E cause \in Read(Top.from, "cause") :
       LET child == Child(cause, <<"cause">>) IN
       \/ /\ cause = Throws
          /\ Lose /\ Store(Marked) /\ Advance("errors")
       \/ /\ cause = Undefined
          /\ Advance("errors") /\ UNCHANGED <<heap, made>>
       \/ /\ cause \notin {Throws, Undefined}
          /\ Store(With(Built, "cause", child))
          /\ tasks' = [tasks EXCEPT ![Len(tasks)].step = "errors"]
                        \o (IF Calls(cause) THEN <<Task(cause, child, Top.level + 1)>> ELSE <<>>)
          /\ UNCHANGED made
  /\ UNCHANGED <<policy, seen>>

\* Mutant: every list is taken for one never capped before.
CarriedNothing(cut) == 0

\* What a list the redaction walk already capped says it left out, or 0.
CarriedOmitted(cut) == IF cut \in Markers THEN cut.omitted ELSE 0

\* What carriedOmitted reads at the cut: only a list one longer than the cap can have
\* been capped before.  The read is guarded: one that throws says nothing.
Cut(list) ==
  IF Len(heap[list].keys) = MaxAggregate + 1 THEN Read(list, Indexes[MaxAggregate + 1])
  ELSE {Undefined}

NewList == Node("array", <<>>, <<>>)
ListId  == Id(Top.id.base, Append(Top.id.route, "errors"))
MinOf(a, b) == IF a < b THEN a ELSE b

\* The members that are sanitized: slice reads these, and no other.
ShownPlaces(list) == {Indexes[i] : i \in 1..MinOf(Len(heap[list].keys), MaxAggregate)}

\* readAggregatedErrors is not guarded, nor is slice: a list, or a member up to the cap,
\* that cannot be read costs the whole node.  The members are read at once, then visited
\* one by one; the list ends with a marker for those left out.
ReadErrors ==
  /\ Sanitizing /\ Top.step = "errors"
  /\ \E errors \in Read(Top.from, "errors") :
       \/ errors = Throws /\ Degrade
       \/ /\ errors # Throws /\ ~IsArray(errors)
          /\ Advance("own") /\ UNCHANGED <<heap, made>>
       \/ /\ IsArray(errors)
          /\ \E reading \in Readings(errors, ShownPlaces(errors)) : Fails(reading) /\ Degrade
       \/ /\ IsArray(errors)
          /\ \E reading \in Readings(errors, ShownPlaces(errors)) : \E cut \in Cut(errors) :
               LET n       == Len(heap[errors].keys)
                   carried == CarriedOmitted(cut)
                   left    == IF carried > 0 THEN carried ELSE n - MaxAggregate
               IN /\ ~Fails(reading)
                  /\ heap' = Assign(Assign(heap, Top.id, With(Built, "errors", ListId)),
                                    ListId, [NewList EXCEPT !.size = heap[errors].size])
                  /\ made' = Assign(made, ListId,
                               [from |-> errors, tag |-> "list", level |-> Top.level,
                                lost |-> FALSE])
                  /\ tasks' = [tasks EXCEPT
                       ![Len(tasks)].step  = "members",
                       ![Len(tasks)].links = [i \in 1..MinOf(n, MaxAggregate) |->
                                                reading[Indexes[i]]],
                       ![Len(tasks)].left  = left]
  /\ UNCHANGED <<policy, seen>>

\* capped.map: the next member, in order.
Place == Indexes[Len(heap[ListId].keys) + 1]

VisitMember ==
  LET v     == Head(Top.links)
      child == Child(v, <<"errors", Place>>) IN
  /\ Sanitizing /\ Top.step = "members" /\ Top.links # <<>>
  /\ heap' = [heap EXCEPT ![ListId] = With(@, Place, child)]
  /\ tasks' = [tasks EXCEPT ![Len(tasks)].links = Tail(@)]
                \o (IF Calls(v) THEN <<Task(v, child, Top.level + 1)>> ELSE <<>>)
  /\ UNCHANGED <<policy, seen, made>>

MembersDone ==
  /\ Sanitizing /\ Top.step = "members" /\ Top.links = <<>>
  /\ heap' = IF Top.left > 0
             THEN [heap EXCEPT ![ListId] = With(@, Place, WidthMarker(Top.left))]
             ELSE heap
  /\ Advance("own")
  /\ UNCHANGED <<policy, seen, made>>

\* assignOwnErrorFields: all values are read before one is copied; an own
\* enumerable toJSON is copied as any other field, and works on the node.
Copyable(v, reading) ==
  Without(heap[v].keys, {k \in KeysOf(v) : OmitsOwnField(v, k, reading[k])}
                          \cup DERIVED_ERROR_FIELDS \cup DOMAIN Built.field)

CopyOwnFields ==
  LET v  == Top.from
      ks == IF IsArray(v) THEN {} ELSE KeysOf(v) IN
  /\ Sanitizing /\ Top.step = "own"
  /\ \E reading \in Readings(v, ks) :
       LET copied == IF ks = {} THEN <<>> ELSE Copyable(v, reading)
           new    == {copied[i] : i \in DOMAIN copied} IN
       IF Fails(reading)
       THEN Lose /\ Store(Marked)
       ELSE /\ Store([Built EXCEPT
                 !.keys = @ \o copied,
                 !.field = Over(@, [k \in new |-> {OwnFieldForLog(k, reading[k])}]),
                 !.via  = IF "toJSON" \in new THEN "method" ELSE @,
                 !.form = IF "toJSON" \in new THEN heap[v].form ELSE @])
            /\ UNCHANGED made
  /\ Leave
  /\ UNCHANGED <<policy, seen>>

SanitizerStep ==
  \/ Identify
  \/ ReadStack
  \/ ReadCause
  \/ ReadErrors
  \/ VisitMember
  \/ MembersDone
  \/ CopyOwnFields

-----------------------------------------------------------------------------
(***************************************************************************)
(* Properties.                                                             *)
(***************************************************************************)

Members(id) == {heap[id].keys[i] : i \in DOMAIN heap[id].keys}

\* A graph whose errors share and circle is written as a tree no larger than
\* the graph: within one call each error is expanded once, and again stands a
\* text ("seen", toSanitizedChild).
EachErrorIsExpandedOnce ==
  \A i, j \in DOMAIN made :
    /\ made[i].tag = "error" /\ made[j].tag = "error"
    /\ i.base = j.base /\ made[i].from = made[j].from
    => i = j

\* No chain goes deeper than the budget and no list is longer than the cap and
\* its marker, whatever the links answer.
BudgetsBoundTheNode ==
  \A i \in DOMAIN made :
    /\ made[i].level <= MaxCauseDepth
    /\ made[i].tag = "list" => Len(heap[i].keys) <= MaxAggregate + 1

\* A node that lost a part says so: no entry that silently lacks its code, its
\* stack or its cause passes for a complete one (markIncomplete).
LossIsVisible ==
  ~Sanitizing => \A i \in DOMAIN made :
    made[i].lost => made[i].tag = "failed" \/ INCOMPLETE_KEY \in DOMAIN heap[i].field

\* Members shown and members reported as left out add up to those the
\* application's list had, whether or not the walk had capped it before.
OmittedMembersAddUp ==
  ~Sanitizing => \A i \in DOMAIN made : made[i].tag = "list" /\ i \in DOMAIN heap =>
    LET answers == {CHOOSE v \in heap[i].field[k] : TRUE : k \in Members(i)}
        left    == {v \in answers : v \in Markers \ {DepthMarker}}
    IN IF left = {} THEN Len(heap[i].keys) = heap[i].size
       ELSE Len(heap[i].keys) - 1 + (CHOOSE v \in left : TRUE).omitted = heap[i].size

\* However the application's errors are linked, the node is a tree bounded by them
\* and by the budgets.
NodeIsBounded == EachErrorIsExpandedOnce /\ BudgetsBoundTheNode

\* What a node does not show, it says it does not show.
NothingIsLostSilently == LossIsVisible /\ OmittedMembersAddUp
=============================================================================
