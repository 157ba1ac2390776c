----------------------------- MODULE RedactionWalk -----------------------------
(***************************************************************************)
(* The redaction by name (utils/redact-by-name.util.ts and its error parts *)
(* in utils/redact-error-parts.util.ts): one depth-first walk that reads   *)
(* every field of a record once and writes a censored copy.                *)
(*                                                                         *)
(* stack is the call stack of walk; a throw unwinds it until an error or a *)
(* part of one catches it, or the whole record is given up.  The copy is   *)
(* out: what was written at each path of keys.  Two calls are modelled,    *)
(* that of formatters.log on a record and that of the err serializer on a  *)
(* thrown value (pino-factory.ts).                                         *)
(***************************************************************************)
EXTENDS ErrorSanitizer

CONSTANTS
  Record,     \* the root of a log record
  Thrown,     \* the value the err serializer is given
  MaxDepth,   \* REDACT_MAX_TRAVERSAL_DEPTH
  MaxVisits   \* REDACT_MAX_VISITS

None == "none"
CAPPED == "capped"

ASSUME RedactionAssumption ==
  /\ MaxDepth \in Nat
  /\ MaxVisits \in Nat \ {0}
  /\ {None, CAPPED} \subseteq Names /\ \A i \in DOMAIN Indexes : Indexes[i] # CAPPED
  /\ \A h \in Heaps : {Record, Thrown} \subseteq DOMAIN h /\ h[Record].kind # "function"

VARIABLES
  phase,     \* "record", or "serialize" and then "redact"
  stack,     \* the calls of walk in progress, the innermost last
  raised,    \* an exception is propagating
  out,       \* what was written at each path
  visits,    \* containers counted by this call
  links,     \* linkDepths: the chain level of errors walked as links
  admitted,  \* history: containers whose inspection was begun
  thrower    \* history: the application's object whose read last threw

walkVars == <<phase, stack, raised, out, visits, links, admitted, thrower>>
vars == <<sanitizerVars, walkVars>>

Frame(v, path, depth, honor, ser, owner) ==
  [value |-> v, path |-> path, depth |-> depth, honor |-> honor, ser |-> ser,
   owner |-> owner, step |-> "enter", todo |-> <<>>, written |-> {}, part |-> None,
   linked |-> Undefined, before |-> <<>>, incomplete |-> FALSE]

F      == stack[Len(stack)]
Safe   == policy.safe
Rest   == SubSeq(stack, 1, Len(stack) - 1)
Ends   == stack' = Rest
Turns(f) == stack' = Append(Rest, f)
Calls2(f, g) == stack' = Rest \o <<f, g>>
At(step) == stack # <<>> /\ ~raised /\ ~Sanitizing /\ F.step = step

\* What an object of the library stands for, or the object itself.
Origin(v) == IF v \in DOMAIN made THEN made[v].from ELSE v

Entry(what, v, owner) == [what |-> what, of |-> v, owner |-> owner]
Put(path, what, v, owner) == out' = Assign(out, path, Entry(what, v, owner))
Writes(what) == Put(F.path, what, F.value, F.owner)

Under(path, q) == Len(path) <= Len(q) /\ SubSeq(q, 1, Len(path)) = path
Dropped(path)  == [q \in {p \in DOMAIN out : ~Under(path, p)} |-> out[q]]

Raise == raised' = TRUE /\ thrower' = Origin(F.value) /\ UNCHANGED stack

\* Mutant: every object written so far.
WrittenBefore == {out[q].of : q \in DOMAIN out}

\* Objects on the path being walked.
Ancestors == {stack[i].value : i \in {j \in DOMAIN stack : stack[j].step \notin {"enter", "inspect"}}}

-----------------------------------------------------------------------------
(***************************************************************************)
(* walk: the guards.                                                       *)
(***************************************************************************)

EnterPrimitive ==
  /\ At("enter") /\ ~IsObject(F.value)
  /\ IF F.value = Undefined THEN UNCHANGED out ELSE Writes("leaf")
  /\ Ends
  /\ UNCHANGED <<sanitizerVars, phase, raised, visits, links, admitted, thrower>>

EnterTooDeep ==
  /\ At("enter") /\ IsObject(F.value) /\ F.depth > MaxDepth
  /\ Writes("depth") /\ Ends
  /\ UNCHANGED <<sanitizerVars, phase, raised, visits, links, admitted, thrower>>

\* Mutant: the container that is one too many is still walked.
OverBudgetByTwo == visits > MaxVisits

OverBudget == visits + 1 > MaxVisits

EnterOverBudget ==
  /\ At("enter") /\ IsObject(F.value) /\ F.depth <= MaxDepth /\ OverBudget
  /\ visits' = visits + 1
  /\ Writes("budget") /\ Ends
  /\ UNCHANGED <<sanitizerVars, phase, raised, links, admitted, thrower>>

Enter ==
  /\ At("enter") /\ IsObject(F.value) /\ F.depth <= MaxDepth /\ ~OverBudget
  /\ visits' = visits + 1
  /\ IF F.value \in Ancestors
     THEN Writes("circular") /\ Ends /\ UNCHANGED admitted
     ELSE Turns([F EXCEPT !.step = "inspect"]) /\ admitted' = admitted + 1 /\ UNCHANGED out
  /\ UNCHANGED <<sanitizerVars, phase, raised, links, thrower>>

-----------------------------------------------------------------------------
(***************************************************************************)
(* walkObject.  toJSON is resolved first, once; via tells how the object   *)
(* comes by it: a method, an accessor, Buffer's own function, or an        *)
(* accessor that throws.                                                   *)
(***************************************************************************)

Via == heap[F.value].via

InspectBinary ==
  /\ At("inspect") /\ Safe /\ IsKind(F.value, "buffer")
  /\ Writes("size") /\ Ends
  /\ UNCHANGED <<sanitizerVars, phase, raised, visits, links, admitted, thrower>>

InspectRefused ==
  /\ At("inspect") /\ ~(Safe /\ IsKind(F.value, "buffer")) /\ Via = "throwing"
  /\ Raise
  /\ UNCHANGED <<sanitizerVars, phase, out, visits, links, admitted>>

\* Mutant: the function alone decides, however it was come by.
IsBufferToJsonAnyhow == ~Safe /\ Via \in {"buffer", "accessor"}

\* Buffer.prototype.toJSON itself, as data: the original is handed on.
IsBufferToJson == ~Safe /\ Via = "buffer"

InspectBuffer ==
  /\ At("inspect") /\ IsBufferToJson
  /\ Writes("reference") /\ Ends
  /\ UNCHANGED <<sanitizerVars, phase, raised, visits, links, admitted, thrower>>

Inspecting == At("inspect") /\ ~IsBufferToJson /\ Via # "throwing"
                            /\ ~(Safe /\ IsKind(F.value, "buffer"))
HonoursToJson == F.honor /\ ~(Safe /\ IsError(F.value)) /\ Via # "none"

\* The method could rename what a sensitive key of the source holds; else its
\* result is walked in its place, one level deeper.
FollowToJson ==
  /\ Inspecting /\ HonoursToJson
  /\ IF KeysOf(F.value) \cap policy.sensitive # {}
     THEN Writes("censor") /\ Ends /\ UNCHANGED <<raised, thrower>>
     ELSE /\ \E result \in heap[F.value].form :
               IF result = Throws THEN Raise
               ELSE /\ Calls2([F EXCEPT !.step = "follow"],
                              Frame(result, F.path, F.depth + 1, TRUE, F.ser, F.owner))
                    /\ UNCHANGED <<raised, thrower>>
          /\ UNCHANGED out
  /\ UNCHANGED <<sanitizerVars, phase, visits, links, admitted>>

Followed ==
  /\ At("follow") /\ Ends
  /\ UNCHANGED <<sanitizerVars, phase, raised, out, visits, links, admitted, thrower>>

InspectFunction ==
  /\ Inspecting /\ ~HonoursToJson /\ IsKind(F.value, "function")
  /\ IF Safe THEN UNCHANGED out ELSE Writes("reference")
  /\ Ends
  /\ UNCHANGED <<sanitizerVars, phase, raised, visits, links, admitted, thrower>>

\* An error outside the serializers' keys is written as data; else it stays an
\* instance, cloned with the stack it has.
ErrorsAsData == phase = "record"
AsData(f)    == IsError(f.value) /\ (Safe \/ (ErrorsAsData /\ ~f.ser))

\* Mutant: under a serializer's key the policy is left to the serializer.
ScrubbedOutside(f) == IsError(f.value) /\ ~f.ser

Scrubbed(f)  == IsError(f.value) /\ (Safe \/ ~f.ser)

Open ==
  /\ Inspecting /\ ~HonoursToJson /\ ~IsKind(F.value, "function")
  /\ \E stackRead \in IF IsError(F.value) THEN Read(F.value, "stack") ELSE {Undefined} :
       IF stackRead = Throws THEN Raise /\ UNCHANGED out
       ELSE /\ Writes(IF IsArray(F.value) THEN "array"
                      ELSE IF IsError(F.value) /\ ~AsData(F) THEN "instance" ELSE "object")
            /\ Turns([F EXCEPT !.step = "fields", !.todo = heap[F.value].keys])
            /\ UNCHANGED <<raised, thrower>>
  /\ UNCHANGED <<sanitizerVars, phase, visits, links, admitted>>

SerializedKeys == IF phase = "record" THEN policy.serialized ELSE {}

\* walkArray: elements are read by index, and have no name to match.
Element ==
  LET k == Head(F.todo) IN
  /\ At("fields") /\ IsArray(F.value) /\ F.todo # <<>>
  /\ \E v \in Read(F.value, k) :
       IF v = Throws THEN Raise
       ELSE /\ Calls2([F EXCEPT !.todo = Tail(@)],
                      Frame(v, Append(F.path, k), F.depth + 1, TRUE, F.ser, Origin(F.value)))
            /\ UNCHANGED <<raised, thrower>>
  /\ UNCHANGED <<sanitizerVars, phase, out, visits, links, admitted>>

\* Mutant: names are left to the redaction of the serializer's output.
SensitiveOutside(f, k) == k \in policy.sensitive /\ ~f.ser

Sensitive(f, k) == k \in policy.sensitive

\* One own field, read once: left out, censored by its name, or walked.
Field ==
  LET k == Head(F.todo)
      p == Append(F.path, k)
      f == [F EXCEPT !.todo = Tail(@)]
      g == [f EXCEPT !.written = @ \cup {k}]
      omits(v) == Scrubbed(F) /\ OmitsOwnField(F.value, k, v)
      held(v)  == IF Scrubbed(F) THEN OwnFieldForLog(k, v)
                  ELSE IF IsError(F.value) THEN WithBinaryAsSize(v) ELSE v
      ser == F.ser \/ (~F.honor /\ k \in SerializedKeys)
  IN
  /\ At("fields") /\ ~IsArray(F.value) /\ F.todo # <<>>
  /\ \E v \in Read(F.value, k) :
       \/ v = Throws /\ Raise /\ UNCHANGED out
       \/ /\ v # Throws /\ omits(v)
          /\ Turns(f) /\ UNCHANGED <<raised, out, thrower>>
       \/ /\ v # Throws /\ ~omits(v) /\ Sensitive(F, k)
          /\ Put(p, "censor", Text, Origin(F.value))
          /\ Turns(g) /\ UNCHANGED <<raised, thrower>>
       \/ /\ v # Throws /\ ~omits(v) /\ ~Sensitive(F, k)
          /\ Calls2(g, Frame(held(v), p, F.depth + 1, TRUE, ser, Origin(F.value)))
          /\ UNCHANGED <<raised, out, thrower>>
  /\ UNCHANGED <<sanitizerVars, phase, visits, links, admitted>>

NameKey(f) == IF f.ser THEN "name" ELSE "type"

FieldsDone ==
  /\ At("fields") /\ F.todo = <<>>
  /\ IF AsData(F)
     THEN Turns([F EXCEPT !.step = "parts",
            !.todo = Without(<<NameKey(F), "message", "stack", "cause", "errors">>, F.written)])
     ELSE Ends
  /\ UNCHANGED <<sanitizerVars, phase, raised, out, visits, links, admitted, thrower>>

-----------------------------------------------------------------------------
(***************************************************************************)
(* addErrorParts: the head and the chain of an error written as data, each *)
(* read and walked alone.                                                  *)
(***************************************************************************)

\* Mutant: a part covers its own name.
CoversItself(p) == {p}

\* The fields whose text a part carries: covering one covers the part.
Covers(p) ==
  IF p = "type" THEN {"type", "name"}
  ELSE IF p = "stack" THEN {"stack", "name", "message"} ELSE {p}
Covered(p) == Covers(p) \cap policy.sensitive # {}

PartPath(f)   == Append(f.path, f.part)
NextPart(f) == [f EXCEPT !.step = "parts", !.part = None, !.linked = Undefined, !.before = <<>>]

\* Mutant: a part that cannot be read is read again.
LostPartRetried(f) == [NextPart(f) EXCEPT !.todo = <<f.part>> \o @, !.incomplete = TRUE]

LostPart(f)   == [NextPart(f) EXCEPT !.incomplete = TRUE]
CappedId      == Id(Len(stack), <<CAPPED>>)

\* What capErrors may make of a list: itself, the capped list (Indexes tells
\* the members apart), or a throw.
HasMethod(v) == ~Safe /\ heap[v].via \in {"method", "accessor", "buffer"}
Capped(v) == IsArray(v) /\ Len(heap[v].keys) > MaxAggregate /\ ~HasMethod(v)
FirstIndexes == {Indexes[i] : i \in 1..MaxAggregate}
CappedList(v, reading) ==
  [Node("array", SubSeq(Indexes, 1, MaxAggregate + 1),
        Assign([k \in FirstIndexes |-> {reading[k]}], Indexes[MaxAggregate + 1],
               {WidthMarker(Len(heap[v].keys) - MaxAggregate)}))
   EXCEPT !.size = heap[v].size]

ReadPart ==
  LET p == Head(F.todo)
      f == [F EXCEPT !.todo = Tail(@), !.part = p]
  IN
  /\ At("parts") /\ F.todo # <<>>
  /\ \E v \in Read(F.value, IF p = "type" THEN "name" ELSE p) :
       \/ /\ v = Throws
          /\ Turns(LostPart(f)) /\ UNCHANGED <<heap, out>>
       \/ /\ v = Undefined \/ (p = "stack" /\ IsObject(v))
          /\ Turns(NextPart(f)) /\ UNCHANGED <<heap, out>>
       \/ /\ v = Text
          /\ Put(PartPath(f), IF Covered(p) THEN "censor" ELSE "leaf", Text, Origin(F.value))
          /\ Turns(NextPart(f)) /\ UNCHANGED heap
       \/ /\ IsObject(v) /\ p # "stack" /\ ~(p = "errors" /\ Capped(v))
          /\ Turns([f EXCEPT !.step = "link", !.linked = v])
          /\ UNCHANGED <<heap, out>>
       \/ /\ p = "errors" /\ IsObject(v) /\ Capped(v)
          /\ \E reading \in Readings(v, FirstIndexes) :
               IF Fails(reading) \/ (~Safe /\ heap[v].via = "throwing")
               THEN Turns(LostPart(f)) /\ UNCHANGED heap
               ELSE /\ heap' = Assign(heap, CappedId, CappedList(v, reading))
                    /\ Turns([f EXCEPT !.step = "link", !.linked = CappedId])
          /\ UNCHANGED out
  /\ UNCHANGED <<policy, tasks, seen, made, phase, raised, visits, links, admitted, thrower>>

LevelOf(v) == IF v \in DOMAIN links THEN links[v] ELSE 0

\* What walkChainPart writes in place of links past the budget.
LevelMarkers(f, reading) ==
  LET p == PartPath(f)
      mark(v) == IF v \in Markers \ {DepthMarker} THEN v ELSE DepthMarker
      o == Origin(f.value)
  IN IF IsArray(f.linked) /\ f.ser
     THEN [q \in {p} \cup {Append(p, k) : k \in DOMAIN reading} |->
             IF q = p THEN Entry("markers", f.linked, o)
             ELSE Entry("object", mark(reading[q[Len(q)]]), f.linked)]
     ELSE [q \in {p} |-> Entry("object", DepthMarker, o)]

Link ==
  LET level == LevelOf(F.value) + 1 IN
  /\ At("link")
  /\ \E reading \in IF IsArray(F.linked) THEN Readings(F.linked, KeysOf(F.linked))
                    ELSE {[k \in {"0"} |-> F.linked]} :
       LET targets == {v \in {reading[k] : k \in DOMAIN reading} : IsRecord(v)} IN
       \/ /\ Fails(reading)
          /\ Turns(LostPart(F)) /\ UNCHANGED <<out, links>>
       \/ /\ ~Fails(reading) /\ targets # {} /\ level > MaxCauseDepth
          /\ out' = IF Covered(F.part)
                    THEN Assign(out, PartPath(F), Entry("censor", Text, Origin(F.value)))
                    ELSE Over(LevelMarkers(F, reading), out)
          /\ Turns(NextPart(F)) /\ UNCHANGED links
       \/ /\ ~Fails(reading) /\ (targets = {} \/ level <= MaxCauseDepth)
          /\ links' = Over([v \in targets |-> level], links)
          /\ Calls2([F EXCEPT !.step = "linked",
                              !.before = [v \in targets |-> LevelOf(v)]],
                    Frame(F.linked, PartPath(F), F.depth + 1, TRUE, F.ser, Origin(F.value)))
          /\ UNCHANGED out
  /\ UNCHANGED <<sanitizerVars, phase, raised, visits, admitted, thrower>>

\* finally: the links have the levels they had; level 0 is not kept.
Restored(f) ==
  LET gone == {v \in DOMAIN f.before : f.before[v] = 0}
      kept == DOMAIN f.before \ gone
  IN [v \in (DOMAIN links \ gone) |-> IF v \in kept THEN f.before[v] ELSE links[v]]

Linked ==
  /\ At("linked")
  /\ links' = Restored(F)
  /\ out' = IF Covered(F.part) /\ PartPath(F) \in DOMAIN out
            THEN Assign(Dropped(PartPath(F)), PartPath(F), Entry("censor", Text, Origin(F.value)))
            ELSE out
  /\ Turns(NextPart(F))
  /\ UNCHANGED <<sanitizerVars, phase, raised, visits, admitted, thrower>>

PartsDone ==
  /\ At("parts") /\ F.todo = <<>>
  /\ IF F.incomplete /\ INCOMPLETE_KEY \notin F.written
     THEN Put(Append(F.path, INCOMPLETE_KEY), "leaf", Text, Origin(F.value))
     ELSE UNCHANGED out
  /\ Ends
  /\ UNCHANGED <<sanitizerVars, phase, raised, visits, links, admitted, thrower>>

-----------------------------------------------------------------------------
(***************************************************************************)
(* What a throw meets on its way out.                                      *)
(***************************************************************************)

Unwinding == stack # <<>> /\ raised

\* Mutant: the levels are restored only when the walk returns.
CatchPartLeavingLevels ==
  /\ Unwinding /\ F.step = "linked"
  /\ raised' = FALSE
  /\ out' = Dropped(PartPath(F))
  /\ Turns(LostPart(F))
  /\ UNCHANGED <<sanitizerVars, phase, visits, links, admitted, thrower>>

\* add: a part that cannot be walked costs only itself.
CatchPart ==
  /\ Unwinding /\ F.step = "linked"
  /\ raised' = FALSE
  /\ out' = Dropped(PartPath(F))
  /\ links' = Restored(F)
  /\ Turns(LostPart(F))
  /\ UNCHANGED <<sanitizerVars, phase, visits, admitted, thrower>>

\* walkError: the error is replaced by its sanitized node, which is walked in
\* its place and counted once.

\* Mutant: an error outside the serializers' keys takes its record with it.
CatchesSerialized(f) == IsError(f.value) /\ f.ser

Catches(f) == IsError(f.value)

CatchError ==
  /\ Unwinding /\ F.step # "linked" /\ Catches(F)
  /\ raised' = FALSE
  /\ out' = Dropped(F.path)
  /\ visits' = visits - 1
  /\ StartSanitizing(F.value, Len(stack))
  /\ Turns([F EXCEPT !.step = "degraded"])
  /\ UNCHANGED <<policy, phase, links, admitted, thrower>>

WalkDegraded ==
  /\ At("degraded")
  /\ Turns(Frame(Id(Len(stack), <<>>), F.path, F.depth, F.honor, F.ser, F.owner))
  /\ UNCHANGED <<sanitizerVars, phase, raised, out, visits, links, admitted, thrower>>

\* Any other object: the copy is abandoned; past the root, the whole record is
\* the envelope.
Unwind ==
  /\ Unwinding /\ F.step # "linked" /\ ~Catches(F)
  /\ Ends
  /\ IF Len(stack) = 1
     THEN raised' = FALSE /\ out' = [q \in {<<>>} |-> Entry("envelope", Record, Record)]
     ELSE UNCHANGED <<raised, out>>
  /\ UNCHANGED <<sanitizerVars, phase, visits, links, admitted, thrower>>

-----------------------------------------------------------------------------
(***************************************************************************)
(* The two calls.                                                          *)
(***************************************************************************)

Sanitize ==
  /\ SanitizerStep
  /\ UNCHANGED walkVars

\* serializeErrorValue: name is written as type, and an own type gives way.
AsSerialized(node) ==
  [node EXCEPT !.keys  = <<"type">> \o Without(@, {"name", "type"}),
               !.field = Assign([k \in DOMAIN @ \ {"name"} |-> @[k]], "type", {Text})]

Serialized ==
  /\ phase = "serialize" /\ ~Sanitizing
  /\ phase' = "redact"
  /\ heap' = [heap EXCEPT ![Id(0, <<>>)] = AsSerialized(@)]
  /\ stack' = <<Frame(Id(0, <<>>), <<>>, 0, TRUE, FALSE, Thrown)>>
  /\ UNCHANGED <<policy, tasks, seen, made, raised, out, visits, links, admitted, thrower>>

Ended == phase \in {"record", "redact"} /\ stack = <<>>

Init ==
  /\ heap \in {Over(h, LibraryNodes) : h \in Heaps}
  /\ policy \in Policies
  /\ \/ /\ phase = "record"
        /\ stack = <<Frame(Record, <<>>, 0, FALSE, FALSE, Record)>>
        /\ tasks = <<>>
     \/ /\ phase = "serialize"
        /\ stack = <<>>
        /\ tasks = <<Task(Thrown, Id(0, <<>>), 0)>>
  /\ seen = {} /\ made = <<>>
  /\ raised = FALSE /\ thrower = Undefined
  /\ out = <<>> /\ links = <<>>
  /\ visits = 0 /\ admitted = 0

Walk ==
  \/ EnterPrimitive \/ EnterTooDeep \/ EnterOverBudget \/ Enter
  \/ InspectBinary \/ InspectRefused \/ InspectBuffer \/ FollowToJson \/ Followed
  \/ InspectFunction \/ Open \/ Element \/ Field \/ FieldsDone
  \/ ReadPart \/ Link \/ Linked \/ PartsDone
  \/ CatchPart \/ CatchError \/ WalkDegraded \/ Unwind

Next == Walk \/ Sanitize \/ Serialized

Spec == Init /\ [][Next]_vars
FairSpec == Spec /\ WF_vars(Next)

-----------------------------------------------------------------------------
(***************************************************************************)
(* Properties.                                                             *)
(***************************************************************************)

Containers == {"object", "array", "instance"}
Lists      == {"array", "markers"}

\* No value is written under a censored name, at any depth, in an error or its
\* chain, in a degraded error or in what a toJSON returned: only the censor is.
NothingUnderASensitiveName ==
  Ended => \A q \in DOMAIN out : \A i \in DOMAIN q :
    q[i] \in policy.sensitive /\ out[SubSeq(q, 1, i - 1)].what \notin Lists
      => i = Len(q) /\ out[q].what = "censor"

\* The stack of an error repeats its name and message: where the walk itself writes an
\* error as data, in a record, the stack goes when they do (covers, addErrorParts).
StackCarriesNoCensoredText ==
  Ended /\ phase = "record" /\ {"name", "message"} \cap policy.sensitive # {} =>
    \A q \in DOMAIN out : \A k \in {"stack"} :
      /\ q # <<>> /\ q[Len(q)] = k
      /\ IsError(out[q].owner) /\ out[q].owner = out[SubSeq(q, 1, Len(q) - 1)].of
      /\ k \notin KeysOf(out[q].owner)
      => out[q].what = "censor"

\* The censor is by name: nothing else is written under a censored name on any way to the
\* line, and of the errors the walk writes as data it takes the stack too, which repeats
\* the name and the message.  It does not take the stack of a degraded node (walkError), nor
\* of what the err serializer makes (serializeErrorValue): there message is censored, and
\* the first line of stack stays.
CensoredByName == NothingUnderASensitiveName /\ StackCarriesNoCensoredText

\* What is written of an error's own fields obeys the policy on every way it can
\* reach the line: walked, in a chain, degraded, or as what the serializer made.
\* Only under a serializer's key may an instance keep what it holds.
ErrorFieldsObeyThePolicy ==
  \A q \in DOMAIN out :
    /\ q # <<>> /\ IsError(out[q].owner)
    /\ out[SubSeq(q, 1, Len(q) - 1)].what \notin Lists
    /\ Safe \/ q[1] \notin SerializedKeys
    => LET k == q[Len(q)] IN
       /\ AllowsOwnField(k) \/ k = "type"
       /\ k \notin ARGUMENT_FIELDS
       /\ k \in DATABASE_VALUE_FIELDS => ~heap[out[q].owner].sqlState

\* The visit budget bounds the copy, and the work: an error costs at most its
\* own walk and that of its degraded node.  The depth of the copy is bounded;
\* the markers of a chain that is cut add one key, and no visit.
BudgetBoundsTheWalk ==
  /\ Cardinality({q \in DOMAIN out : out[q].what \in Containers /\ out[q].of \notin Markers})
       <= MaxVisits
  /\ admitted <= 2 * MaxVisits
  /\ \A q \in DOMAIN out : Len(q) <= MaxDepth + 2

\* Whatever the graph, neither the walk nor the node it makes of an error outgrows its
\* bounds.
WorkIsBounded == NodeIsBounded /\ BudgetBoundsTheWalk

\* An original object reaches the line only where nothing of it can answer
\* differently later: under 'safe' none does.
NothingLiveIsHandedOn ==
  \A q \in DOMAIN out : out[q].what = "reference" =>
    /\ ~Safe
    /\ heap[out[q].of].via \in {"none", "buffer"}
    /\ heap[out[q].of].via = "none" => heap[out[q].of].kind = "function"

\* "[Circular]" stands for a reference to an object being written, never for one
\* that is merely shared.
CircularMeansACycle ==
  \A q \in DOMAIN out : out[q].what = "circular" /\ heap[out[q].of].via = "none" =>
    \E n \in 0..(Len(q) - 1) : out[SubSeq(q, 1, n)].of = out[q].of

\* The chain levels kept beside the errors outlive no call, thrown or not: a
\* later record finds every chain with its whole budget.
LinksAreRestored == Ended => links = <<>>

\* What the walk remembers of its path says what is a cycle and what is too long a
\* chain, and nothing of one path is left for another.
PathsAreForgotten == CircularMeansACycle /\ LinksAreRestored

\* An error that cannot be read degrades on its own and leaves the rest of its
\* record; the envelope is for records whose other values cannot ("must degrade
\* on its own", walkError).
HostileErrorDegradesAlone ==
  Ended /\ phase = "record" /\ <<>> \in DOMAIN out /\ out[<<>>].what = "envelope" =>
    ~IsError(thrower)

\* Every call ends: cycles, chains, self-referring toJSON and errors that fail
\* again when degraded are all cut.
EveryCallEnds == <>Ended
=============================================================================
