------------------------- MODULE RedactionCopyProofs -------------------------
(***************************************************************************)
(* What the redaction writes: the properties of RedactionWalk and of the   *)
(* sanitizer, for every closed set of object graphs and every policy.      *)
(***************************************************************************)
EXTENDS RedactionWalkProofs

-----------------------------------------------------------------------------
(***************************************************************************)
(* Nothing live is handed on.                                              *)
(***************************************************************************)

\* Only the record, and the node an error degraded to, are walked without asking for
\* their toJSON.
HonorInv ==
  /\ heap[Record].kind # "function"
  /\ \A i \in DOMAIN stack : stack[i].honor = FALSE => stack[i].value \in {Record} \cup NodeIds

\* What is handed on is of the graph, which never changes.
ReferencesInv ==
  \A q \in DOMAIN out : out[q].what = "reference" =>
    /\ out[q].of \in DOMAIN heap /\ out[q].of \notin NodeIds
    /\ ~Safe
    /\ heap[out[q].of].via \in {"none", "buffer"}
    /\ heap[out[q].of].via = "none" => heap[out[q].of].kind = "function"

LEMMA HonorInit == Init => HonorInv /\ ReferencesInv
<1> SUFFICES ASSUME Init PROVE HonorInv /\ ReferencesInv
  OBVIOUS
<1>1. PICK h \in Heaps : heap = Over(h, LibraryNodes)
  BY DEF Init
<1>2. Record \in DOMAIN h /\ h[Record].kind # "function"
  BY RedactionAssumption
<1>3. heap[Record] = h[Record]
  BY <1>1, <1>2 DEF Over
<1>4. ASSUME NEW i \in DOMAIN stack PROVE stack[i].value = Record
  <2>1. CASE stack = <<Frame(Record, <<>>, 0, FALSE, FALSE, Record)>>
    <3>1. PICK f : f = Frame(Record, <<>>, 0, FALSE, FALSE, Record)
      OBVIOUS
    <3>2. f.value = Record
      BY <3>1 DEF Frame
    <3>3. stack = <<f>>
      BY <2>1, <3>1, Zenon
    <3>4. QED
      BY <3>2, <3>3
  <2>2. CASE stack = <<>>
    BY <1>4, <2>2
  <2>3. QED
    BY <2>1, <2>2, Zenon DEF Init
<1>5. DOMAIN out = {}
  BY DEF Init
<1>6. QED
  BY <1>2, <1>3, <1>4, <1>5 DEF HonorInv, ReferencesInv

LEMMA HonorNext ==
  ASSUME Types, HonorInv, [Next]_vars
  PROVE  HonorInv'
<1>1. heap'[Record].kind # "function"
  BY StepKeepsNodes, ValuesApart DEF GraphKept, HonorInv, Types, HeapInv
<1>2. StackSteps /\ StackInv
  BY StackStepsAre DEF Types
<1>3. ASSUME NEW i \in DOMAIN stack', stack'[i].honor = FALSE
      PROVE  stack'[i].value \in {Record} \cup NodeIds
  <2>1. CASE stack' = stack
    BY <1>3, <2>1 DEF HonorInv
  <2>2. CASE Walking /\ Walked
    <3>1. CASE Ends
      BY <1>2, <1>3, <2>2, <3>1, EndsShape DEF Walking, HonorInv
    <3>2. ASSUME NEW f, SameCall(f), Turns(f)
          PROVE  stack'[i].value \in {Record} \cup NodeIds
      BY <1>2, <1>3, <2>2, <3>2, TurnsShape DEF Walking, HonorInv, SameCall, F
    <3>3. ASSUME NEW f, NEW g, SameCall(f), Began(g), Calls2(f, g)
          PROVE  stack'[i].value \in {Record} \cup NodeIds
      BY <1>2, <1>3, <2>2, <3>3, CallsShape DEF Walking, HonorInv, SameCall, Began, F
    <3>4. QED
      BY <2>1, <2>2, <3>1, <3>2, <3>3 DEF Walked, Raise
  <2>3. CASE WalkDegraded /\ Walking
    BY <1>2, <1>3, <2>3, DegradedShape, TurnsShape DEF Walking, HonorInv
  <2>4. CASE Serialized
    <3>1. PICK f : stack' = <<f>> /\ f.honor = TRUE
      BY <2>4, SerializedShape
    <3>2. stack'[i] = f
      BY <3>1
    <3>3. QED
      BY <1>3, <3>1, <3>2
  <2>5. QED
    BY <1>2, <2>1, <2>2, <2>3, <2>4 DEF StackSteps
<1>4. QED
  BY <1>1, <1>3 DEF HonorInv

LEMMA ReferencesNext ==
  ASSUME Types, HonorInv, ReferencesInv, [Next]_vars
  PROVE  ReferencesInv'
<1>1. GraphKept /\ policy' = policy
  BY StepKeepsNodes, PolicyKept
<1>2. ASSUME NEW q \in DOMAIN out', out'[q].what = "reference", ~Kept(q)
      PROVE  /\ out'[q].of \in DOMAIN heap /\ out'[q].of \notin NodeIds
             /\ ~Safe
             /\ heap[out'[q].of].via \in {"none", "buffer"}
             /\ heap[out'[q].of].via = "none" => heap[out'[q].of].kind = "function"
  <2>1. Walk /\ Written(q)
    BY <1>2, WalkWrites
  <2>2. OwnWrite(q, out'[q])
    <3>1. ~FieldWrite(q, out'[q])
      BY <1>2 DEF FieldWrite
    <3>2. ~MarkerWrite(q, out'[q])
      BY <1>2 DEF MarkerWrite
    <3>3. ~EnvelopeWrite(q, out'[q])
      BY <1>2, EntryParts DEF EnvelopeWrite
    <3>4. QED
      BY <1>2, <2>1, <3>1, <3>2, <3>3 DEF Written
  <2>3. /\ out'[q].of = F.value /\ F.step = "inspect" /\ ~Safe
        /\ Via = "buffer" \/ (IsKind(F.value, "function") /\ ~HonoursToJson)
    BY <1>2, <2>2, EntryParts DEF OwnWrite
  <2>4. Walking
    BY <2>1, <2>3, WalkShape DEF WalkDegraded, At
  <2>5. F.value \in DOMAIN heap /\ HeapInv /\ StackInv
    BY <2>3, <2>4, WalkingIs DEF FrameOK
  <2>6. CASE Via = "buffer"
    <3>1. F.value \notin NodeIds
      BY <2>5, <2>6 DEF HeapInv, LibraryNode, Via
    <3>2. QED
      BY <2>3, <2>5, <2>6, <3>1 DEF Via
  <2>7. CASE IsKind(F.value, "function") /\ ~HonoursToJson
    <3>1. F.value \notin NodeIds
      BY <2>5, <2>7, ErrorsAreOfTheGraph, ValuesApart
    <3>2. heap[F.value].kind = "function" /\ F.value # Record
      BY <2>7 DEF IsKind, HonorInv
    <3>3. F = stack[Len(stack)] /\ Len(stack) \in DOMAIN stack /\ F.honor \in BOOLEAN
      <4>1. F = stack[Len(stack)] /\ Len(stack) \in DOMAIN stack
        <5>1. PICK n \in Nat \ {0} : n = Len(stack) /\ DOMAIN stack = 1..n
          BY <2>4, <2>5, FIs DEF Walking
        <5>2. QED
          BY <5>1 DEF F
      <4>2. F.honor \in BOOLEAN
        BY <2>4, WalkingIs, FrameParts
      <4>3. QED
        BY <4>1, <4>2
    <3>4. F.honor # FALSE
      BY <3>1, <3>2, <3>3 DEF HonorInv
    <3>5. F.honor = TRUE
      BY <3>3, <3>4, Zenon
    <3>6. Via = "none"
      BY <2>3, <2>7, <3>5 DEF HonoursToJson
    <3>7. QED
      BY <2>3, <2>5, <3>1, <3>2, <3>6 DEF Via
  <2>8. QED
    BY <2>3, <2>6, <2>7
<1>3. ASSUME NEW q \in DOMAIN out', out'[q].what = "reference"
      PROVE  /\ out'[q].of \in DOMAIN heap /\ out'[q].of \notin NodeIds
             /\ ~Safe
             /\ heap[out'[q].of].via \in {"none", "buffer"}
             /\ heap[out'[q].of].via = "none" => heap[out'[q].of].kind = "function"
  BY <1>2, <1>3 DEF Kept, ReferencesInv
<1>4. \A v : v \in DOMAIN heap /\ v \notin NodeIds => v \in DOMAIN heap' /\ heap'[v] = heap[v]
  BY <1>1 DEF GraphKept
<1>5. Safe' <=> Safe
  BY <1>1 DEF Safe
<1>6. QED
  BY <1>3, <1>4, <1>5 DEF ReferencesInv

\* Whatever the graph and whatever its getters answer, an original object reaches the line
\* only as a function of no toJSON or as a buffer, and under 'safe' not even then
\* (walkObject, isBufferToJson).
THEOREM NothingLive == Spec => []NothingLiveIsHandedOn
<1>1. Init => Types /\ HonorInv /\ ReferencesInv
  BY InitTypes, HonorInit
<1>2. (Types /\ HonorInv /\ ReferencesInv) /\ [Next]_vars => (Types /\ HonorInv /\ ReferencesInv)'
  BY NextTypes, StutterTypes, HonorNext, ReferencesNext
<1>3. ReferencesInv => NothingLiveIsHandedOn
  BY DEF ReferencesInv, NothingLiveIsHandedOn
<1>4. QED
  BY <1>1, <1>2, <1>3, PTL DEF Spec

-----------------------------------------------------------------------------
(***************************************************************************)
(* The links are restored.                                                 *)
(***************************************************************************)

\* Every level beside an error is one a part in progress has put there, and will take away.
LinksInv ==
  \A v \in DOMAIN links : \E i \in DOMAIN stack :
    stack[i].step = "linked" /\ v \in DOMAIN stack[i].before /\ stack[i].before[v] = 0

\* The calls around the innermost are those they were.
Around == \A i \in DOMAIN stack : i # Len(stack) => i \in DOMAIN stack' /\ stack'[i] = stack[i]

LEMMA AroundAreKept ==
  ASSUME Types, [Next]_vars
  PROVE  Around
<1>1. StackSteps /\ StackInv
  BY StackStepsAre DEF Types
<1>2. CASE stack' = stack
  BY <1>2 DEF Around
<1>3. CASE Walking /\ Walked
  <2>1. stack # <<>>
    BY <1>3 DEF Walking
  <2>2. CASE Ends
    BY <1>1, <2>1, <2>2, EndsShape DEF Around
  <2>3. ASSUME NEW f, Turns(f)
        PROVE  Around
    BY <1>1, <2>1, <2>3, TurnsShape DEF Around
  <2>4. ASSUME NEW f, NEW g, Calls2(f, g)
        PROVE  Around
    BY <1>1, <2>1, <2>4, CallsShape DEF Around
  <2>5. QED
    BY <1>2, <1>3, <2>2, <2>3, <2>4 DEF Walked, Raise
<1>4. CASE WalkDegraded /\ Walking
  BY <1>1, <1>4, DegradedShape, TurnsShape DEF Walking, Around
<1>5. CASE Serialized /\ stack = <<>>
  BY <1>5 DEF Around
<1>6. QED
  BY <1>1, <1>2, <1>3, <1>4, <1>5 DEF StackSteps

\* Only the end of a part, or a throw it catches, passes over a part in progress.
LEMMA LinkedStays ==
  ASSUME Types, Walk, ~Linked, ~CatchPart
  PROVE  F.step # "linked"
BY Zenon DEF Walk, At, Inspecting, Unwinding, EnterPrimitive, EnterTooDeep, EnterOverBudget, Enter,
   InspectBinary, InspectRefused, InspectBuffer, FollowToJson, Followed, InspectFunction,
   Open, Element, Field, FieldsDone, ReadPart, Link, PartsDone, CatchError, WalkDegraded, Unwind

LEMMA LevelsStay ==
  ASSUME [Next]_vars, ~Link, ~Linked, ~CatchPart
  PROVE  links' = links
BY Zenon DEF Next, Walk, EnterPrimitive, EnterTooDeep, EnterOverBudget, Enter,
   InspectBinary, InspectRefused, InspectBuffer, FollowToJson, Followed, InspectFunction,
   Open, Element, Field, FieldsDone, ReadPart, PartsDone, CatchError, WalkDegraded, Unwind,
   Sanitize, Serialized, walkVars, vars

LEMMA LinksNext ==
  ASSUME Types, LinksInv, [Next]_vars
  PROVE  LinksInv'
<1>1. Around
  BY AroundAreKept
<1>2. ASSUME NEW v \in DOMAIN links, NEW i \in DOMAIN stack, i # Len(stack),
             stack[i].step = "linked", v \in DOMAIN stack[i].before, stack[i].before[v] = 0
      PROVE  \E j \in DOMAIN stack' :
               stack'[j].step = "linked" /\ v \in DOMAIN stack'[j].before /\ stack'[j].before[v] = 0
  BY <1>1, <1>2 DEF Around
<1>3. CASE Walk /\ ~Link /\ ~Linked /\ ~CatchPart
  <2>1. links' = links /\ F.step # "linked"
    BY <1>3, LevelsStay, LinkedStays
  <2>2. QED
    BY <1>2, <2>1 DEF LinksInv, F
<1>4. CASE ~Walk
  <2>1. links' = links
    BY <1>4, LevelsStay DEF Walk
  <2>2. CASE stack' = stack
    BY <2>1, <2>2 DEF LinksInv
  <2>3. CASE stack = <<>>
    BY <2>1, <2>3 DEF LinksInv
  <2>4. QED
    BY <1>4, <2>2, <2>3, Zenon DEF Next, Sanitize, Serialized, walkVars, vars, Types, TasksInv
<1>5. CASE Linked \/ CatchPart
  <2>1. links' = Restored(F) /\ F.step = "linked"
    BY <1>5 DEF Linked, CatchPart, At
  <2>2. \A v \in DOMAIN links' :
          v \in DOMAIN links /\ ~(v \in DOMAIN F.before /\ F.before[v] = 0)
    BY <2>1 DEF Restored
  <2>3. QED
    BY <1>2, <2>2 DEF LinksInv, F
<1>6. CASE Link
  <2>1. stack # <<>> /\ F.step = "link" /\ StackInv /\ F \in Frames
    BY <1>6, FIs DEF Link, At, Types
  <2>2. CASE links' = links
    BY <1>2, <2>1, <2>2 DEF LinksInv, F
  <2>3. ASSUME NEW targets, NEW level, NEW g,
               links' = Over([v \in targets |-> level], links),
               Calls2([F EXCEPT !.step = "linked", !.before = [v \in targets |-> LevelOf(v)]], g)
        PROVE  LinksInv'
    <3>1. PICK b : b = [v \in targets |-> LevelOf(v)]
      OBVIOUS
    <3>2. PICK f : f = [F EXCEPT !.step = "linked", !.before = b]
      OBVIOUS
    <3>3. f.step = "linked" /\ f.before = b
      BY <2>1, <3>2 DEF Frames
    <3>4. PICK n \in Nat \ {0} : n \in DOMAIN stack' /\ stack'[n] = f
      <4>1. Calls2(f, g)
        BY <2>3, <3>1, <3>2
      <4>2. QED
        BY <2>1, <4>1, CallsShape
    <3>5. ASSUME NEW v \in DOMAIN links'
          PROVE  v \in DOMAIN links \/ (v \in targets /\ v \notin DOMAIN links)
      BY <2>3 DEF Over
    <3>6. ASSUME NEW v \in targets, v \notin DOMAIN links
          PROVE  v \in DOMAIN stack'[n].before /\ stack'[n].before[v] = 0
      BY <3>1, <3>3, <3>4, <3>6 DEF LevelOf
    <3>7. QED
      BY <1>2, <2>1, <3>3, <3>4, <3>5, <3>6 DEF LinksInv, F
  <2>4. QED
    BY <1>6, <2>2, <2>3, Zenon DEF Link
<1>7. QED
  BY <1>3, <1>4, <1>5, <1>6

\* A part that returns, or throws, takes away the levels it put beside its links: the
\* next record finds each chain with its whole budget (walkChainPart's finally).
THEOREM LevelsAreForgotten == Spec => []LinksAreRestored
<1>1. Init => Types /\ LinksInv
  <2>1. Init => DOMAIN links = {}
    BY DEF Init
  <2>2. QED
    BY <2>1, InitTypes DEF LinksInv
<1>2. (Types /\ LinksInv) /\ [Next]_vars => (Types /\ LinksInv)'
  BY NextTypes, LinksNext
<1>3. Types /\ LinksInv => LinksAreRestored
  <2> SUFFICES ASSUME Types, LinksInv, stack = <<>> PROVE links = <<>>
    BY DEF LinksAreRestored, Ended
  <2>1. DOMAIN links = {}
    BY DEF LinksInv
  <2>2. PICK D \in SUBSET Values : links \in [D -> Nat]
    BY DEF Types, ScalarsInv, Befores
  <2>3. links \in [{} -> Nat]
    BY <2>1, <2>2
  <2>4. <<>> \in [{} -> Nat]
    OBVIOUS
  <2>5. QED
    BY <2>3, <2>4
<1>4. QED
  BY <1>1, <1>2, <1>3, PTL DEF Spec

-----------------------------------------------------------------------------
(***************************************************************************)
(* What a step of the sanitizer is: it makes a node anew, or adds to one.  *)
(***************************************************************************)

LastOf(id) == id.route[Len(id.route)]

\* The calls around the innermost one stay; it goes on, or calls another.
ListBegins ==
  /\ ListOf(Top.id) \in DOMAIN made' /\ made'[ListOf(Top.id)].tag = "list"
  /\ ~IsError(made'[ListOf(Top.id)].from)
CallGoes(t) ==
  /\ t.from = Top.from /\ t.id = Top.id /\ t.step # "identify"
  /\ t.step = "members" => Top.step = "members" \/ ListBegins
CallBegins(t) ==
  /\ t.step = "identify" /\ ~WasSeen(t.from)
  /\ t.id.base = Top.id.base /\ t.id.route # <<>> /\ LastOf(t.id) # CAPPED
CallShape(i) ==
  \/ i \in DOMAIN tasks /\ i # Len(tasks) /\ tasks'[i] = tasks[i]
  \/ i = Len(tasks) /\ CallGoes(tasks'[i])
  \/ i = Len(tasks) + 1 /\ CallBegins(tasks'[i])
CallsAre == \A i \in DOMAIN tasks' : CallShape(i)
CallsLeft == \A i \in DOMAIN tasks' : i \in DOMAIN tasks /\ i # Len(tasks) /\ tasks'[i] = tasks[i]

\* The node is made anew.
Remade(tag) ==
  /\ Top.id \in DOMAIN heap' /\ Top.id \in DOMAIN made'
  /\ heap'[Top.id] = TwoTexts
  /\ \A v \in DOMAIN heap' : v # Top.id => v \in DOMAIN heap /\ heap'[v] = heap[v]
  /\ \A i \in DOMAIN made : i \in DOMAIN made'
  /\ \A i \in DOMAIN made' : i # Top.id => i \in DOMAIN made /\ made'[i] = made[i]
  /\ made'[Top.id].from = Top.from /\ made'[Top.id].tag = tag
  /\ made'[Top.id].level = Top.level /\ made'[Top.id].lost = FALSE

Opens  == /\ Top.step = "identify" /\ IsRecord(Top.from) /\ Remade("error") /\ CallsAre
          /\ DOMAIN tasks' = DOMAIN tasks /\ seen' = seen \cup {Top.from}
Closes == /\ Remade("unknown") \/ Remade("failed")
          /\ CallsLeft /\ seen' \in {seen, seen \cup {Top.from}}

\* Or it gains fields, and no other node changes but the list that hangs on it.
LibraryKeys == {"stack", "cause", "errors", INCOMPLETE_KEY}
CopiedKey(k) == k \in KeysOf(Top.from) /\ \E a : ~OmitsOwnField(Top.from, k, a)

Grown(n, w) == w.kind = n.kind /\ w.via = n.via /\ \A k \in DOMAIN n.field : k \in DOMAIN w.field
NodeGrows(v) ==
  /\ v \in DOMAIN heap /\ heap'[v].kind = heap[v].kind
  /\ \A k \in DOMAIN heap[v].field : k \in DOMAIN heap'[v].field
  /\ heap'[v].via = heap[v].via \/ "toJSON" \in KeysOf(Top.from)
  /\ \A k \in Elements(heap'[v].keys) :
       k \in Elements(heap[v].keys) \/ k \in LibraryKeys \/ CopiedKey(k)
ListGrowth(v) ==
  /\ Len(heap'[v].keys) <= MaxAggregate + 1
  /\ \/ /\ Top.step = "errors" /\ heap'[v].kind = "array" /\ heap'[v].via = "none"
        /\ v \in DOMAIN made' /\ made'[v].tag = "list" /\ made'[v].lost = FALSE
        /\ ~IsError(made'[v].from)
     \/ Top.step = "members" /\ v \in DOMAIN heap /\ Grown(heap[v], heap'[v])
HeapGrows ==
  \A v \in DOMAIN heap' :
    \/ v \in DOMAIN heap /\ heap'[v] = heap[v]
    \/ v = Top.id /\ NodeGrows(v)
    \/ v = ListOf(Top.id) /\ ListGrowth(v)
MadeGrows ==
  /\ \A i \in DOMAIN made : i \in DOMAIN made'
  /\ \A i \in DOMAIN made' :
    \/ i \in DOMAIN made /\ made'[i] = made[i]
    \/ /\ i = Top.id /\ i \in DOMAIN made /\ made'[i] = [made[i] EXCEPT !.lost = TRUE]
       /\ INCOMPLETE_KEY \in DOMAIN heap'[i].field
    \/ /\ i = ListOf(Top.id) /\ made'[i].tag = "list" /\ made'[i].lost = FALSE
       /\ made'[i].level = Top.level /\ ~IsError(made'[i].from)
       /\ i \in DOMAIN heap' /\ Len(heap'[i].keys) <= MaxAggregate + 1
Fills  == /\ Top.step # "identify" /\ seen' = seen
          /\ HeapGrows /\ MadeGrows /\ (CallsAre \/ CallsLeft)

LEMMA GoesOn ==
  ASSUME TasksInv, Sanitizing, NEW t, CallGoes(t), tasks' = [tasks EXCEPT ![Len(tasks)] = t]
  PROVE  CallsAre
<1>1. PICK n \in Nat \ {0} : n = Len(tasks) /\ DOMAIN tasks = 1..n
  BY TopIs
<1>2. DOMAIN tasks' = 1..n /\ \A i \in 1..n : tasks'[i] = IF i = n THEN t ELSE tasks[i]
  BY <1>1
<1>3. \A i \in 1..n : CallShape(i)
  BY <1>1, <1>2 DEF CallShape
<1>4. QED
  BY <1>2, <1>3 DEF CallsAre

LEMMA GoesCalling ==
  ASSUME TasksInv, Sanitizing, NEW t \in Tasks, CallGoes(t), NEW c \in Tasks, CallBegins(c),
         tasks' = [tasks EXCEPT ![Len(tasks)] = t] \o <<c>>
  PROVE  CallsAre
<1>1. PICK n \in Nat \ {0} : n = Len(tasks) /\ DOMAIN tasks = 1..n
  BY TopIs
<1>2. PICK s \in Seq(Tasks) :
        /\ s = [tasks EXCEPT ![Len(tasks)] = t] /\ Len(s) = n
        /\ \A j \in 1..n : s[j] = IF j = n THEN t ELSE tasks[j]
  <2>1. PICK s : s = [tasks EXCEPT ![Len(tasks)] = t]
    OBVIOUS
  <2>2. tasks \in Seq(Tasks) /\ Len(tasks) \in 1..Len(tasks)
    BY <1>1 DEF TasksInv
  <2>3. /\ s \in Seq(Tasks) /\ Len(s) = n
        /\ \A j \in 1..n : s[j] = IF j = n THEN t ELSE tasks[j]
    BY <1>1, <2>1, <2>2, ExceptSeq
  <2>4. QED
    BY <2>1, <2>3
<1>3. tasks' = Append(s, c)
  BY <1>2, AppendIsConcat
<1>4. /\ tasks' \in Seq(Tasks) /\ Len(tasks') = n + 1 /\ tasks'[n + 1] = c
      /\ \A j \in 1..n : tasks'[j] = s[j]
  <2>1. /\ Append(s, c) \in Seq(Tasks) /\ Len(Append(s, c)) = Len(s) + 1
        /\ Append(s, c)[Len(s) + 1] = c /\ \A j \in 1..Len(s) : Append(s, c)[j] = s[j]
    BY AppendProperties
  <2>2. QED
    BY <1>2, <1>3, <2>1
<1>5. DOMAIN tasks' = 1..(n + 1)
  BY <1>4, LenProperties
<1>6. \A i \in 1..n : CallShape(i)
  BY <1>1, <1>2, <1>4 DEF CallShape
<1>7. CallShape(n + 1)
  BY <1>1, <1>4 DEF CallShape
<1>8. QED
  BY <1>5, <1>6, <1>7, OneMore DEF CallsAre

LEMMA AdvanceGoes ==
  ASSUME TasksInv, Sanitizing, NEW step, Advance(step), step # "identify", step # "members"
  PROVE  CallsAre /\ DOMAIN tasks' = DOMAIN tasks
<1>1. PICK t : t = [Top EXCEPT !.step = step]
  OBVIOUS
<1>2. CallGoes(t)
  BY <1>1, TopIs DEF Tasks, CallGoes
<1>3. tasks' = [tasks EXCEPT ![Len(tasks)] = t]
  BY <1>1 DEF Advance, Top
<1>4. DOMAIN tasks' = DOMAIN tasks
  BY <1>3
<1>5. QED
  BY <1>2, <1>3, <1>4, GoesOn

LEMMA LeaveLeaves ==
  ASSUME TasksInv, Sanitizing, UNCHANGED walkVars, Touches, Leave
  PROVE  CallsLeft
BY TaskLeaves DEF CallsLeft

\* The innermost call goes on, with a call for a link or without one.
LEMMA LinkShape ==
  ASSUME TasksInv, Sanitizing, NEW t \in Tasks, CallGoes(t),
         NEW v \in AppValues, NEW route \in Seq(Names), Len(route) \in {1, 2},
         route[Len(route)] # CAPPED,
         tasks' = [tasks EXCEPT ![Len(tasks)] = t]
                    \o (IF Calls(v) THEN <<Task(v, Child(v, route), Top.level + 1)>> ELSE <<>>)
  PROVE  CallsAre
<1>1. CASE Calls(v)
  <2>1. PICK c : c = Task(v, Child(v, route), Top.level + 1)
    OBVIOUS
  <2>2. c \in Tasks /\ c.id \in NodeIds /\ c.id = Child(v, route)
    BY <1>1, <2>1, ChildIs
  <2>3. c.from = v /\ c.step = "identify"
    BY <2>1 DEF Task
  <2>4. ~WasSeen(c.from)
    BY <1>1, <2>3 DEF Calls
  <2>5. c.id = Id(Top.id.base, Top.id.route \o route)
    BY <1>1, <2>2 DEF Calls, Child
  <2>6. c.id.base = Top.id.base /\ c.id.route = Top.id.route \o route
    BY <2>5 DEF Id
  <2>7. PICK s \in Seq(Names) : s = Top.id.route
    BY TopIs, IdIs
  <2>8. PICK m \in Nat, k \in {1, 2} : m = Len(s) /\ k = Len(route)
    BY LenProperties
  <2>9. /\ Len(s \o route) = m + k
        /\ \A i \in 1..(m + k) : (s \o route)[i] = IF i <= m THEN s[i] ELSE route[i - m]
    BY <2>8, ConcatProperties
  <2>10. m + k \in 1..(m + k) /\ ~ m + k <= m /\ (m + k) - m = k
    OBVIOUS
  <2>11. (s \o route)[m + k] = route[k]
    BY <2>9, <2>10
  <2>12. LastOf(c.id) # CAPPED
    BY <2>6, <2>7, <2>8, <2>9, <2>11 DEF LastOf
  <2>13. c.id.route # <<>>
    <3>1. Len(<<>>) = 0 /\ m + k # 0
      OBVIOUS
    <3>2. QED
      BY <2>6, <2>7, <2>9, <3>1
  <2>14. CallBegins(c)
    BY <2>3, <2>4, <2>6, <2>12, <2>13 DEF CallBegins
  <2>15. tasks' = [tasks EXCEPT ![Len(tasks)] = t] \o <<c>>
    BY <1>1, <2>1
  <2>16. QED
    BY <2>2, <2>14, <2>15, GoesCalling
<1>2. CASE ~Calls(v)
  <2>1. tasks' = [tasks EXCEPT ![Len(tasks)] = t]
    <3>1. PICK s \in Seq(Tasks) : s = [tasks EXCEPT ![Len(tasks)] = t]
      <4>1. PICK s : s = [tasks EXCEPT ![Len(tasks)] = t]
        OBVIOUS
      <4>2. tasks \in Seq(Tasks) /\ Len(tasks) \in 1..Len(tasks)
        BY TopIs DEF TasksInv
      <4>3. s \in Seq(Tasks)
        BY <4>1, <4>2, ExceptSeq
      <4>4. QED
        BY <4>1, <4>3
    <3>2. s \o <<>> = s
      BY ConcatEmptySeq
    <3>3. QED
      BY <1>2, <3>1, <3>2
  <2>2. QED
    BY <2>1, GoesOn
<1>3. QED
  BY <1>1, <1>2

LEMMA RemadeIs ==
  ASSUME Sane, NEW tag, Store(TwoTexts), Make(tag)
  PROVE  Remade(tag)
<1>1. PICK id : id = Top.id
  OBVIOUS
<1>2. PICK m : m = [from |-> Top.from, tag |-> tag, level |-> Top.level, lost |-> FALSE]
  OBVIOUS
<1>3. m.from = Top.from /\ m.tag = tag /\ m.level = Top.level /\ m.lost = FALSE
  BY <1>2
<1>4. made' = Assign(made, id, m)
  BY <1>1, <1>2 DEF Make
<1>5. /\ \A x : x \in DOMAIN made' <=> (x \in DOMAIN made \/ x = id)
      /\ made'[id] = m
      /\ \A x \in DOMAIN made : x # id => made'[x] = made[x]
  BY <1>4, Assigned
<1>6. PICK n : n = TwoTexts
  OBVIOUS
<1>7. heap' = Assign(heap, id, n)
  BY <1>1, <1>6 DEF Store
<1>8. /\ \A x : x \in DOMAIN heap' <=> (x \in DOMAIN heap \/ x = id)
      /\ heap'[id] = n
      /\ \A x \in DOMAIN heap : x # id => heap'[x] = heap[x]
  BY <1>7, Assigned
<1>9. QED
  BY <1>1, <1>3, <1>5, <1>6, <1>8 DEF Remade

LEMMA CallCloses ==
  ASSUME Sane, NEW tag \in {"unknown", "failed"}, Store(TwoTexts), Make(tag), Leave,
         seen' \in {seen, seen \cup {Top.from}}
  PROVE  Closes
<1>1. Remade(tag)
  BY RemadeIs
<1>2. tag \in Tags
  BY DEF Tags
<1>3. TasksInv' /\ Touches
  BY <1>2, Degraded
<1>4. CallsLeft
  BY <1>3, LeaveLeaves DEF Sane, SanitizerInv
<1>5. QED
  BY <1>1, <1>4 DEF Closes

LEMMA IdentifyShape ==
  ASSUME Sane, Identify
  PROVE  Opens \/ Closes
<1>1. CASE ~IsRecord(Top.from)
  <2>1. Store(TwoTexts) /\ Make("unknown") /\ Leave /\ seen' = seen
    BY <1>1 DEF Identify
  <2>2. QED
    BY <2>1, CallCloses
<1>2. CASE IsRecord(Top.from)
  <2>1. PICK shape \in Readings(Top.from, {"name", "message"}) :
          IF shape = [k \in {"name", "message"} |-> Text]
             THEN /\ seen' = seen \cup {Top.from}
                  /\ \E head \in Readings(Top.from, {"name", "message"}) :
                       IF Fails(head) THEN Degrade
                       ELSE Store(TwoTexts) /\ Make("error") /\ Advance("stack")
             ELSE /\ \/ Degrade
                     \/ Store(TwoTexts) /\ Make("unknown") /\ Leave
                  /\ UNCHANGED seen
    BY <1>2 DEF Identify
  <2>2. seen' \in {seen, seen \cup {Top.from}}
    BY <2>1
  <2>3. CASE Degrade \/ (Store(TwoTexts) /\ Make("unknown") /\ Leave)
    BY <2>2, <2>3, CallCloses DEF Degrade
  <2>4. CASE Store(TwoTexts) /\ Make("error") /\ Advance("stack") /\ seen' = seen \cup {Top.from}
    <3>1. Remade("error")
      BY <2>4, RemadeIs
    <3>2. CallsAre /\ DOMAIN tasks' = DOMAIN tasks
      BY <2>4, AdvanceGoes DEF Sane, SanitizerInv
    <3>3. Top.step = "identify"
      BY DEF Identify
    <3>4. QED
      BY <1>2, <2>4, <3>1, <3>2, <3>3 DEF Opens
  <2>5. QED
    BY <2>1, <2>3, <2>4
<1>3. QED
  BY <1>1, <1>2

\* A node is stored.
LEMMA StoreGrows ==
  ASSUME Sane, Top.step # "identify", NEW node, Store(node), node.kind = Built.kind,
         \A k \in DOMAIN Built.field : k \in DOMAIN node.field,
         node.via = Built.via \/ "toJSON" \in KeysOf(Top.from),
         \A k \in Elements(node.keys) :
           k \in Elements(Built.keys) \/ k \in LibraryKeys \/ CopiedKey(k)
  PROVE  HeapGrows /\ heap'[Top.id] = node
<1>1. PICK id : id = Top.id /\ id \in DOMAIN heap /\ heap[id] = Built
  BY BuiltIs DEF Sane, SanitizerInv
<1>2. heap' = Assign(heap, id, node)
  BY <1>1 DEF Store
<1>3. /\ \A x : x \in DOMAIN heap' <=> (x \in DOMAIN heap \/ x = id)
      /\ heap'[id] = node
      /\ \A x \in DOMAIN heap : x # id => heap'[x] = heap[x]
  BY <1>2, Assigned
<1>4. NodeGrows(id)
  BY <1>1, <1>3 DEF NodeGrows
<1>5. QED
  BY <1>1, <1>3, <1>4 DEF HeapGrows

LEMMA GainGrows ==
  ASSUME Sane, Top.step # "identify", NEW k \in LibraryKeys, NEW x \in Values \ {Throws},
         Store(With(Built, k, x))
  PROVE  HeapGrows /\ k \in DOMAIN heap'[Top.id].field
<1>1. LibraryNode(Built)
  BY BuiltIs DEF Sane, SanitizerInv
<1>2. k \in Names
  BY NamesAre DEF LibraryKeys
<1>3. PICK node : node = With(Built, k, x)
  OBVIOUS
<1>4. /\ DOMAIN node.field = DOMAIN Built.field \cup {k}
      /\ node.kind = Built.kind /\ node.via = Built.via
      /\ Elements(node.keys) = Elements(Built.keys) \cup {k}
  BY <1>1, <1>2, <1>3, WithKeeps
<1>5. HeapGrows /\ heap'[Top.id] = node
  BY <1>3, <1>4, StoreGrows
<1>6. QED
  BY <1>4, <1>5

LEMMA MadeStays ==
  ASSUME made' = made
  PROVE  MadeGrows
BY DEF MadeGrows

LEMMA LoseGrows ==
  ASSUME Sane, Top.step # "identify", Top.id \in DOMAIN made, Lose, Store(Marked)
  PROVE  HeapGrows /\ MadeGrows
<1>1. Text \in Values \ {Throws}
  BY ValuesApart DEF AppValues, Primitives, Values
<1>2. INCOMPLETE_KEY \in LibraryKeys
  BY DEF LibraryKeys
<1>3. HeapGrows /\ INCOMPLETE_KEY \in DOMAIN heap'[Top.id].field
  BY <1>1, <1>2, GainGrows DEF Marked
<1>4. PICK id : id = Top.id
  OBVIOUS
<1>5. made' = [made EXCEPT ![id].lost = TRUE]
  BY <1>4 DEF Lose
<1>6. /\ DOMAIN made' = DOMAIN made
      /\ \A x \in DOMAIN made : x # id => made'[x] = made[x]
      /\ made'[id] = [made[id] EXCEPT !.lost = TRUE]
  BY <1>4, <1>5
<1>7. MadeGrows
  BY <1>3, <1>4, <1>6 DEF MadeGrows
<1>8. QED
  BY <1>3, <1>7

\* The innermost call has its node's record.
MadeTop == Top.step # "identify" => Top.id \in DOMAIN made

LEMMA HeapStays ==
  ASSUME heap' = heap
  PROVE  HeapGrows
BY DEF HeapGrows

LEMMA ReadStackShape ==
  ASSUME Sane, MadeTop, ReadStack
  PROVE  Fills \/ Closes
<1>1. /\ Top.step = "stack" /\ seen' = seen /\ Sanitizing
      /\ \/ Degrade
         \/ Lose /\ Store(Marked) /\ Advance("cause")
         \/ Store(With(Built, "stack", Text)) /\ Advance("cause") /\ UNCHANGED made
         \/ Advance("cause") /\ UNCHANGED <<heap, made>>
  BY Zenon DEF ReadStack
<1>2. Top.id \in DOMAIN made /\ Top.step # "identify"
  BY <1>1 DEF MadeTop
<1>3. CASE Degrade
  BY <1>1, <1>3, CallCloses DEF Degrade
<1>4. CASE Lose /\ Store(Marked) /\ Advance("cause")
  BY <1>1, <1>2, <1>4, LoseGrows, AdvanceGoes DEF Fills, Sane, SanitizerInv
<1>5. CASE Store(With(Built, "stack", Text)) /\ Advance("cause") /\ UNCHANGED made
  <2>1. MadeGrows
    BY <1>5, MadeStays
  <2>2. Text \in Values \ {Throws} /\ "stack" \in LibraryKeys
    BY ValuesApart DEF AppValues, Primitives, Values, LibraryKeys
  <2>3. HeapGrows
    BY <1>2, <1>5, <2>2, GainGrows
  <2>4. QED
    BY <1>1, <1>5, <2>1, <2>3, AdvanceGoes DEF Fills, Sane, SanitizerInv
<1>6. CASE Advance("cause") /\ UNCHANGED <<heap, made>>
  BY <1>1, <1>6, HeapStays, MadeStays, AdvanceGoes DEF Fills, Sane, SanitizerInv
<1>7. QED
  BY <1>1, <1>3, <1>4, <1>5, <1>6

LEMMA ReadCauseShape ==
  ASSUME Sane, MadeTop, ReadCause
  PROVE  Fills
<1>1. PICK cause \in Read(Top.from, "cause") :
       LET child == Child(cause, <<"cause">>) IN
       \/ /\ cause = Throws
          /\ Lose /\ Store(Marked) /\ Advance("errors")
       \/ /\ cause = Undefined
          /\ Advance("errors") /\ UNCHANGED <<heap, made>>
       \/ /\ cause \notin {Throws, Undefined}
          /\ Store(With(Built, "cause", child))
          /\ tasks' = [tasks EXCEPT ![Len(tasks)].step = "errors"]
                        \o (IF Calls(cause) THEN <<Task(cause, child, Top.level + 1)>> ELSE <<>>)
          /\ UNCHANGED made
  BY DEF ReadCause
<1>2. Top.step = "cause" /\ seen' = seen /\ Sanitizing
  BY DEF ReadCause
<1>3. Top.from \in DOMAIN heap /\ Top.from \notin NodeIds
  BY <1>2, BuiltIs DEF Sane, SanitizerInv
<1>4. cause \in AppValues
  BY <1>1, <1>3, ReadsAre DEF Sane, SanitizerInv
<1>5. Top.id \in DOMAIN made /\ Top.step # "identify"
  BY <1>2 DEF MadeTop
<1>6. CASE Lose /\ Store(Marked) /\ Advance("errors")
  BY <1>2, <1>5, <1>6, LoseGrows, AdvanceGoes DEF Fills, Sane, SanitizerInv
<1>7. CASE Advance("errors") /\ UNCHANGED <<heap, made>>
  BY <1>2, <1>5, <1>7, HeapStays, MadeStays, AdvanceGoes DEF Fills, Sane, SanitizerInv
<1>8. CASE /\ Store(With(Built, "cause", Child(cause, <<"cause">>)))
           /\ tasks' = [tasks EXCEPT ![Len(tasks)].step = "errors"]
                        \o (IF Calls(cause)
                            THEN <<Task(cause, Child(cause, <<"cause">>), Top.level + 1)>> ELSE <<>>)
           /\ UNCHANGED made
  <2>1. PICK route \in Seq(Names) : route = <<"cause">> /\ Len(route) = 1
    BY NamesAre, OneIs
  <2>2. Child(cause, route) \in Values \ {Throws} /\ "cause" \in LibraryKeys
    BY <1>4, <2>1, ChildIs DEF Sane, SanitizerInv, LibraryKeys
  <2>3. HeapGrows
    BY <1>5, <1>8, <2>1, <2>2, GainGrows
  <2>4. MadeGrows
    BY <1>8, MadeStays
  <2>5. PICK t : t = [Top EXCEPT !.step = "errors"]
    OBVIOUS
  <2>6. "errors" \in TaskSteps
    BY DEF TaskSteps
  <2>7. t \in Tasks /\ t.id = Top.id /\ t.step = "errors" /\ t.from = Top.from
    BY <2>5, <2>6, TopIs DEF Tasks, Sane, SanitizerInv
  <2>8. CallGoes(t)
    BY <2>7 DEF CallGoes
  <2>9. tasks' = [tasks EXCEPT ![Len(tasks)] = t]
                    \o (IF Calls(cause) THEN <<Task(cause, Child(cause, route), Top.level + 1)>>
                        ELSE <<>>)
    BY <1>8, <2>1, <2>5 DEF Top
  <2>10. route[Len(route)] # CAPPED
    BY <2>1 DEF CAPPED
  <2>11. CallsAre
    BY <1>4, <2>1, <2>7, <2>8, <2>9, <2>10, LinkShape DEF Sane, SanitizerInv
  <2>12. QED
    BY <1>2, <1>5, <2>3, <2>4, <2>11 DEF Fills
<1>9. QED
  BY <1>1, <1>6, <1>7, <1>8

\* The list gains a member, or its marker.
LEMMA ListGrowsBy ==
  ASSUME Sane, Top.step = "members",
         NEW v \in Values \ {Throws}, v \in NodeIds => v.base = Top.id.base,
         heap' = [heap EXCEPT ![ListId] = With(@, Place, v)]
  PROVE  HeapGrows
<1>1. /\ ListId = ListOf(Top.id)
      /\ DOMAIN heap' = DOMAIN heap
      /\ Len(heap[ListId].keys) \in Nat /\ Len(heap'[ListId].keys) \in Nat
      /\ Len(heap'[ListId].keys) <= Len(heap[ListId].keys) + 1
      /\ heap'[ListId] = With(heap[ListId], Place, v)
  BY ListGrows DEF Sane, SanitizerInv
<1>2. PICK list \in NodeIds : list = ListId /\ list = ListOf(Top.id) /\ list \in DOMAIN heap
  BY <1>1, TopIs, ListOfIs DEF TaskOK, Sane, SanitizerInv
<1>3. PICK m \in Nat : m = Len(Top.links)
  BY TopIs, LenProperties DEF Sane, SanitizerInv
<1>4. PICK n \in Nat : n = Len(heap[list].keys)
  BY <1>1, <1>2
<1>5. n + m <= MaxAggregate
  BY <1>2, <1>3, <1>4, TopIs DEF TaskOK, Sane, SanitizerInv
<1>6. Len(heap'[list].keys) <= MaxAggregate + 1
  BY <1>1, <1>2, <1>4, <1>5, IndexesAre
<1>7. Place \in Names
  <2>1. n + 1 \in 1..Len(Indexes)
    BY <1>5, IndexesAre
  <2>2. QED
    BY <1>2, <1>4, <2>1, IndexesAre DEF Place
<1>8. LibraryNode(heap[list])
  BY <1>2 DEF HeapInv, Sane, SanitizerInv
<1>9. Grown(heap[list], heap'[list])
  BY <1>1, <1>2, <1>7, <1>8, WithKeeps DEF Grown
<1>10. ListGrowth(list)
  BY <1>2, <1>6, <1>9 DEF ListGrowth
<1>11. \A x \in DOMAIN heap : x # list => heap'[x] = heap[x]
  BY <1>2
<1>12. QED
  BY <1>1, <1>2, <1>10, <1>11 DEF HeapGrows

LEMMA VisitMemberShape ==
  ASSUME Sane, MadeTop, VisitMember
  PROVE  Fills
<1>1. PICK v : v = Head(Top.links)
  OBVIOUS
<1>2. PICK route : route = <<"errors", Place>>
  OBVIOUS
<1>3. /\ Top.step = "members" /\ Top.links # <<>>
      /\ heap' = [heap EXCEPT ![ListId] = With(@, Place, Child(v, route))]
      /\ tasks' = [tasks EXCEPT ![Len(tasks)].links = Tail(@)]
                \o (IF Calls(v) THEN <<Task(v, Child(v, route), Top.level + 1)>> ELSE <<>>)
      /\ seen' = seen /\ made' = made
  BY <1>1, <1>2 DEF VisitMember
<1>4. PICK links_ \in Seq(AppValues) : links_ = Top.links
  BY TopIs DEF Sane, SanitizerInv
<1>5. v \in AppValues /\ Tail(links_) \in Seq(AppValues) /\ Len(links_) \in Nat /\ Len(links_) # 0
  BY <1>1, <1>3, <1>4, HeadTailProperties, LenProperties, EmptySeq
<1>6. PICK list : list = ListId /\ list = ListOf(Top.id) /\ list \in DOMAIN heap
  BY <1>3, TopIs DEF ListId, ListOf, TaskOK, Sane, SanitizerInv
<1>7. PICK n \in Nat : n = Len(heap[list].keys)
  BY <1>6, ObjectsAre, LenProperties DEF Sane, SanitizerInv
<1>8. n + 1 \in 1..Len(Indexes)
  <2>1. n + Len(links_) <= MaxAggregate
    BY <1>3, <1>4, <1>6, <1>7, TopIs DEF TaskOK, Sane, SanitizerInv
  <2>2. QED
    BY <1>5, <2>1, IndexesAre
<1>9. Place \in Names /\ Place # CAPPED
  <2>1. Place = Indexes[n + 1]
    BY <1>6, <1>7 DEF Place
  <2>2. QED
    BY <1>8, <2>1, IndexesAre, RedactionAssumption
<1>10. route \in Seq(Names) /\ Len(route) = 2 /\ route[2] = Place
  BY <1>2, <1>9, NamesAre, TwoAre
<1>11. /\ Child(v, route) \in Values \ {Throws}
       /\ Child(v, route) \in NodeIds => Child(v, route).base = Top.id.base
  BY <1>5, <1>10, ChildIs DEF Sane, SanitizerInv
<1>12. HeapGrows
  BY <1>3, <1>11, ListGrowsBy
<1>13. MadeGrows
  BY <1>3, MadeStays
<1>14. PICK t : t = [Top EXCEPT !.links = Tail(links_)]
  OBVIOUS
<1>15. t \in Tasks /\ t.id = Top.id /\ t.step = "members" /\ t.from = Top.from
  BY <1>3, <1>5, <1>14, TopIs DEF Tasks, Sane, SanitizerInv
<1>16. CallGoes(t)
  BY <1>3, <1>15 DEF CallGoes
<1>17. tasks' = [tasks EXCEPT ![Len(tasks)] = t]
                  \o (IF Calls(v) THEN <<Task(v, Child(v, route), Top.level + 1)>> ELSE <<>>)
  <2>1. [tasks EXCEPT ![Len(tasks)].links = Tail(@)] = [tasks EXCEPT ![Len(tasks)] = t]
    BY <1>4, <1>14 DEF Top
  <2>2. QED
    BY <1>3, <2>1
<1>18. CallsAre
  BY <1>5, <1>9, <1>10, <1>15, <1>16, <1>17, LinkShape DEF Sane, SanitizerInv
<1>19. QED
  BY <1>3, <1>12, <1>13, <1>18 DEF Fills

LEMMA MembersDoneShape ==
  ASSUME Sane, MadeTop, MembersDone
  PROVE  Fills
<1>1. /\ Top.step = "members" /\ Advance("own") /\ seen' = seen /\ made' = made
      /\ heap' = IF Top.left > 0
                 THEN [heap EXCEPT ![ListId] = With(@, Place, WidthMarker(Top.left))]
                 ELSE heap
  BY DEF MembersDone
<1>2. HeapGrows
  <2>1. CASE Top.left > 0
    <3>1. Top.left \in 1..MaxOmitted
      BY <1>1, <2>1, TopIs DEF TaskOK, Sane, SanitizerInv
    <3>2. WidthMarker(Top.left) \in Markers
      BY <3>1, MarkersAre
    <3>3. WidthMarker(Top.left) \in Values \ {Throws} /\ WidthMarker(Top.left) \notin NodeIds
      BY <3>2, ValuesApart DEF Values, Objects, Primitives
    <3>4. QED
      BY <1>1, <2>1, <3>3, ListGrowsBy
  <2>2. CASE ~(Top.left > 0)
    BY <1>1, <2>2, HeapStays
  <2>3. QED
    BY <2>1, <2>2
<1>3. QED
  BY <1>1, <1>2, MadeStays, AdvanceGoes DEF Fills, Sane, SanitizerInv

LEMMA ReadErrorsShape ==
  ASSUME Sane, MadeTop, ReadErrors
  PROVE  Fills \/ Closes
<1>1. PICK errors \in Read(Top.from, "errors") :
       \/ Advance("own") /\ UNCHANGED <<heap, made>>
       \/ Degrade
       \/ IsArray(errors) /\ ReadsTheList(errors)
  BY DEF ReadErrors, ReadsTheList
<1>2. Top.step = "errors" /\ seen' = seen /\ Sanitizing
  BY DEF ReadErrors
<1>3. Top.from \in DOMAIN heap /\ Top.from \notin NodeIds
  BY <1>2, BuiltIs DEF Sane, SanitizerInv
<1>4. errors \in AppValues
  BY <1>1, <1>3, ReadsAre DEF Sane, SanitizerInv
<1>5. CASE Degrade
  BY <1>2, <1>5, CallCloses DEF Degrade
<1>6. CASE Advance("own") /\ UNCHANGED <<heap, made>>
  BY <1>2, <1>6, HeapStays, MadeStays, AdvanceGoes DEF Fills, Sane, SanitizerInv
<1>7. CASE IsArray(errors) /\ ReadsTheList(errors)
  <2>1. errors \in DOMAIN heap /\ errors \notin NodeIds /\ heap[errors].kind = "array"
    BY <1>4, <1>7, ValuesApart DEF IsArray, IsKind, IsObject
  <2>2. PICK shown, left :
          /\ heap' = Assign(Assign(heap, Top.id, With(Built, "errors", ListId)),
                            ListId, [NewList EXCEPT !.size = heap[errors].size])
          /\ made' = Assign(made, ListId,
                    [from |-> errors, tag |-> "list", level |-> Top.level, lost |-> FALSE])
          /\ tasks' = [tasks EXCEPT
                           ![Len(tasks)].step  = "members",
                           ![Len(tasks)].links = shown,
                           ![Len(tasks)].left  = left]
    BY <1>7, Zenon DEF ReadsTheList
  <2>3. PICK size \in Nat : size = heap[errors].size
    BY <2>1, ObjectsAre DEF Sane, SanitizerInv
  <2>4. /\ ListId = ListOf(Top.id) /\ ListId # Top.id
        /\ heap'[Top.id] = With(Built, "errors", ListId)
        /\ heap'[ListId].keys = <<>> /\ heap'[ListId].kind = "array"
        /\ heap'[ListId] = [NewList EXCEPT !.size = size]
    BY <1>2, <2>2, <2>3, ListStored DEF Sane, SanitizerInv
  <2>5. PICK id \in NodeIds : id = Top.id /\ id \in DOMAIN heap /\ heap[id] = Built
    BY <1>2, TopIs, BuiltIs DEF Sane, SanitizerInv
  <2>6. PICK list \in NodeIds : list = ListId /\ list = ListOf(id)
    BY <2>4, <2>5, ListOfIs
  <2>7. PICK m : m = [from |-> errors, tag |-> "list", level |-> Top.level, lost |-> FALSE]
    OBVIOUS
  <2>8. m.from = errors /\ m.tag = "list" /\ m.level = Top.level /\ m.lost = FALSE
    BY <2>7
  <2>9. /\ \A x : x \in DOMAIN made' <=> (x \in DOMAIN made \/ x = list)
        /\ made'[list] = m
        /\ \A x \in DOMAIN made : x # list => made'[x] = made[x]
    <3>1. made' = Assign(made, list, m)
      BY <2>2, <2>6, <2>7
    <3>2. QED
      BY <3>1, Assigned
  <2>10. ~IsError(errors)
    BY <2>1 DEF IsError, IsKind
  <2>12. NodeGrows(id)
    <3>1. LibraryNode(Built) /\ list \in Values \ {Throws}
      BY <1>2, BuiltIs, ValuesApart DEF Sane, SanitizerInv, Values, Objects, Primitives
    <3>2. PICK node, n, k : node = With(n, k, list) /\ n = Built /\ k = "errors"
      OBVIOUS
    <3>3. /\ DOMAIN node.field = DOMAIN Built.field \cup {"errors"}
          /\ node.kind = Built.kind /\ node.via = Built.via
          /\ Elements(node.keys) = Elements(Built.keys) \cup {"errors"}
      <4>1. k \in Names /\ LibraryNode(n)
        BY <3>1, <3>2, NamesAre
      <4>2. /\ DOMAIN With(n, k, list).field = DOMAIN n.field \cup {k}
            /\ With(n, k, list).kind = n.kind /\ With(n, k, list).via = n.via
            /\ Elements(With(n, k, list).keys) = Elements(n.keys) \cup {k}
        BY <3>1, <4>1, WithKeeps
      <4>3. QED
        BY <3>2, <4>2
    <3>4. heap'[id] = node
      BY <2>4, <2>5, <2>6, <3>2
    <3>5. QED
      BY <2>5, <3>3, <3>4 DEF NodeGrows, LibraryKeys
  <2>13. ListGrowth(list)
    <3>1. heap'[list].via = "none"
      <4>1. PICK new : new = [NewList EXCEPT !.size = size]
        OBVIOUS
      <4>2. new.via = "none"
        BY <4>1 DEF NewList, Node
      <4>3. QED
        BY <2>4, <2>6, <4>1, <4>2
    <3>2. Len(heap'[list].keys) <= MaxAggregate + 1
      <4>1. Len(<<>>) = 0
        OBVIOUS
      <4>2. heap'[list].keys = <<>>
        BY <2>4, <2>6
      <4>3. QED
        BY <4>1, <4>2, IndexesAre
    <3>3. QED
      BY <1>2, <2>4, <2>6, <2>8, <2>9, <2>10, <3>1, <3>2 DEF ListGrowth
  <2>11. MadeGrows
    <3>1. list \in DOMAIN heap' /\ Len(heap'[list].keys) <= MaxAggregate + 1
      <4>1. PICK g, n : heap' = Assign(g, list, n)
        BY <2>2, <2>6
      <4>2. list \in DOMAIN heap'
        BY <4>1, Assigned
      <4>3. QED
        BY <2>13, <4>2 DEF ListGrowth
    <3>2. QED
      BY <2>5, <2>6, <2>8, <2>9, <2>10, <3>1 DEF MadeGrows
  <2>14. HeapGrows
    <3>1. PICK node, new : heap' = Assign(Assign(heap, id, node), list, new)
      BY <2>2, <2>5, <2>6
    <3>2. PICK h : h = Assign(heap, id, node)
      OBVIOUS
    <3>3. /\ \A x : x \in DOMAIN h <=> (x \in DOMAIN heap \/ x = id)
          /\ \A x \in DOMAIN heap : x # id => h[x] = heap[x]
      BY <3>2, Assigned
    <3>4. heap' = Assign(h, list, new)
      BY <3>1, <3>2
    <3>5. /\ \A x : x \in DOMAIN heap' <=> (x \in DOMAIN h \/ x = list)
          /\ \A x \in DOMAIN h : x # list => heap'[x] = h[x]
      BY <3>4, Assigned
    <3>6. ASSUME NEW x \in DOMAIN heap', x # id, x # list
          PROVE  x \in DOMAIN heap /\ heap'[x] = heap[x]
      BY <3>3, <3>5, <3>6
    <3>7. QED
      BY <2>5, <2>6, <2>12, <2>13, <3>6 DEF HeapGrows
  <2>15. CallsAre
    <3>1. PICK t : t = [Top EXCEPT !.step = "members", !.links = shown, !.left = left]
      OBVIOUS
    <3>2. t.id = Top.id /\ t.step = "members" /\ t.from = Top.from
      BY <3>1, TopIs DEF Tasks, Sane, SanitizerInv
    <3>3. ListBegins
      BY <2>5, <2>6, <2>8, <2>9, <2>10 DEF ListBegins
    <3>4. CallGoes(t)
      BY <3>2, <3>3 DEF CallGoes
    <3>5. tasks' = [tasks EXCEPT ![Len(tasks)] = t]
      BY <2>2, <3>1 DEF Top
    <3>6. QED
      BY <3>4, <3>5, GoesOn DEF Sane, SanitizerInv
  <2>16. QED
    BY <1>2, <2>11, <2>14, <2>15 DEF Fills
<1>8. QED
  BY <1>1, <1>5, <1>6, <1>7

LEMMA CopyShape ==
  ASSUME Sane, MadeTop, CopyOwnFields
  PROVE  Fills
<1>1. Top.step = "own" /\ Leave /\ seen' = seen
  BY CopyIs
<1>2. CallsLeft
  <2>1. Touches
    BY CopyOwnFieldsTypes
  <2>2. QED
    BY <1>1, <2>1, LeaveLeaves DEF Sane, SanitizerInv
<1>3. Top.id \in DOMAIN made
  BY <1>1 DEF MadeTop
<1>4. CASE Lose /\ Store(Marked)
  BY <1>1, <1>2, <1>3, <1>4, LoseGrows DEF Fills
<1>5. ASSUME NEW copied \in Seq(Names), NEW reading,
             OneEach(copied), Elements(copied) \subseteq KeysOf(Top.from),
             \A k \in Elements(copied) :
                      /\ ~OmitsOwnField(Top.from, k, reading[k])
                      /\ k \notin DERIVED_ERROR_FIELDS /\ k \notin DOMAIN Built.field
                      /\ reading[k] \in AppValues /\ reading[k] # Throws,
             Store(WithFields(Built, Top.from, copied, reading)),
             made' = made
      PROVE  Fills
  <2>1. LibraryNode(Built) /\ OwnNodes(Built, Top.id.base) /\ Top.from \in DOMAIN heap
    BY <1>1, BuiltIs DEF Sane, SanitizerInv
  <2>2. PICK w : w = WithFields(Built, Top.from, copied, reading)
    OBVIOUS
  <2>3. /\ LibraryNode(w) /\ w.kind = Built.kind
        /\ \A k : k \in DOMAIN w.field <=> (k \in DOMAIN Built.field \/ k \in Elements(copied))
    BY <1>5, <2>1, <2>2, WithFieldsIs DEF Sane, SanitizerInv
  <2>4. w.via = IF "toJSON" \in Elements(copied) THEN "method" ELSE Built.via
    <3>1. DOMAIN Built = NodeFields
      BY <2>1, WellFormedIs DEF LibraryNode
    <3>2. PICK new : new = Elements(copied)
      OBVIOUS
    <3>3. PICK keys, field, form :
            w = [Built EXCEPT !.keys = keys, !.field = field,
                              !.via = IF "toJSON" \in new THEN "method" ELSE @,
                              !.form = form]
      BY <2>2, <3>2 DEF WithFields
    <3>4. QED
      BY <3>1, <3>2, <3>3 DEF NodeFields
  <2>5. \A k \in Elements(w.keys) : k \in Elements(Built.keys) \/ CopiedKey(k)
    BY <1>5, <2>1, <2>3 DEF LibraryNode, CopiedKey
  <2>6. HeapGrows
    BY <1>1, <1>5, <2>2, <2>3, <2>4, <2>5, StoreGrows
  <2>7. QED
    BY <1>1, <1>2, <1>5, <2>6, MadeStays DEF Fills
<1>6. QED
  BY <1>4, <1>5, CopyIs

LEMMA SanitizerShape ==
  ASSUME Sane, MadeTop, SanitizerStep
  PROVE  Opens \/ Closes \/ Fills
BY IdentifyShape, ReadStackShape, ReadCauseShape, ReadErrorsShape, VisitMemberShape,
   MembersDoneShape, CopyShape DEF SanitizerStep

-----------------------------------------------------------------------------
(***************************************************************************)
(* What the walk leaves of the nodes.                                      *)
(***************************************************************************)

\* A step that does not work on a node may serialize it, or drop it with its record.
NodeStays(i) ==
  /\ i \in DOMAIN heap' /\ heap'[i].kind = heap[i].kind /\ heap'[i].via = heap[i].via
  /\ INCOMPLETE_KEY \in DOMAIN heap[i].field => INCOMPLETE_KEY \in DOMAIN heap'[i].field
  /\ \A k \in Elements(heap'[i].keys) : k \in Elements(heap[i].keys) \/ k = "type"
  /\ i.route # <<>> => heap'[i] = heap[i]
NotCapped(i) == i.route # <<>> => LastOf(i) # CAPPED
WalkLeaves ==
  \A i \in DOMAIN made' :
    /\ i \in DOMAIN made /\ made'[i] = made[i]
    /\ i \in DOMAIN heap /\ NotCapped(i) => NodeStays(i)

LEMMA Untouched ==
  ASSUME NEW i, i \in DOMAIN heap', heap'[i] = heap[i]
  PROVE  NodeStays(i)
BY DEF NodeStays

LEMMA ReadPartLeaves ==
  ASSUME Types, ReadPart
  PROVE  WalkLeaves
<1>1. made' = made /\ (heap' = heap \/ \E n : heap' = Assign(heap, CappedId, n))
  BY Zenon DEF ReadPart
<1>2. Walking
  BY DEF Walking, At, ReadPart
<1>3. PICK id \in NodeIds : id = CappedId
  BY <1>2, CappedIdIs
<1>4. id.route = <<CAPPED>>
  BY <1>3 DEF CappedId, Id
<1>5. ~NotCapped(id)
  <2>1. PICK r : r = <<CAPPED>>
    OBVIOUS
  <2>2. Len(r) = 1 /\ r[1] = CAPPED
    BY <2>1
  <2>3. r # <<>>
    BY <2>1
  <2>4. QED
    BY <1>4, <2>1, <2>2, <2>3 DEF NotCapped, LastOf
<1>6. ASSUME NEW i \in DOMAIN heap, NotCapped(i)
      PROVE  NodeStays(i)
  <2>1. CASE heap' = heap
    BY <2>1, Untouched
  <2>2. ASSUME NEW n, heap' = Assign(heap, id, n)
        PROVE  NodeStays(i)
    <3>1. i # id
      BY <1>5, <1>6
    <3>2. i \in DOMAIN heap' /\ heap'[i] = heap[i]
      BY <2>2, <3>1, Assigned
    <3>3. QED
      BY <3>2, Untouched
  <2>3. QED
    BY <1>1, <1>3, <2>1, <2>2
<1>7. QED
  BY <1>1, <1>6 DEF WalkLeaves

LEMMA CatchErrorLeaves ==
  ASSUME Types, CatchError
  PROVE  WalkLeaves
<1>1. Walking /\ StartSanitizing(F.value, Len(stack))
  BY DEF Walking, Unwinding, CatchError, Types, TasksInv
<1>2. PICK n \in Nat : n = Len(stack)
  BY <1>1, WalkingIs
<1>3. /\ \A o \in DOMAIN heap : o \notin NodeIds \/ o.base # n => o \in DOMAIN heap'
      /\ \A i : i \in DOMAIN made' <=> i \in DOMAIN made /\ i.base # n
      /\ \A i \in DOMAIN made' : made'[i] = made[i]
      /\ \A o \in DOMAIN heap' : o \in DOMAIN heap /\ heap'[o] = heap[o]
  BY <1>1, <1>2, StartIs, WalkingIs
<1>4. QED
  BY <1>3, Untouched DEF WalkLeaves

LEMMA SerializedLeaves ==
  ASSUME Types, Serialized
  PROVE  WalkLeaves
<1>1. PICK id \in NodeIds : id = Id(0, <<>>) /\ id.route = <<>>
  BY IdsAre, BeginningIs
<1>2. heap' = [heap EXCEPT ![id] = AsSerialized(@)] /\ made' = made
  BY <1>1, Zenon DEF Serialized
<1>3. ASSUME NEW i \in DOMAIN heap, i # id
      PROVE  NodeStays(i)
  BY <1>2, <1>3, Untouched
<1>4. ASSUME id \in DOMAIN heap
      PROVE  NodeStays(id)
  <2>1. LibraryNode(heap[id]) /\ OwnNodes(heap[id], id.base)
    BY <1>4 DEF Types, HeapInv
  <2>2. PICK w : w = AsSerialized(heap[id])
    OBVIOUS
  <2>3. heap'[id] = w /\ id \in DOMAIN heap'
    BY <1>2, <1>4, <2>2
  <2>4. /\ w.kind = heap[id].kind /\ w.via = heap[id].via
        /\ Elements(w.keys) = {"type"} \cup (Elements(heap[id].keys) \ {"name", "type"})
        /\ \A k \in DOMAIN heap[id].field : k # "name" => k \in DOMAIN w.field
    BY <2>1, <2>2, AsSerializedIs
  <2>5. INCOMPLETE_KEY # "name"
    BY DEF INCOMPLETE_KEY
  <2>6. QED
    BY <1>1, <2>3, <2>4, <2>5 DEF NodeStays
<1>5. QED
  BY <1>2, <1>3, <1>4 DEF WalkLeaves

LEMMA WalkLeavesNodes ==
  ASSUME Types, [Next]_vars, ~Sanitize
  PROVE  WalkLeaves
<1>1. CASE Walk /\ ~ReadPart /\ ~CatchError
  <2>1. UNCHANGED <<heap, made>>
    BY <1>1, Zenon DEF Walk, sanitizerVars, EnterPrimitive, EnterTooDeep, EnterOverBudget, Enter,
       InspectBinary, InspectRefused, InspectBuffer, FollowToJson, Followed, InspectFunction,
       Open, Element, Field, FieldsDone, Link, Linked, PartsDone, CatchPart, WalkDegraded, Unwind
  <2>2. QED
    BY <2>1, Untouched DEF WalkLeaves
<1>2. CASE UNCHANGED vars
  <2>1. UNCHANGED <<heap, made>>
    BY <1>2 DEF vars, sanitizerVars
  <2>2. QED
    BY <2>1, Untouched DEF WalkLeaves
<1>3. QED
  BY <1>1, <1>2, ReadPartLeaves, CatchErrorLeaves, SerializedLeaves DEF Next

LEMMA StepIsSane ==
  ASSUME Types, Sanitize
  PROVE  Sane /\ SanitizerStep /\ Touches
<1>1. Sane
  BY DEF Sane, SanitizerInv, Types, ScalarsInv, Sanitize, SanitizerStep,
         Identify, ReadStack, ReadCause, ReadErrors, VisitMember, MembersDone, CopyOwnFields
<1>2. QED
  BY <1>1, SanitizeTypes DEF Sanitize

-----------------------------------------------------------------------------
(***************************************************************************)
(* What is known of each node made.                                        *)
(***************************************************************************)

\* A call past its first step has made its node; one past its list, its list.
CallOK(t, m) ==
  /\ t.step # "identify" => t.id \in DOMAIN m /\ m[t.id].from = t.from /\ m[t.id].tag = "error"
  /\ t.step = "members" => ListOf(t.id) \in DOMAIN m /\ m[ListOf(t.id)].tag = "list"
  /\ NotCapped(t.id)
CallsInv == \A i \in DOMAIN tasks : CallOK(tasks[i], made)

\* Its level and its list are within the budgets, and what it lost it says.
NodeOK(i, m, n) ==
  /\ m.level <= MaxCauseDepth
  /\ NotCapped(i)
  /\ m.tag = "list" => i.route # <<>> /\ Len(n.keys) <= MaxAggregate + 1
  /\ m.lost = TRUE => m.tag = "failed" \/ INCOMPLETE_KEY \in DOMAIN n.field
NodesInv == \A i \in DOMAIN made : i \in DOMAIN heap /\ NodeOK(i, made[i], heap[i])

\* The node of an error is an object, with no toJSON but the error's own.
FormOf(i) ==
  /\ heap[i].kind = "array" => ~IsError(made[i].from)
  /\ heap[i].via = "none" \/ ~IsError(made[i].from) \/ "toJSON" \in KeysOf(made[i].from)
FormsInv == \A i \in DOMAIN made : FormOf(i)

MadeAround ==
  \A j : j \notin {Top.id, ListOf(Top.id)} /\ j \in DOMAIN made =>
    j \in DOMAIN made' /\ made'[j] = made[j]

LEMMA ShapesLeaveAround ==
  /\ \A tag : Remade(tag) => MadeAround
  /\ MadeGrows => MadeAround
BY DEF Remade, MadeGrows, MadeAround

LEMMA TopCall ==
  ASSUME TasksInv, Sanitizing, CallsInv
  PROVE  CallOK(Top, made) /\ MadeTop /\ Top.id # ListOf(Top.id) /\ Top.id \in NodeIds
<1>1. PICK n \in Nat \ {0} : n = Len(tasks) /\ DOMAIN tasks = 1..n
  BY TopIs
<1>2. CallOK(Top, made)
  BY <1>1 DEF CallsInv, Top
<1>3. PICK id \in NodeIds : id = Top.id
  BY TopIs
<1>4. PICK r \in Nat : r = Len(id.route)
  BY IdIs
<1>5. Len(ListOf(id).route) = r + 1
  BY <1>4, ListOfIs
<1>6. ListOf(id) # id
  BY <1>4, <1>5
<1>7. QED
  BY <1>2, <1>3, <1>6 DEF CallOK, MadeTop

LEMMA OuterIds ==
  ASSUME TasksInv, Sanitizing, NEW i \in DOMAIN tasks, i # Len(tasks)
  PROVE  tasks[i].id \notin {Top.id, ListOf(Top.id)}
<1>1. PICK t \in Tasks : t = tasks[i] /\ Below(t, Top)
  BY OuterListsAreKept
<1>2. PICK r \in Nat : r = Len(t.id.route)
  BY <1>1, IdIs DEF Tasks
<1>3. PICK q \in Nat : q = Len(Top.id.route) /\ Len(ListOf(Top.id).route) = q + 1
  BY TopIs, IdIs, ListOfIs
<1>4. r < q
  <2>1. PICK k : k = IF t.step = "members" THEN 2 ELSE 1
    OBVIOUS
  <2>2. k \in {1, 2}
    BY <2>1
  <2>3. r + k <= q
    BY <1>1, <1>2, <1>3, <2>1 DEF Below
  <2>4. QED
    BY <2>2, <2>3
<1>5. QED
  BY <1>1, <1>2, <1>3, <1>4

LEMMA OuterCallStays ==
  ASSUME TasksInv, Sanitizing, CallsInv, MadeAround, NEW i \in DOMAIN tasks, i # Len(tasks)
  PROVE  CallOK(tasks[i], made')
<1>1. PICK t : t = tasks[i] /\ CallOK(t, made)
  BY DEF CallsInv
<1>2. t.id \notin {Top.id, ListOf(Top.id)}
  BY <1>1, OuterIds
<1>3. t.step = "members" => ListOf(t.id) \notin {Top.id, ListOf(Top.id)}
  BY <1>1, OuterListsAreKept
<1>4. QED
  BY <1>1, <1>2, <1>3 DEF CallOK, MadeAround

LEMMA CallsSanitize ==
  ASSUME Types, CallsInv, Sanitize
  PROVE  CallsInv'
<1>1. Sane /\ SanitizerStep /\ TasksInv /\ Sanitizing
  BY StepIsSane DEF Types, Sane
<1>2. CallOK(Top, made) /\ MadeTop /\ Top.id # ListOf(Top.id)
  BY <1>1, TopCall
<1>3. MadeAround
  BY <1>1, <1>2, SanitizerShape, ShapesLeaveAround DEF Opens, Closes, Fills
<1>4. ASSUME CallsLeft
      PROVE  CallsInv'
  BY <1>1, <1>3, <1>4, OuterCallStays DEF CallsInv, CallsLeft
<1>5. ASSUME NEW t, CallBegins(t)
      PROVE  CallOK(t, made')
  BY <1>5 DEF CallOK, CallBegins, NotCapped
<1>6. ASSUME Opens, NEW t, CallGoes(t)
      PROVE  CallOK(t, made')
  <2>1. /\ Top.step = "identify" /\ Top.id \in DOMAIN made'
        /\ made'[Top.id].from = Top.from /\ made'[Top.id].tag = "error"
    BY <1>6 DEF Opens, Remade
  <2>2. /\ t.from = Top.from /\ t.id = Top.id
        /\ t.step = "members" => ListBegins
    BY <1>6, <2>1 DEF CallGoes
  <2>3. QED
    BY <1>2, <2>1, <2>2 DEF CallOK, ListBegins
<1>7. ASSUME Fills, NEW t, CallGoes(t)
      PROVE  CallOK(t, made')
  <2>1. MadeGrows /\ Top.step # "identify"
    BY <1>7 DEF Fills
  <2>2. Top.id \in DOMAIN made /\ made[Top.id].from = Top.from /\ made[Top.id].tag = "error"
    BY <1>2, <2>1 DEF CallOK
  <2>3. Top.id \in DOMAIN made' /\ made'[Top.id].from = Top.from /\ made'[Top.id].tag = "error"
    <3>1. PICK m : m = made[Top.id] /\ m.from = Top.from /\ m.tag = "error"
      BY <2>2
    <3>2. PICK w : w = [m EXCEPT !.lost = TRUE]
      OBVIOUS
    <3>3. w.from = m.from /\ w.tag = m.tag
      <4>1. m \in [from : AppValues, tag : Tags, level : Nat, lost : BOOLEAN]
        BY <2>2, <3>1 DEF Types, MadeInv
      <4>2. QED
        BY <3>2, <4>1
    <3>4. made'[Top.id] = m \/ made'[Top.id] = w
      BY <1>2, <2>1, <2>2, <3>1, <3>2 DEF MadeGrows
    <3>5. QED
      BY <2>1, <2>2, <3>1, <3>3, <3>4 DEF MadeGrows
  <2>4. ASSUME Top.step = "members"
        PROVE  ListOf(Top.id) \in DOMAIN made' /\ made'[ListOf(Top.id)].tag = "list"
    <3>1. ListOf(Top.id) \in DOMAIN made /\ made[ListOf(Top.id)].tag = "list"
      BY <1>2, <2>4 DEF CallOK
    <3>2. QED
      BY <1>2, <2>1, <3>1 DEF MadeGrows
  <2>5. /\ t.from = Top.from /\ t.id = Top.id
        /\ t.step = "members" => Top.step = "members" \/ ListBegins
    BY <1>7 DEF CallGoes
  <2>6. QED
    BY <1>2, <2>3, <2>4, <2>5 DEF CallOK, ListBegins
<1>8. ASSUME CallsAre, Opens \/ Fills
      PROVE  CallsInv'
  <2> SUFFICES ASSUME NEW i \in DOMAIN tasks' PROVE CallOK(tasks'[i], made')
    BY DEF CallsInv
  <2>1. CallShape(i)
    BY <1>8 DEF CallsAre
  <2>2. QED
    BY <1>1, <1>3, <1>5, <1>6, <1>7, <1>8, <2>1, OuterCallStays DEF CallShape
<1>9. QED
  BY <1>1, <1>2, <1>4, <1>8, SanitizerShape DEF Opens, Closes, Fills

\* Only a caught error starts a call while the record is walked.
LEMMA CallsOfWalk ==
  ASSUME Types, [Next]_vars, ~Sanitize, ~CatchError
  PROVE  UNCHANGED vars \/ (tasks' = <<>> /\ tasks = <<>>)
<1>1. CASE Walk
  <2>1. tasks' = tasks
    BY <1>1, Zenon DEF Walk, sanitizerVars, EnterPrimitive, EnterTooDeep, EnterOverBudget, Enter,
       InspectBinary, InspectRefused, InspectBuffer, FollowToJson, Followed, InspectFunction,
       Open, Element, Field, FieldsDone, ReadPart, Link, Linked, PartsDone, CatchPart,
       WalkDegraded, Unwind
  <2>2. ~Sanitizing
    BY <1>1, WalkShape DEF Walking, WalkDegraded, At
  <2>3. QED
    BY <2>1, <2>2 DEF Sanitizing
<1>2. CASE Serialized
  BY <1>2 DEF Serialized, Sanitizing
<1>3. QED
  BY <1>1, <1>2 DEF Next

LEMMA CallsNext ==
  ASSUME Types, CallsInv, [Next]_vars
  PROVE  CallsInv'
<1>1. CASE Sanitize
  BY <1>1, CallsSanitize
<1>2. CASE CatchError
  <2>1. Walking /\ StartSanitizing(F.value, Len(stack))
    BY <1>2 DEF Walking, Unwinding, CatchError, Types, TasksInv
  <2>2. PICK n \in Nat : n = Len(stack)
    BY <2>1, WalkingIs
  <2>3. PICK t : t = Task(F.value, Id(n, <<>>), 0)
    OBVIOUS
  <2>4. tasks' = <<t>>
    BY <2>1, <2>2, <2>3, StartIs, WalkingIs
  <2>5. t.step = "identify" /\ t.id.route = <<>>
    BY <2>3 DEF Task, Id
  <2>6. CallOK(t, made')
    BY <2>5 DEF CallOK, NotCapped
  <2>7. DOMAIN tasks' = {1} /\ tasks'[1] = t
    BY <2>4
  <2>8. QED
    BY <2>6, <2>7 DEF CallsInv
<1>3. CASE ~Sanitize /\ ~CatchError
  <2>1. CASE UNCHANGED vars
    <3>1. tasks' = tasks /\ made' = made
      BY <2>1 DEF vars, sanitizerVars
    <3>2. QED
      BY <3>1 DEF CallsInv
  <2>2. CASE tasks' = <<>>
    BY <2>2 DEF CallsInv
  <2>3. QED
    BY <1>3, <2>1, <2>2, CallsOfWalk
<1>4. QED
  BY <1>1, <1>2, <1>3

\* A step's own outcome, told of the heap before it.
FormNext(i) ==
  /\ heap'[i].kind = "array" => ~IsError(made'[i].from)
  /\ heap'[i].via = "none" \/ ~IsError(made'[i].from) \/ "toJSON" \in KeysOf(made'[i].from)
NodeNext(i) == i \in DOMAIN heap' /\ NodeOK(i, made'[i], heap'[i]) /\ FormNext(i)

LEMMA ListIsNotCapped ==
  ASSUME NEW id \in NodeIds
  PROVE  ListOf(id).route # <<>> /\ NotCapped(ListOf(id))
<1>1. PICK r \in Nat, s \in Seq(Names) : r = Len(s) /\ s = id.route
  BY IdIs
<1>2. PICK l : l = Append(s, "errors")
  OBVIOUS
<1>3. Len(l) = r + 1 /\ l[r + 1] = "errors"
  BY <1>1, <1>2, NamesAre, AppendProperties
<1>4. ListOf(id).route = l
  BY <1>1, <1>2, ListOfIs
<1>5. l # <<>>
  <2>1. Len(<<>>) = 0 /\ r + 1 # 0
    OBVIOUS
  <2>2. QED
    BY <1>3, <2>1
<1>6. "errors" # CAPPED
  BY DEF CAPPED
<1>7. QED
  BY <1>3, <1>4, <1>5, <1>6 DEF NotCapped, LastOf

LEMMA TwoTextsAre ==
  TwoTexts.kind = "object" /\ TwoTexts.via = "none"
BY DEF TwoTexts, Node

LEMMA RemadeNodes ==
  ASSUME Sane, Touches, CallsInv, NodesInv, FormsInv,
         NEW tag \in {"error", "unknown", "failed"}, Remade(tag), NEW i \in DOMAIN made'
  PROVE  NodeNext(i)
<1>1. Top.level <= MaxCauseDepth /\ CallOK(Top, made)
  BY TopIs, TopCall DEF TaskOK, Sane, SanitizerInv
<1>2. CASE i = Top.id
  <2>1. /\ i \in DOMAIN heap' /\ heap'[i] = TwoTexts
        /\ made'[i].tag = tag /\ made'[i].level = Top.level /\ made'[i].lost = FALSE
    BY <1>2 DEF Remade
  <2>2. NotCapped(i)
    BY <1>1, <1>2 DEF CallOK
  <2>3. NodeOK(i, made'[i], heap'[i])
    BY <1>1, <2>1, <2>2 DEF NodeOK
  <2>4. FormNext(i)
    BY <2>1, TwoTextsAre DEF FormNext
  <2>5. QED
    BY <2>1, <2>3, <2>4 DEF NodeNext
<1>3. CASE i # Top.id
  <2>1. i \in DOMAIN made /\ made'[i] = made[i]
    BY <1>3 DEF Remade
  <2>2. i \in DOMAIN heap' /\ heap'[i] = heap[i]
    BY <1>3, <2>1 DEF Remade, Touches, NodesInv
  <2>3. QED
    BY <2>1, <2>2 DEF NodesInv, FormsInv, FormOf, FormNext, NodeNext
<1>4. QED
  BY <1>2, <1>3

LEMMA FilledNodes ==
  ASSUME Sane, Touches, CallsInv, NodesInv, FormsInv, Fills, NEW i \in DOMAIN made'
  PROVE  NodeNext(i)
<1>1. /\ Top.level <= MaxCauseDepth /\ CallOK(Top, made) /\ Top.id # ListOf(Top.id)
      /\ Top.id \in NodeIds
  BY TopIs, TopCall DEF TaskOK, Sane, SanitizerInv
<1>2. /\ Top.id \in DOMAIN made /\ made[Top.id].from = Top.from /\ made[Top.id].tag = "error"
  BY <1>1 DEF Fills, CallOK
<1>3. HeapGrows /\ MadeGrows
  BY DEF Fills
<1>4. CASE i \in DOMAIN made /\ made'[i] = made[i]
  <2>1. i \in DOMAIN heap /\ i \in DOMAIN heap' /\ NodeOK(i, made[i], heap[i]) /\ FormOf(i)
    BY <1>4 DEF Touches, NodesInv, FormsInv
  <2>2. CASE heap'[i] = heap[i]
    BY <1>4, <2>1, <2>2 DEF FormOf, FormNext, NodeNext
  <2>3. CASE i = Top.id /\ NodeGrows(i)
    <3>1. NodeOK(i, made'[i], heap'[i])
      BY <1>2, <1>4, <2>1, <2>3 DEF NodeOK, NodeGrows
    <3>2. FormNext(i)
      BY <1>2, <1>4, <2>1, <2>3 DEF FormOf, FormNext, NodeGrows
    <3>3. QED
      BY <2>1, <3>1, <3>2 DEF NodeNext
  <2>4. CASE i = ListOf(Top.id) /\ ListGrowth(i)
    <3>1. NodeOK(i, made'[i], heap'[i])
      BY <1>4, <2>1, <2>4 DEF NodeOK, ListGrowth, Grown
    <3>2. FormNext(i)
      BY <1>4, <2>1, <2>4 DEF FormOf, FormNext, ListGrowth, Grown
    <3>3. QED
      BY <2>1, <3>1, <3>2 DEF NodeNext
  <2>5. QED
    BY <1>3, <2>1, <2>2, <2>3, <2>4 DEF HeapGrows
<1>5. CASE /\ i = Top.id /\ i \in DOMAIN made /\ made'[i] = [made[i] EXCEPT !.lost = TRUE]
           /\ INCOMPLETE_KEY \in DOMAIN heap'[i].field
  <2>1. i \in DOMAIN heap /\ i \in DOMAIN heap' /\ NodeOK(i, made[i], heap[i]) /\ FormOf(i)
    BY <1>5 DEF Touches, NodesInv, FormsInv
  <2>2. made'[i].from = made[i].from /\ made'[i].level = made[i].level /\ made'[i].tag = made[i].tag
    BY <1>5 DEF Sane, SanitizerInv, MadeInv
  <2>3. heap'[i] = heap[i] \/ NodeGrows(i)
    BY <1>1, <1>3, <1>5, <2>1 DEF HeapGrows
  <2>4. NodeOK(i, made'[i], heap'[i])
    BY <1>2, <1>5, <2>1, <2>2 DEF NodeOK
  <2>5. FormNext(i)
    BY <1>2, <1>5, <2>1, <2>2, <2>3 DEF FormOf, FormNext, NodeGrows
  <2>6. QED
    BY <2>1, <2>4, <2>5 DEF NodeNext
<1>6. CASE /\ i = ListOf(Top.id) /\ made'[i].tag = "list" /\ made'[i].lost = FALSE
           /\ made'[i].level = Top.level /\ ~IsError(made'[i].from)
           /\ i \in DOMAIN heap' /\ Len(heap'[i].keys) <= MaxAggregate + 1
  <2>1. i.route # <<>> /\ NotCapped(i)
    BY <1>1, <1>6, ListIsNotCapped
  <2>2. NodeOK(i, made'[i], heap'[i])
    BY <1>1, <1>6, <2>1 DEF NodeOK
  <2>3. QED
    BY <1>6, <2>2 DEF FormNext, NodeNext
<1>7. QED
  BY <1>3, <1>4, <1>5, <1>6 DEF MadeGrows

LEMMA WalkedNodes ==
  ASSUME NodesInv, FormsInv, WalkLeaves, NEW i \in DOMAIN made'
  PROVE  NodeNext(i)
<1>1. i \in DOMAIN made /\ made'[i] = made[i]
  BY DEF WalkLeaves
<1>2. i \in DOMAIN heap /\ NodeOK(i, made[i], heap[i]) /\ FormOf(i)
  BY <1>1 DEF NodesInv, FormsInv
<1>3. NodeStays(i)
  BY <1>2 DEF WalkLeaves, NodeOK
<1>4. NodeOK(i, made'[i], heap'[i])
  BY <1>1, <1>2, <1>3 DEF NodeOK, NodeStays
<1>5. FormNext(i)
  BY <1>1, <1>2, <1>3 DEF FormOf, FormNext, NodeStays
<1>6. QED
  BY <1>3, <1>4, <1>5 DEF NodeNext, NodeStays

LEMMA NodesNext ==
  ASSUME Types, CallsInv, NodesInv, FormsInv, [Next]_vars
  PROVE  NodesInv' /\ FormsInv'
<1>1. ASSUME NEW i \in DOMAIN made'
      PROVE  NodeNext(i)
  <2>1. CASE Sanitize
    <3>1. Sane /\ SanitizerStep /\ Touches /\ MadeTop
      BY <2>1, StepIsSane, TopCall DEF Sane, SanitizerInv
    <3>2. CASE Opens
      BY <3>1, <3>2, RemadeNodes DEF Opens
    <3>3. CASE Closes
      BY <3>1, <3>3, RemadeNodes DEF Closes
    <3>4. CASE Fills
      BY <3>1, <3>4, FilledNodes
    <3>5. QED
      BY <3>1, <3>2, <3>3, <3>4, SanitizerShape
  <2>2. CASE ~Sanitize
    BY <2>2, WalkLeavesNodes, WalkedNodes
  <2>3. QED
    BY <2>1, <2>2
<1>2. NodesInv'
  BY <1>1 DEF NodeNext, NodesInv
<1>3. ASSUME NEW i \in DOMAIN made'
      PROVE  FormOf(i)'
  <2>1. FormNext(i)
    BY <1>1 DEF NodeNext
  <2>2. PICK v : v = made'[i].from /\ v \notin NodeIds
    <3>1. MadeInv'
      BY NextTypes DEF Types
    <3>2. made'[i].from \in AppValues
      BY <3>1 DEF MadeInv
    <3>3. QED
      BY <3>2, ValuesApart
  <2>3. v \in DOMAIN heap' <=> v \in DOMAIN heap
    BY <2>2, StepKeepsNodes DEF GraphKept
  <2>4. v \in DOMAIN heap => heap'[v] = heap[v]
    BY <2>2, StepKeepsNodes DEF GraphKept
  <2>5. CASE ~IsError(v)
    BY <2>1, <2>2, <2>3, <2>4, <2>5 DEF FormOf, IsError, IsKind, IsObject
  <2>6. CASE IsError(v)
    <3>1. v \in DOMAIN heap
      BY <2>6 DEF IsError, IsKind, IsObject
    <3>2. heap'[v] = heap[v]
      BY <2>4, <3>1
    <3>3. heap'[i].kind # "array" /\ (heap'[i].via = "none" \/ "toJSON" \in KeysOf(v))
      BY <2>1, <2>2, <2>6 DEF FormNext
    <3>4. QED
      BY <2>2, <3>2, <3>3 DEF FormOf, KeysOf
  <2>7. QED
    BY <2>5, <2>6
<1>4. QED
  BY <1>2, <1>3 DEF FormsInv

LEMMA NodesInit == Init => CallsInv /\ NodesInv /\ FormsInv
<1> SUFFICES ASSUME Init PROVE CallsInv /\ NodesInv /\ FormsInv
  OBVIOUS
<1>1. DOMAIN made = {}
  BY DEF Init
<1>2. CASE tasks = <<>>
  BY <1>1, <1>2 DEF CallsInv, NodesInv, FormsInv
<1>3. CASE tasks = <<Task(Thrown, Id(0, <<>>), 0)>>
  <2>1. PICK t : t = Task(Thrown, Id(0, <<>>), 0)
    OBVIOUS
  <2>2. t.step = "identify" /\ t.id.route = <<>>
    BY <2>1 DEF Task, Id
  <2>3. CallOK(t, made)
    BY <2>2 DEF CallOK, NotCapped
  <2>4. DOMAIN tasks = {1} /\ tasks[1] = t
    BY <1>3, <2>1
  <2>5. QED
    BY <1>1, <2>3, <2>4 DEF CallsInv, NodesInv, FormsInv
<1>4. QED
  BY <1>2, <1>3, Zenon DEF Init

\* Whatever the links answer, no chain of a node is deeper than the budget and no list of
\* one is longer than the cap and its marker (toSanitizedError, readAggregatedErrors).
THEOREM NodesAreBounded == Spec => []BudgetsBoundTheNode
<1>1. Types /\ CallsInv /\ NodesInv /\ FormsInv /\ [Next]_vars
        => (Types /\ CallsInv /\ NodesInv /\ FormsInv)'
  BY NextTypes, CallsNext, NodesNext
<1>2. NodesInv => BudgetsBoundTheNode
  BY DEF NodesInv, NodeOK, BudgetsBoundTheNode
<1>3. QED
  BY <1>1, <1>2, InitTypes, NodesInit, PTL DEF Spec

\* A node that could not read a part of its error, or not the error at all, says so by its
\* mark or by being the fallback: none that lacks a part passes for a complete one
\* (markIncomplete, and the outer catch of toSanitizedError).
THEOREM LossesAreVisible == Spec => []LossIsVisible
<1>1. Types /\ CallsInv /\ NodesInv /\ FormsInv /\ [Next]_vars
        => (Types /\ CallsInv /\ NodesInv /\ FormsInv)'
  BY NextTypes, CallsNext, NodesNext
<1>2. Types /\ NodesInv => LossIsVisible
  <2> SUFFICES ASSUME Types, NodesInv, NEW i \in DOMAIN made, made[i].lost
               PROVE  made[i].tag = "failed" \/ INCOMPLETE_KEY \in DOMAIN heap[i].field
    BY DEF LossIsVisible
  <2>1. made[i].lost \in BOOLEAN
    BY DEF Types, MadeInv
  <2>2. made[i].lost = TRUE
    BY <2>1
  <2>3. QED
    BY <2>2 DEF NodesInv, NodeOK
<1>3. QED
  BY <1>1, <1>2, InitTypes, NodesInit, PTL DEF Spec

-----------------------------------------------------------------------------
(***************************************************************************)
(* Each error is expanded once.                                            *)
(***************************************************************************)

\* The errors this sanitization has made nodes of are among those seen, and the one the
\* innermost call is about to look at is not.
SeenInv ==
  /\ Sanitizing => \A i \in DOMAIN made :
       i.base = Len(stack) /\ made[i].tag = "error" => made[i].from \in seen
  /\ \A i \in DOMAIN tasks :
       tasks[i].step = "identify" /\ IsRecord(tasks[i].from) => tasks[i].from \notin seen
OnceInv == EachErrorIsExpandedOnce /\ SeenInv

ErrorKept(i) == i \in DOMAIN made /\ made[i].tag = "error" /\ made[i].from = made'[i].from

LEMMA RecordStays ==
  ASSUME Types, [Next]_vars, NEW v \in AppValues
  PROVE  /\ IsRecord(v)' <=> IsRecord(v)
         /\ IsError(v)' <=> IsError(v)
<1>1. v \notin NodeIds
  BY ValuesApart
<1>2. v \in DOMAIN heap' <=> v \in DOMAIN heap
  BY <1>1, StepKeepsNodes DEF GraphKept
<1>3. v \in DOMAIN heap => heap'[v] = heap[v]
  BY <1>1, StepKeepsNodes DEF GraphKept
<1>4. QED
  BY <1>2, <1>3 DEF IsRecord, IsError, IsKind, IsObject

\* What the nodes made of errors were before a step.
LEMMA ErrorsAreKept ==
  ASSUME Sane, CallsInv, NEW i \in DOMAIN made', made'[i].tag = "error",
         Opens \/ Closes \/ Fills
  PROVE  ErrorKept(i) \/ (Opens /\ i = Top.id /\ made'[i].from = Top.from)
<1>1. CASE Opens
  BY <1>1 DEF Opens, Remade, ErrorKept
<1>2. CASE Closes
  BY <1>2 DEF Closes, Remade, ErrorKept
<1>3. CASE Fills
  <2>1. CASE i \in DOMAIN made /\ made'[i] = made[i]
    BY <2>1 DEF ErrorKept
  <2>2. CASE i \in DOMAIN made /\ made'[i] = [made[i] EXCEPT !.lost = TRUE]
    <3>1. made'[i].from = made[i].from /\ made'[i].tag = made[i].tag
      BY <2>2 DEF Sane, SanitizerInv, MadeInv
    <3>2. QED
      BY <2>2, <3>1 DEF ErrorKept
  <2>3. QED
    BY <1>3, <2>1, <2>2 DEF Fills, MadeGrows
<1>4. QED
  BY <1>1, <1>2, <1>3

LEMMA OnceSanitize ==
  ASSUME Types, CallsInv, OnceInv, Sanitize
  PROVE  OnceInv'
<1>1. Sane /\ SanitizerStep /\ TasksInv /\ Sanitizing
  BY StepIsSane DEF Types, Sane
<1>2. MadeTop /\ Top.id.base = Len(stack)
  BY <1>1, TopCall, TopIs DEF TaskOK
<1>3. Opens \/ Closes \/ Fills
  BY <1>1, <1>2, SanitizerShape
<1>4. stack' = stack /\ seen \subseteq seen'
  BY <1>3 DEF Sanitize, walkVars, Opens, Closes, Fills
<1>5. \A i \in DOMAIN made : i.base = Len(stack) /\ made[i].tag = "error" => made[i].from \in seen
  BY <1>1 DEF OnceInv, SeenInv
<1>6. Opens => Top.from \in seen' /\ Top.from \notin seen
  <2> SUFFICES ASSUME Opens PROVE Top.from \in seen' /\ Top.from \notin seen
    OBVIOUS
  <2>1. PICK n \in Nat \ {0} : n = Len(tasks) /\ DOMAIN tasks = 1..n
    BY <1>1, TopIs
  <2>2. n \in DOMAIN tasks /\ Top = tasks[n]
    BY <2>1 DEF Top
  <2>3. QED
    BY <2>2 DEF Opens, OnceInv, SeenInv
<1>7. EachErrorIsExpandedOnce'
  <2> SUFFICES ASSUME NEW i \in DOMAIN made', NEW j \in DOMAIN made',
                      made'[i].tag = "error", made'[j].tag = "error",
                      i.base = j.base, made'[i].from = made'[j].from
               PROVE  i = j
    BY DEF EachErrorIsExpandedOnce
  <2>1. ErrorKept(i) \/ (Opens /\ i = Top.id /\ made'[i].from = Top.from)
    BY <1>1, <1>3, ErrorsAreKept
  <2>2. ErrorKept(j) \/ (Opens /\ j = Top.id /\ made'[j].from = Top.from)
    BY <1>1, <1>3, ErrorsAreKept
  <2>3. CASE ErrorKept(i) /\ ErrorKept(j)
    BY <2>3 DEF ErrorKept, OnceInv, EachErrorIsExpandedOnce
  <2>4. CASE ErrorKept(i) /\ Opens /\ j = Top.id /\ made'[j].from = Top.from
    BY <1>2, <1>5, <1>6, <2>4 DEF ErrorKept
  <2>5. CASE ErrorKept(j) /\ Opens /\ i = Top.id /\ made'[i].from = Top.from
    BY <1>2, <1>5, <1>6, <2>5 DEF ErrorKept
  <2>6. QED
    BY <2>1, <2>2, <2>3, <2>4, <2>5
<1>8. ASSUME NEW i \in DOMAIN made', i.base = Len(stack), made'[i].tag = "error"
      PROVE  made'[i].from \in seen'
  BY <1>1, <1>3, <1>4, <1>5, <1>6, <1>8, ErrorsAreKept DEF ErrorKept
<1>9. ASSUME NEW i \in DOMAIN tasks', tasks'[i].step = "identify", IsRecord(tasks[i].from)'
      PROVE  tasks'[i].from \notin seen'
  <2>1. PICK t \in Tasks : t = tasks'[i]
    BY NextTypes, ElementOfSeq DEF Types, TasksInv, Next
  <2>2. IsRecord(t.from)
    BY <1>9, <2>1, RecordStays DEF Tasks, Next
  <2>3. ASSUME i \in DOMAIN tasks, i # Len(tasks), tasks'[i] = tasks[i]
        PROVE  FALSE
    BY <1>1, <1>9, <2>3, OuterListsAreKept
  <2>4. CASE Opens
    <3>1. CallShape(i) /\ i \in DOMAIN tasks
      BY <2>4 DEF Opens, CallsAre
    <3>2. i # Len(tasks) + 1
      BY <1>1, <3>1, TopIs
    <3>3. QED
      BY <1>9, <2>3, <3>1, <3>2 DEF CallShape, CallGoes
  <2>5. CASE Closes
    BY <2>3, <2>5 DEF Closes, CallsLeft
  <2>6. CASE Fills
    <3>1. CASE CallsLeft
      BY <2>3, <3>1 DEF CallsLeft
    <3>2. CASE CallsAre
      <4>1. CallShape(i)
        BY <3>2 DEF CallsAre
      <4>2. CallBegins(t)
        BY <1>9, <2>1, <2>3, <4>1 DEF CallShape, CallGoes
      <4>3. seen' = seen
        BY <2>6 DEF Fills
      <4>4. QED
        BY <2>1, <2>2, <4>2, <4>3 DEF CallBegins, WasSeen
    <3>3. QED
      BY <2>6, <3>1, <3>2 DEF Fills
  <2>7. QED
    BY <1>3, <2>4, <2>5, <2>6
<1>10. SeenInv'
  BY <1>4, <1>8, <1>9 DEF SeenInv
<1>11. QED
  BY <1>7, <1>10 DEF OnceInv

LEMMA OnceNext ==
  ASSUME Types, CallsInv, OnceInv, [Next]_vars
  PROVE  OnceInv'
<1>1. CASE Sanitize
  BY <1>1, OnceSanitize
<1>2. CASE ~Sanitize
  <2>1. WalkLeaves
    BY <1>2, WalkLeavesNodes
  <2>2. EachErrorIsExpandedOnce'
    BY <2>1 DEF WalkLeaves, OnceInv, EachErrorIsExpandedOnce
  <2>3. CASE CatchError
    <3>1. Walking /\ StartSanitizing(F.value, Len(stack))
      BY <2>3 DEF Walking, Unwinding, CatchError, Types, TasksInv
    <3>2. PICK n \in Nat : n = Len(stack)
      BY <3>1, WalkingIs
    <3>3. PICK f : Turns(f)
      BY <2>3, Zenon DEF CatchError
    <3>4. Len(stack') = n
      BY <3>1, <3>2, <3>3, TurnsShape DEF Walking, Types
    <3>5. /\ seen' = {}
          /\ \A i : i \in DOMAIN made' <=> i \in DOMAIN made /\ i.base # n
      BY <3>1, <3>2, StartIs, WalkingIs
    <3>6. QED
      BY <2>2, <3>4, <3>5 DEF OnceInv, SeenInv
  <2>4. CASE UNCHANGED vars
    <3>1. UNCHANGED <<heap, tasks, seen, made, stack>>
      BY <2>4 DEF vars, sanitizerVars, walkVars
    <3>2. QED
      BY <3>1 DEF OnceInv, SeenInv, EachErrorIsExpandedOnce, Sanitizing, IsRecord, IsObject
  <2>5. CASE tasks' = <<>>
    <3>1. DOMAIN tasks' = {} /\ ~Sanitizing'
      BY <2>5 DEF Sanitizing
    <3>2. QED
      BY <2>2, <3>1 DEF OnceInv, SeenInv
  <2>6. QED
    BY <1>2, <2>3, <2>4, <2>5, CallsOfWalk
<1>3. QED
  BY <1>1, <1>2

LEMMA OnceInit == Init => OnceInv
<1> SUFFICES ASSUME Init PROVE OnceInv
  OBVIOUS
<1>1. DOMAIN made = {} /\ seen = {}
  BY DEF Init
<1>2. QED
  BY <1>1 DEF OnceInv, SeenInv, EachErrorIsExpandedOnce

\* However the application's errors share and circle, and whatever their getters answer, a
\* sanitized error is a tree: each error is expanded once in it, no deeper and no wider
\* than the budgets ("seen" and the caps of toSanitizedError).
THEOREM NodesAreTrees == Spec => []NodeIsBounded
<1>1. Types /\ CallsInv /\ OnceInv /\ [Next]_vars => (Types /\ CallsInv /\ OnceInv)'
  BY NextTypes, CallsNext, OnceNext
<1>2. Init => Types /\ CallsInv /\ OnceInv
  BY InitTypes, NodesInit, OnceInit
<1>3. OnceInv /\ BudgetsBoundTheNode => NodeIsBounded
  BY DEF OnceInv, NodeIsBounded
<1>4. QED
  BY <1>1, <1>2, <1>3, NodesAreBounded, PTL DEF Spec

-----------------------------------------------------------------------------
(***************************************************************************)
(* A hostile error degrades alone.                                         *)
(***************************************************************************)

\* No error has a toJSON among its own enumerable keys.
NoOwnToJson ==
  \A h \in Heaps : \A v \in DOMAIN h :
    h[v].kind = "error" => "toJSON" \notin Elements(h[v].keys)
PlainErrors == \A v \in DOMAIN heap : heap[v].kind = "error" => "toJSON" \notin KeysOf(v)

\* A throw by an error is not past the error's own call, where it is caught.
RaisedInv ==
  raised = TRUE /\ IsError(thrower) => stack # <<>> /\ F.step # "linked" /\ F.value = thrower
EnvelopeInv ==
  phase = "record" /\ <<>> \in DOMAIN out /\ out[<<>>].what = "envelope" =>
    stack = <<>> /\ ~IsError(thrower)

LEMMA PlainInit ==
  ASSUME NoOwnToJson, Init
  PROVE  PlainErrors
<1>1. PICK h \in Heaps : heap = Over(h, LibraryNodes)
  BY DEF Init
<1>2. HeapInv
  BY InitTypes DEF Types
<1>3. ASSUME NEW v \in DOMAIN heap, heap[v].kind = "error"
      PROVE  "toJSON" \notin KeysOf(v)
  <2>1. v \in Graph
    BY <1>2, <1>3, ErrorsAreOfTheGraph DEF IsKind, IsObject
  <2>2. v \notin DOMAIN LibraryNodes
    BY <2>1, ValuesApart DEF Library
  <2>3. v \in DOMAIN h /\ heap[v] = h[v]
    BY <1>1, <1>3, <2>2 DEF Over
  <2>4. KeysOf(v) = Elements(heap[v].keys)
    BY <1>2, ObjectsAre
  <2>5. QED
    BY <1>3, <2>3, <2>4 DEF NoOwnToJson
<1>4. QED
  BY <1>3 DEF PlainErrors

LEMMA PlainNext ==
  ASSUME Types, PlainErrors, [Next]_vars
  PROVE  PlainErrors'
<1>1. HeapInv'
  BY NextTypes DEF Types
<1>2. ASSUME NEW v \in DOMAIN heap', heap'[v].kind = "error"
      PROVE  heap'[v] = heap[v] /\ v \in DOMAIN heap
  <2>1. v \notin NodeIds
    BY <1>1, <1>2 DEF HeapInv, LibraryNode
  <2>2. QED
    BY <1>2, <2>1, StepKeepsNodes DEF GraphKept
<1>3. QED
  BY <1>2 DEF PlainErrors, KeysOf

\* Where a throw comes from.
ThrowsHere ==
  /\ F.step \in {"inspect", "fields"}
  /\ \/ Via = "throwing"
     \/ HonoursToJson /\ Throws \in heap[F.value].form
     \/ IsError(F.value)
     \/ \E k : Throws \in Read(F.value, k)

LEMMA RaiseShape ==
  ASSUME Types, Walk, raised = FALSE, raised' = TRUE
  PROVE  Raise /\ ThrowsHere /\ Walking
<1>1. CASE InspectRefused
  <2>1. Raise /\ F.step = "inspect" /\ Via = "throwing"
    BY <1>1, Zenon DEF InspectRefused, At
  <2>2. QED
    BY <1>1, <2>1, WalkShape DEF WalkDegraded, At, InspectRefused, ThrowsHere
<1>2. CASE FollowToJson
  <2>1. F.step = "inspect" /\ HonoursToJson
    BY <1>2, Zenon DEF FollowToJson, Inspecting, At
  <2>2. \/ UNCHANGED <<raised, thrower>>
        \/ \E result \in heap[F.value].form : result = Throws /\ Raise
    BY <1>2, Zenon DEF FollowToJson
  <2>3. QED
    BY <1>2, <2>1, <2>2, WalkShape DEF WalkDegraded, At, FollowToJson, Inspecting, ThrowsHere
<1>3. CASE Open
  <2>1. F.step = "inspect"
    BY <1>3, Zenon DEF Open, Inspecting, At
  <2>2. \E stackRead \in IF IsError(F.value) THEN Read(F.value, "stack") ELSE {Undefined} :
          (stackRead = Throws /\ Raise) \/ UNCHANGED <<raised, thrower>>
    BY <1>3, Zenon DEF Open
  <2>3. PICK stackRead \in IF IsError(F.value) THEN Read(F.value, "stack") ELSE {Undefined} :
          stackRead = Throws /\ Raise
    BY <2>2
  <2>4. IsError(F.value)
    BY <2>3, ValuesApart
  <2>5. QED
    BY <1>3, <2>1, <2>3, <2>4, WalkShape DEF WalkDegraded, At, Open, Inspecting, ThrowsHere
<1>4. CASE Element
  <2>1. F.step = "fields"
    BY <1>4, Zenon DEF Element, At
  <2>2. \E k, v : v \in Read(F.value, k) /\ v = Throws /\ Raise
    <3>1. \E v \in Read(F.value, Head(F.todo)) :
            (v = Throws /\ Raise) \/ UNCHANGED <<raised, thrower>>
      BY <1>4, Zenon DEF Element
    <3>2. QED
      BY <3>1
  <2>3. QED
    BY <1>4, <2>1, <2>2, WalkShape DEF WalkDegraded, At, Element, ThrowsHere
<1>5. CASE Field
  <2>1. F.step = "fields"
    BY <1>5, Zenon DEF Field, At
  <2>2. \E k, v : v \in Read(F.value, k) /\ v = Throws /\ Raise
    <3>1. \E v \in Read(F.value, Head(F.todo)) :
            (v = Throws /\ Raise) \/ UNCHANGED <<raised, thrower>>
      BY <1>5, Zenon DEF Field
    <3>2. QED
      BY <3>1
  <2>3. QED
    BY <1>5, <2>1, <2>2, WalkShape DEF WalkDegraded, At, Field, ThrowsHere
<1>6. CASE ~InspectRefused /\ ~FollowToJson /\ ~Open /\ ~Element /\ ~Field
  <2>1. raised' = raised \/ raised' = FALSE
    BY <1>6, Zenon DEF Walk, EnterPrimitive, EnterTooDeep, EnterOverBudget, Enter,
       InspectBinary, InspectBuffer, Followed, InspectFunction, FieldsDone,
       ReadPart, Link, Linked, PartsDone, CatchPart, CatchError, WalkDegraded, Unwind
  <2>2. QED
    BY <2>1
<1>7. QED
  BY <1>1, <1>2, <1>3, <1>4, <1>5, <1>6

\* Only an error itself throws in an error's name.
LEMMA ErrorsThrow ==
  ASSUME Types, NodesInv, FormsInv, PlainErrors, Walking, Raise, ThrowsHere, IsError(thrower')
  PROVE  F.value = thrower'
<1>1. F.value \in DOMAIN heap /\ HeapInv /\ MadeInv
  BY WalkingIs DEF FrameOK, ThrowsHere
<1>2. thrower' = IF F.value \in DOMAIN made THEN made[F.value].from ELSE F.value
  BY DEF Raise, Origin
<1>3. ASSUME F.value \in DOMAIN made
      PROVE  FALSE
  <2>1. F.value \in NodeIds /\ IsError(made[F.value].from)
    BY <1>1, <1>2, <1>3 DEF MadeInv
  <2>2. LibraryNode(heap[F.value])
    BY <1>1, <2>1 DEF HeapInv
  <2>3. "toJSON" \notin KeysOf(made[F.value].from)
    BY <2>1 DEF PlainErrors, IsError, IsKind, IsObject
  <2>4. Via = "none"
    BY <1>3, <2>1, <2>3 DEF FormsInv, FormOf, Via
  <2>5. ~IsError(F.value)
    BY <2>2 DEF IsError, IsKind, LibraryNode
  <2>6. \A k : Throws \notin Read(F.value, k)
    BY <1>1, <2>1, ReadsAre
  <2>7. QED
    BY <2>4, <2>5, <2>6 DEF ThrowsHere, HonoursToJson
<1>4. QED
  BY <1>2, <1>3

LEMMA ThrowerStays ==
  ASSUME Types, [Next]_vars, NEW v \in Values
  PROVE  IsError(v)' => IsError(v)
<1>1. HeapInv'
  BY NextTypes DEF Types
<1>2. ASSUME IsError(v)'
      PROVE  IsError(v)
  <2>1. v \in DOMAIN heap' /\ heap'[v].kind = "error"
    BY <1>2 DEF IsError, IsKind, IsObject
  <2>2. v \notin NodeIds
    BY <1>1, <2>1 DEF HeapInv, LibraryNode
  <2>3. QED
    BY <2>1, <2>2, StepKeepsNodes DEF GraphKept, IsError, IsKind, IsObject
<1>3. QED
  BY <1>2


\* While a throw propagates, only what catches it moves, or passes it on.
LEMMA ThrowPasses ==
  ASSUME Types, [Next]_vars, raised = TRUE, raised' = TRUE
  PROVE  thrower' = thrower /\ (Unwind \/ stack = <<>> \/ stack' = stack)
<1>1. CASE Unwind
  BY <1>1 DEF Unwind
<1>2. CASE Walk /\ ~Unwind
  <2>1. CASE CatchPart \/ CatchError
    BY <2>1, Zenon DEF CatchPart, CatchError
  <2>2. CASE ~CatchPart /\ ~CatchError
    <3>1. ~raised
      BY <1>2, <2>2, Zenon DEF Walk, At, Inspecting, EnterPrimitive, EnterTooDeep, EnterOverBudget,
         Enter, InspectBinary, InspectRefused, InspectBuffer, FollowToJson, Followed,
         InspectFunction, Open, Element, Field, FieldsDone, ReadPart, Link, Linked, PartsDone,
         WalkDegraded
    <3>2. QED
      BY <3>1
  <2>3. QED
    BY <2>1, <2>2
<1>3. CASE Sanitize
  BY <1>3, StepIsSane, TopIs DEF Types, Sane
<1>4. CASE Serialized
  BY <1>4 DEF Serialized, Types, TasksInv
<1>5. CASE UNCHANGED vars
  BY <1>5 DEF vars, walkVars
<1>6. QED
  BY <1>1, <1>2, <1>3, <1>4, <1>5 DEF Next

LEMMA RaisedNext ==
  ASSUME Types, NodesInv, FormsInv, PlainErrors, RaisedInv, [Next]_vars
  PROVE  RaisedInv'
<1> SUFFICES ASSUME raised' = TRUE, IsError(thrower)'
             PROVE  stack' # <<>> /\ F'.step # "linked" /\ F'.value = thrower'
  BY DEF RaisedInv
<1>1. IsError(thrower') /\ raised \in BOOLEAN
  <2>1. PICK v \in Values : v = thrower'
    BY NextTypes DEF Types, ScalarsInv
  <2>2. IsError(v)'
    BY <2>1 DEF IsError, IsKind, IsObject
  <2>3. IsError(v)
    BY <2>2, ThrowerStays
  <2>4. QED
    BY <2>1, <2>3 DEF Types, ScalarsInv
<1>2. CASE raised = FALSE
  <2>1. Walk
    <3>1. CASE Sanitize
      BY <1>2, <3>1 DEF Sanitize, walkVars
    <3>2. CASE Serialized \/ UNCHANGED vars
      BY <1>2, <3>2, Zenon DEF Serialized, vars, walkVars
    <3>3. QED
      BY <3>1, <3>2 DEF Next
  <2>2. Raise /\ ThrowsHere /\ Walking
    BY <1>2, <2>1, RaiseShape
  <2>3. F.value = thrower'
    BY <1>1, <2>2, ErrorsThrow
  <2>4. stack' = stack /\ stack # <<>>
    BY <2>2 DEF Raise, Walking
  <2>5. F' = F
    BY <2>4 DEF F
  <2>6. QED
    BY <2>2, <2>3, <2>4, <2>5 DEF ThrowsHere
<1>3. CASE raised = TRUE
  <2>1. thrower' = thrower /\ (Unwind \/ stack = <<>> \/ stack' = stack)
    BY <1>3, ThrowPasses
  <2>2. stack # <<>> /\ F.step # "linked" /\ F.value = thrower /\ IsError(F.value)
    BY <1>1, <1>3, <2>1 DEF RaisedInv
  <2>3. stack' = stack
    BY <2>1, <2>2 DEF Unwind, Catches
  <2>4. F' = F
    BY <2>3 DEF F
  <2>5. QED
    BY <2>1, <2>2, <2>3, <2>4
<1>4. QED
  BY <1>1, <1>2, <1>3

LEMMA PhaseStays ==
  ASSUME [Next]_vars, phase' = "record"
  PROVE  phase = "record"
<1>1. CASE Walk
  BY <1>1, Zenon DEF Walk, EnterPrimitive, EnterTooDeep, EnterOverBudget, Enter,
     InspectBinary, InspectRefused, InspectBuffer, FollowToJson, Followed, InspectFunction,
     Open, Element, Field, FieldsDone, ReadPart, Link, Linked, PartsDone, CatchPart, CatchError,
     WalkDegraded, Unwind
<1>2. CASE Sanitize
  BY <1>2 DEF Sanitize, walkVars
<1>3. CASE Serialized
  BY <1>3 DEF Serialized
<1>4. CASE UNCHANGED vars
  BY <1>4 DEF vars, walkVars
<1>5. QED
  BY <1>1, <1>2, <1>3, <1>4 DEF Next

\* A call that is over does nothing more.
LEMMA EndedStays ==
  ASSUME Types, [Next]_vars, phase = "record", stack = <<>>
  PROVE  UNCHANGED vars
<1>1. ~Walk
  BY WalkShape DEF Walking, WalkDegraded, At
<1>2. ~Sanitize
  BY StepIsSane DEF Sane, Types, TasksInv
<1>3. ~Serialized
  BY DEF Serialized
<1>4. QED
  BY <1>1, <1>2, <1>3 DEF Next

LEMMA EnvelopeNext ==
  ASSUME Types, RaisedInv, EnvelopeInv, [Next]_vars
  PROVE  EnvelopeInv'
<1> SUFFICES ASSUME phase' = "record", NEW q \in DOMAIN out', q = <<>>, out'[q].what = "envelope"
             PROVE  stack' = <<>> /\ ~IsError(thrower)'
  BY DEF EnvelopeInv
<1>1. phase = "record"
  BY PhaseStays
<1>2. CASE Kept(q)
  <2>1. stack = <<>> /\ ~IsError(thrower)
    BY <1>1, <1>2 DEF Kept, EnvelopeInv
  <2>2. UNCHANGED <<stack, thrower, heap>>
    BY <1>1, <2>1, EndedStays DEF vars, sanitizerVars, walkVars
  <2>3. QED
    BY <2>1, <2>2 DEF IsError, IsKind, IsObject
<1>3. CASE ~Kept(q)
  <2>1. Walk /\ Written(q)
    BY <1>3, WalkWrites
  <2>2. EnvelopeWrite(q, out'[q])
    <3>1. ~OwnWrite(q, out'[q])
      BY EntryParts DEF OwnWrite
    <3>2. ~FieldWrite(q, out'[q])
      BY DEF FieldWrite
    <3>3. ~MarkerWrite(q, out'[q])
      BY DEF MarkerWrite
    <3>4. QED
      BY <1>3, <2>1, <3>1, <3>2, <3>3 DEF Written
  <2>3. Unwind /\ Len(stack) = 1
    BY <2>2 DEF EnvelopeWrite
  <2>4. raised = TRUE /\ Ends /\ thrower' = thrower /\ stack # <<>> /\ ~IsError(F.value)
    BY <2>3 DEF Unwind, Unwinding, Catches, Types, ScalarsInv
  <2>5. stack' = <<>>
    <3>1. Rest \in Seq(Frames) /\ Len(Rest) = 0
      BY <2>3, <2>4, FIs DEF Types
    <3>2. QED
      BY <2>4, <3>1, EmptySeq DEF Ends
  <2>6. ~IsError(thrower)
    BY <2>4 DEF RaisedInv
  <2>7. PICK v \in Values : v = thrower /\ v = thrower'
    BY <2>4 DEF Types, ScalarsInv
  <2>8. ~IsError(v)'
    BY <2>6, <2>7, ThrowerStays
  <2>9. QED
    BY <2>5, <2>7, <2>8 DEF IsError, IsKind, IsObject
<1>4. QED
  BY <1>2, <1>3

\* An error that cannot be read degrades on its own: the envelope replaces no record for the
\* throw of an error, as long as no error has a toJSON of its own that its node would call
\* (walkError's catch; with one, the run redaction_own_tojson has the counterexample).
THEOREM HostileErrorsDegrade == ASSUME NoOwnToJson PROVE Spec => []HostileErrorDegradesAlone
<1> DEFINE I == /\ Types /\ CallsInv /\ NodesInv /\ FormsInv /\ PlainErrors
                /\ RaisedInv /\ EnvelopeInv
<1>1. Init => I
  <2> SUFFICES ASSUME Init PROVE I
    OBVIOUS
  <2>1. raised = FALSE /\ DOMAIN out = {}
    BY DEF Init
  <2>2. RaisedInv /\ EnvelopeInv
    BY <2>1 DEF RaisedInv, EnvelopeInv
  <2>3. QED
    BY <2>2, InitTypes, NodesInit, PlainInit
<1>2. I /\ [Next]_vars => I'
  BY NextTypes, CallsNext, NodesNext, PlainNext, RaisedNext, EnvelopeNext
<1>3. I => HostileErrorDegradesAlone
  BY DEF EnvelopeInv, HostileErrorDegradesAlone
<1>4. QED
  BY <1>1, <1>2, <1>3, PTL DEF Spec

-----------------------------------------------------------------------------
(***************************************************************************)
(* The own-field policy.                                                   *)
(***************************************************************************)

\* What may be written of an error's field k.
KeyOK(k, o) ==
  /\ AllowsOwnField(k) \/ k = "type"
  /\ k \notin ARGUMENT_FIELDS
  /\ k \in DATABASE_VALUE_FIELDS => ~heap[o].sqlState
Obeys(q, o) ==
  q # <<>> /\ IsError(o) /\ (Safe \/ q[1] \notin SerializedKeys) => KeyOK(q[Len(q)], o)

\* The fields a call still has to read are those of its value, or the parts of an error.
PartKeys == {"type", "name", "message", "stack", "cause", "errors"}
TodoOK(f) ==
  /\ f.step = "fields" => Elements(f.todo) \subseteq KeysOf(f.value)
  /\ f.step = "parts" => Elements(f.todo) \subseteq PartKeys
  /\ f.step \in {"link", "linked"} => Elements(f.todo) \subseteq PartKeys /\ f.part \in PartKeys

\* A key under which the call may write.
KeyFits(k) ==
  \/ IsArray(F.value)
  \/ k \in PartKeys \cup {INCOMPLETE_KEY}
  \/ k \in KeysOf(F.value) /\ (Scrubbed(F) => \E v : ~OmitsOwnField(F.value, k, v))

TurnOK(f) == SameCall(f) /\ TodoOK(f)
CallBelow(g) ==
  /\ Began(g)
  /\ \/ g.path = F.path /\ g.owner = F.owner /\ g.ser = F.ser
     \/ \E k \in Names :
          /\ g.path = Append(F.path, k) /\ g.owner = Origin(F.value) /\ KeyFits(k)
          /\ g.ser = TRUE => F.ser = TRUE \/ (F.honor = FALSE /\ k \in SerializedKeys)
PolicyMoves ==
  \/ Ends
  \/ Raise
  \/ \E f : TurnOK(f) /\ Turns(f)
  \/ \E f, g : TurnOK(f) /\ CallBelow(g) /\ Calls2(f, g)

LEMMA TailElements ==
  ASSUME NEW s \in Seq(Names), s # <<>>
  PROVE  Head(s) \in Elements(s) /\ Elements(Tail(s)) \subseteq Elements(s)
<1>1. PICK n \in Nat \ {0} : n = Len(s) /\ DOMAIN s = 1..n
  BY EmptySeq, LenProperties
<1>2. Head(s) = s[1] /\ 1 \in 1..n
  BY <1>1, HeadTailProperties
<1>3. Len(Tail(s)) = n - 1 /\ \A i \in 1..(n - 1) : Tail(s)[i] = s[i + 1]
  BY <1>1, HeadTailProperties
<1>4. DOMAIN Tail(s) = 1..(n - 1)
  BY <1>3, HeadTailProperties, LenProperties
<1>5. ASSUME NEW i \in 1..(n - 1) PROVE i + 1 \in 1..n
  BY <1>5
<1>6. QED
  BY <1>1, <1>2, <1>3, <1>4, <1>5 DEF Elements

LEMMA PartsAreParts ==
  ASSUME NEW f \in Frames
  PROVE  Elements(Without(<<NameKey(f), "message", "stack", "cause", "errors">>, f.written))
           \subseteq PartKeys
<1>1. PICK k : k = NameKey(f) /\ k \in {"name", "type"}
  BY DEF NameKey
<1>2. PICK s : s = <<k, "message", "stack", "cause", "errors">>
  OBVIOUS
<1>3. k \in Names /\ k \in PartKeys
  BY <1>1, NamesAre DEF PartKeys
<1>4. s \in Seq(Names)
  BY <1>2, <1>3, NamesAre
<1>5. Elements(s) \subseteq PartKeys
  <2>1. /\ DOMAIN s = 1..5 /\ s[1] = k /\ s[2] = "message" /\ s[3] = "stack"
        /\ s[4] = "cause" /\ s[5] = "errors"
    BY <1>2
  <2>2. \A i \in 1..5 : i = 1 \/ i = 2 \/ i = 3 \/ i = 4 \/ i = 5
    OBVIOUS
  <2>3. QED
    BY <1>3, <2>1, <2>2 DEF Elements, PartKeys
<1>6. Elements(Without(s, f.written)) \subseteq Elements(s)
  BY <1>4, WithoutProperties
<1>7. QED
  BY <1>1, <1>2, <1>5, <1>6

LEMMA PartTurns ==
  ASSUME F \in Frames, TodoOK(F), NEW f, SameCall(f), DOMAIN f = DOMAIN F,
         Elements(f.todo) \subseteq PartKeys
  PROVE  /\ TurnOK(NextPart(f)) /\ TurnOK(LostPart(f))
<1>1. SameCall(NextPart(f)) /\ SameCall(LostPart(f))
  BY SameCalls
<1>2. PICK g : g = NextPart(f) /\ g = [f EXCEPT !.step = "parts", !.part = None,
                                                !.linked = Undefined, !.before = <<>>]
  BY DEF NextPart
<1>3. g.step = "parts" /\ g.todo = f.todo
  BY <1>2 DEF Frames
<1>4. PICK h : h = LostPart(f) /\ h = [g EXCEPT !.incomplete = TRUE]
  BY <1>2 DEF LostPart
<1>5. h.step = "parts" /\ h.todo = f.todo
  BY <1>3, <1>4
<1>6. TodoOK(g) /\ TodoOK(h)
  BY <1>3, <1>5 DEF TodoOK
<1>7. QED
  BY <1>1, <1>2, <1>4, <1>6 DEF TurnOK

LEMMA StepTurns ==
  ASSUME F \in Frames, NEW step, step \notin {"fields", "parts", "link", "linked"}
  PROVE  TurnOK([F EXCEPT !.step = step])
<1>1. PICK f : f = [F EXCEPT !.step = step]
  OBVIOUS
<1>2. SameCall(f) /\ f.step = step
  BY <1>1, FIsSame, SameCalls DEF Frames
<1>3. QED
  BY <1>1, <1>2 DEF TurnOK, TodoOK

LEMMA FollowMoves ==
  ASSUME Walking, FollowToJson
  PROVE  PolicyMoves
<1>1. F \in Frames
  BY WalkingIs
<1>2. \/ Ends
      \/ Raise
      \/ \E result : Calls2([F EXCEPT !.step = "follow"],
                         Frame(result, F.path, F.depth + 1, TRUE, F.ser, F.owner))
  BY Zenon DEF FollowToJson
<1>3. ASSUME NEW result, Calls2([F EXCEPT !.step = "follow"],
                         Frame(result, F.path, F.depth + 1, TRUE, F.ser, F.owner))
      PROVE  PolicyMoves
  <2>1. PICK f : f = [F EXCEPT !.step = "follow"]
    OBVIOUS
  <2>2. TurnOK(f)
    BY <1>1, <2>1, StepTurns
  <2>3. PICK g : g = Frame(result, F.path, F.depth + 1, TRUE, F.ser, F.owner)
    OBVIOUS
  <2>4. CallBelow(g)
    BY <2>3 DEF Frame, Began, CallBelow
  <2>5. Calls2(f, g)
    BY <1>3, <2>1, <2>3, Zenon
  <2>6. QED
    BY <2>2, <2>4, <2>5 DEF PolicyMoves
<1>4. QED
  BY <1>2, <1>3 DEF PolicyMoves

LEMMA OpenMoves ==
  ASSUME Walking, Open
  PROVE  PolicyMoves
<1>1. F \in Frames
  BY WalkingIs
<1>2. Raise \/ Turns([F EXCEPT !.step = "fields", !.todo = heap[F.value].keys])
  BY Zenon DEF Open
<1>3. PICK f : f = [F EXCEPT !.step = "fields", !.todo = heap[F.value].keys]
  OBVIOUS
<1>4. SameCall(f) /\ f.step = "fields" /\ f.todo = heap[F.value].keys /\ f.value = F.value
  BY <1>1, <1>3, FIsSame, SameCalls DEF Frames
<1>5. TurnOK(f)
  BY <1>4 DEF TurnOK, TodoOK, Elements, KeysOf
<1>6. QED
  BY <1>2, <1>3, <1>5 DEF PolicyMoves

LEMMA ElementMoves ==
  ASSUME Walking, TodoOK(F), Element
  PROVE  PolicyMoves
<1>1. F \in Frames /\ F.step = "fields" /\ F.todo # <<>> /\ IsArray(F.value)
  BY WalkingIs DEF Element, At
<1>2. PICK k \in Names : k = Head(F.todo)
  BY <1>1, NextTodo
<1>3. PICK todo : todo = Tail(F.todo) /\ Elements(todo) \subseteq Elements(F.todo)
  BY <1>1, TailElements, FrameParts
<1>4. \/ Raise
      \/ \E v : Calls2([F EXCEPT !.todo = Tail(@)],
                    Frame(v, Append(F.path, k), F.depth + 1, TRUE, F.ser, Origin(F.value)))
  BY <1>2, Zenon DEF Element
<1>5. PICK f : f = [F EXCEPT !.todo = Tail(@)]
  OBVIOUS
<1>6. SameCall(f) /\ f.step = "fields" /\ f.todo = todo /\ f.value = F.value
  BY <1>1, <1>3, <1>5, FIsSame, SameCalls DEF Frames
<1>7. TurnOK(f)
  BY <1>1, <1>3, <1>6 DEF TurnOK, TodoOK
<1>8. ASSUME NEW v, Calls2(f, Frame(v, Append(F.path, k), F.depth + 1, TRUE, F.ser, Origin(F.value)))
      PROVE  PolicyMoves
  <2>1. PICK g : g = Frame(v, Append(F.path, k), F.depth + 1, TRUE, F.ser, Origin(F.value))
    OBVIOUS
  <2>2. Began(g) /\ g.path = Append(F.path, k) /\ g.owner = Origin(F.value) /\ g.ser = F.ser
    BY <2>1 DEF Frame, Began
  <2>3. CallBelow(g)
    BY <1>1, <1>2, <2>2 DEF CallBelow, KeyFits
  <2>4. QED
    BY <1>7, <1>8, <2>1, <2>3 DEF PolicyMoves
<1>9. QED
  BY <1>4, <1>5, <1>8, Zenon DEF PolicyMoves

LEMMA FieldMoves ==
  ASSUME Walking, TodoOK(F), Field
  PROVE  PolicyMoves
<1>1. F \in Frames /\ F.step = "fields" /\ F.todo # <<>>
  BY WalkingIs DEF Field, At
<1>2. F.ser \in BOOLEAN /\ F.honor \in BOOLEAN /\ F.todo \in Seq(Names)
  BY <1>1, FrameParts
<1>3. PICK k \in Names : k = Head(F.todo)
  BY <1>1, NextTodo
<1>4. PICK todo : todo = Tail(F.todo) /\ Elements(todo) \subseteq Elements(F.todo)
  BY <1>1, <1>2, TailElements
<1>5. PICK ser : ser = (F.ser \/ (~F.honor /\ k \in SerializedKeys))
  OBVIOUS
<1>6. ser = TRUE => F.ser = TRUE \/ (F.honor = FALSE /\ k \in SerializedKeys)
  BY <1>2, <1>5, Zenon
<1>7. PICK f, g : f = [F EXCEPT !.todo = Tail(@)] /\ g = [f EXCEPT !.written = @ \cup {k}]
  OBVIOUS
<1>8. /\ SameCall(f) /\ f.step = "fields" /\ f.todo = todo /\ f.value = F.value
      /\ SameCall(g) /\ g.step = "fields" /\ g.todo = todo /\ g.value = F.value
  <2>1. DOMAIN f = DOMAIN F /\ SameCall(f)
    BY <1>1, <1>7, FIsSame, SameCalls DEF Frames
  <2>2. SameCall(g)
    BY <1>1, <1>7, <2>1, SameCalls
  <2>3. QED
    BY <1>1, <1>4, <1>7, <2>1, <2>2 DEF Frames
<1>9. TurnOK(f) /\ TurnOK(g)
  BY <1>1, <1>4, <1>8 DEF TurnOK, TodoOK
<1>10. \/ Raise
       \/ Turns(f) \/ Turns(g)
       \/ \E v, w : /\ ~(Scrubbed(F) /\ OmitsOwnField(F.value, k, v))
                    /\ Calls2(g, Frame(w, Append(F.path, k), F.depth + 1, TRUE, ser, Origin(F.value)))
  BY <1>3, <1>5, <1>7, Zenon DEF Field
<1>11. ASSUME NEW v, NEW w, ~(Scrubbed(F) /\ OmitsOwnField(F.value, k, v)),
              Calls2(g, Frame(w, Append(F.path, k), F.depth + 1, TRUE, ser, Origin(F.value)))
       PROVE  PolicyMoves
  <2>1. PICK h : h = Frame(w, Append(F.path, k), F.depth + 1, TRUE, ser, Origin(F.value))
    OBVIOUS
  <2>2. Began(h) /\ h.path = Append(F.path, k) /\ h.owner = Origin(F.value) /\ h.ser = ser
    BY <2>1 DEF Frame, Began
  <2>3. k \in KeysOf(F.value)
    BY <1>1, <1>2, <1>3, TailElements DEF TodoOK
  <2>4. KeyFits(k)
    BY <1>11, <2>3 DEF KeyFits
  <2>5. CallBelow(h)
    BY <1>6, <2>2, <2>4 DEF CallBelow
  <2>6. QED
    BY <1>9, <1>11, <2>1, <2>5 DEF PolicyMoves
<1>12. QED
  BY <1>9, <1>10, <1>11, Zenon DEF PolicyMoves

LEMMA PartMoves ==
  ASSUME Walking, TodoOK(F), FieldsDone \/ ReadPart \/ Linked \/ CatchPart
  PROVE  PolicyMoves
<1>1. F \in Frames /\ F.todo \in Seq(Names)
  BY WalkingIs, FrameParts
<1>2. CASE FieldsDone
  <2>1. PICK x : /\ x = Without(<<NameKey(F), "message", "stack", "cause", "errors">>, F.written)
                 /\ Elements(x) \subseteq PartKeys
    BY <1>1, PartsAreParts
  <2>2. Ends \/ Turns([F EXCEPT !.step = "parts", !.todo = x])
    BY <1>2, <2>1, Zenon DEF FieldsDone
  <2>3. PICK f : f = [F EXCEPT !.step = "parts", !.todo = x]
    OBVIOUS
  <2>4. SameCall(f) /\ f.step = "parts" /\ f.todo = x
    BY <1>1, <2>3, FIsSame, SameCalls DEF Frames
  <2>5. TurnOK(f)
    BY <2>1, <2>4 DEF TurnOK, TodoOK
  <2>6. QED
    BY <2>2, <2>3, <2>5 DEF PolicyMoves
<1>3. CASE ReadPart
  <2>1. F.step = "parts" /\ F.todo # <<>>
    BY <1>3 DEF ReadPart, At
  <2>2. PICK p, todo : /\ p = Head(F.todo) /\ todo = Tail(F.todo)
                       /\ p \in PartKeys /\ Elements(todo) \subseteq PartKeys
    BY <1>1, <2>1, TailElements DEF TodoOK
  <2>3. PICK f : f = [F EXCEPT !.todo = Tail(@), !.part = Head(F.todo)]
    OBVIOUS
  <2>4. f = [F EXCEPT !.todo = todo, !.part = p]
    BY <2>2, <2>3
  <2>5. SameCall(f) /\ DOMAIN f = DOMAIN F /\ f.todo = todo /\ f.part = p
    BY <1>1, <2>4, FIsSame, SameCalls DEF Frames
  <2>6. TurnOK(NextPart(f)) /\ TurnOK(LostPart(f))
    BY <1>1, <2>2, <2>5, PartTurns
  <2>7. ASSUME NEW v
        PROVE  TurnOK([f EXCEPT !.step = "link", !.linked = v])
    <3>1. PICK g : g = [f EXCEPT !.step = "link", !.linked = v]
      OBVIOUS
    <3>2. g.todo = todo /\ g.part = p /\ g.step = "link" /\ SameCall(g)
      BY <1>1, <2>5, <3>1, SameCalls DEF Frames
    <3>3. QED
      BY <2>2, <3>1, <3>2 DEF TurnOK, TodoOK
  <2>8. \/ Turns(LostPart(f)) \/ Turns(NextPart(f))
        \/ \E v : Turns([f EXCEPT !.step = "link", !.linked = v])
    BY <1>3, <2>3, Zenon DEF ReadPart
  <2>9. QED
    BY <2>6, <2>7, <2>8, Zenon DEF PolicyMoves
<1>4. CASE Linked \/ CatchPart
  <2>1. F.step = "linked" /\ (Turns(LostPart(F)) \/ Turns(NextPart(F)))
    BY <1>4, Zenon DEF Linked, CatchPart, At
  <2>2. TurnOK(NextPart(F)) /\ TurnOK(LostPart(F))
    BY <1>1, <2>1, FIsSame, PartTurns DEF TodoOK
  <2>3. QED
    BY <2>1, <2>2 DEF PolicyMoves
<1>5. QED
  BY <1>2, <1>3, <1>4

LEMMA LinkMoves ==
  ASSUME Walking, TodoOK(F), Link
  PROVE  PolicyMoves
<1>1. F \in Frames /\ F.step = "link" /\ F.part \in Names
  BY WalkingIs, FrameParts DEF Link, At
<1>2. F.part \in PartKeys /\ Elements(F.todo) \subseteq PartKeys
  BY <1>1 DEF TodoOK
<1>3. TurnOK(NextPart(F)) /\ TurnOK(LostPart(F))
  BY <1>1, <1>2, FIsSame, PartTurns
<1>4. \/ Turns(LostPart(F)) \/ Turns(NextPart(F))
      \/ \E b : Calls2([F EXCEPT !.step = "linked", !.before = b],
                    Frame(F.linked, PartPath(F), F.depth + 1, TRUE, F.ser, Origin(F.value)))
  BY Zenon DEF Link
<1>5. ASSUME NEW b, Calls2([F EXCEPT !.step = "linked", !.before = b],
                    Frame(F.linked, PartPath(F), F.depth + 1, TRUE, F.ser, Origin(F.value)))
      PROVE  PolicyMoves
  <2>1. PICK f : f = [F EXCEPT !.step = "linked", !.before = b]
    OBVIOUS
  <2>2. SameCall(f) /\ f.step = "linked" /\ f.todo = F.todo /\ f.part = F.part
    BY <1>1, <2>1, FIsSame, SameCalls DEF Frames
  <2>3. TurnOK(f)
    BY <1>2, <2>2 DEF TurnOK, TodoOK
  <2>4. PICK g : g = Frame(F.linked, PartPath(F), F.depth + 1, TRUE, F.ser, Origin(F.value))
    OBVIOUS
  <2>5. Began(g) /\ g.path = PartPath(F) /\ g.owner = Origin(F.value) /\ g.ser = F.ser
    BY <2>4 DEF Frame, Began
  <2>6. CallBelow(g)
    BY <1>1, <1>2, <2>5 DEF CallBelow, KeyFits, PartPath
  <2>7. QED
    BY <1>5, <2>1, <2>3, <2>4, <2>6 DEF PolicyMoves
<1>6. QED
  BY <1>3, <1>4, <1>5 DEF PolicyMoves

LEMMA MovesAre ==
  ASSUME Types, Walk, ~WalkDegraded, Walking => TodoOK(F)
  PROVE  Walking /\ PolicyMoves
<1>1. Walking /\ TodoOK(F)
  BY WalkShape
<1>2. F \in Frames
  BY <1>1, WalkingIs
<1>3. CASE EnterPrimitive \/ EnterTooDeep \/ EnterOverBudget \/ InspectBinary \/ InspectRefused
           \/ InspectBuffer \/ Followed \/ InspectFunction \/ PartsDone \/ Unwind
  <2>1. Ends \/ Raise
    BY <1>3, Zenon DEF EnterPrimitive, EnterTooDeep, EnterOverBudget, InspectBinary,
       InspectRefused, InspectBuffer, Followed, InspectFunction, PartsDone, Unwind
  <2>2. QED
    BY <1>1, <2>1 DEF PolicyMoves
<1>4. CASE Enter
  <2>1. Ends \/ Turns([F EXCEPT !.step = "inspect"])
    BY <1>4, Zenon DEF Enter
  <2>2. TurnOK([F EXCEPT !.step = "inspect"])
    BY <1>2, StepTurns
  <2>3. QED
    BY <1>1, <2>1, <2>2 DEF PolicyMoves
<1>5. CASE CatchError
  <2>1. Turns([F EXCEPT !.step = "degraded"])
    BY <1>5, Zenon DEF CatchError
  <2>2. TurnOK([F EXCEPT !.step = "degraded"])
    BY <1>2, StepTurns
  <2>3. QED
    BY <1>1, <2>1, <2>2 DEF PolicyMoves
<1>6. QED
  BY <1>1, <1>3, <1>4, <1>5, FollowMoves, OpenMoves, ElementMoves, FieldMoves, PartMoves, LinkMoves
     DEF Walk

\* What the calls in progress write, what is written and what is made obeys the policy;
\* under a serializer's key are only paths that begin with one.
PolicyFrame(f) ==
  /\ Obeys(f.path, f.owner)
  /\ f.ser = TRUE => f.path # <<>> /\ f.path[1] \in SerializedKeys
  /\ f.honor = FALSE => f.path = <<>>
  /\ TodoOK(f)
Callers == {stack[i] : i \in DOMAIN stack}
MadeObeys(i, o) ==
  IsError(o) => made[i].tag # "list" /\ \A k \in Elements(heap[i].keys) : KeyOK(k, o)
PolicyInv ==
  /\ \A q \in DOMAIN out, o \in Values : o = out[q].owner => Obeys(q, o)
  /\ \A f \in Callers : PolicyFrame(f)
  /\ \A i \in DOMAIN made, o \in Values : o = made[i].from => MadeObeys(i, o)

LEMMA PhaseKept ==
  ASSUME [Next]_vars
  PROVE  policy' = policy /\ SerializedKeys' = SerializedKeys
<1>1. policy' = policy
  BY PolicyKept
<1>2. CASE phase' = "record"
  BY <1>1, <1>2, PhaseStays DEF SerializedKeys
<1>3. CASE phase' # "record"
  <2>1. phase # "record"
    <3>1. CASE Walk
      BY <1>3, <3>1, Zenon DEF Walk, EnterPrimitive, EnterTooDeep, EnterOverBudget, Enter,
         InspectBinary, InspectRefused, InspectBuffer, FollowToJson, Followed, InspectFunction,
         Open, Element, Field, FieldsDone, ReadPart, Link, Linked, PartsDone, CatchPart, CatchError,
         WalkDegraded, Unwind
    <3>2. CASE Sanitize
      BY <1>3, <3>2 DEF Sanitize, walkVars
    <3>3. CASE Serialized
      BY <3>3 DEF Serialized
    <3>4. CASE UNCHANGED vars
      BY <1>3, <3>4 DEF vars, walkVars
    <3>5. QED
      BY <3>1, <3>2, <3>3, <3>4 DEF Next
  <2>2. QED
    BY <1>1, <1>3, <2>1 DEF SerializedKeys
<1>4. QED
  BY <1>1, <1>2, <1>3

LEMMA ErrorsStay ==
  ASSUME Types, [Next]_vars, NEW o \in Values, IsError(o)'
  PROVE  IsError(o) /\ o \notin NodeIds /\ heap'[o] = heap[o]
<1>1. IsError(o)
  BY ThrowerStays
<1>2. o \in Graph /\ o \in DOMAIN heap
  BY <1>1, ErrorsAreOfTheGraph DEF IsError, Types
<1>3. o \notin NodeIds
  BY <1>2, ValuesApart
<1>4. QED
  BY <1>1, <1>2, <1>3, StepKeepsNodes DEF GraphKept

LEMMA KeyStays ==
  ASSUME Types, [Next]_vars, NEW o \in Values, IsError(o)', NEW k, KeyOK(k, o)
  PROVE  KeyOK(k, o)'
<1>1. heap'[o] = heap[o] /\ policy' = policy
  BY ErrorsStay, PhaseKept
<1>2. QED
  BY <1>1 DEF KeyOK, AllowsOwnField

LEMMA ObeysStays ==
  ASSUME Types, [Next]_vars, NEW o \in Values, NEW q, Obeys(q, o)
  PROVE  Obeys(q, o)'
<1> SUFFICES ASSUME q # <<>>, IsError(o)', Safe' \/ q[1] \notin SerializedKeys'
             PROVE  KeyOK(q[Len(q)], o)'
  BY DEF Obeys
<1>1. Safe' = Safe /\ SerializedKeys' = SerializedKeys
  BY PhaseKept DEF Safe
<1>2. KeyOK(q[Len(q)], o)
  BY <1>1, ErrorsStay DEF Obeys
<1>3. PICK k : k = q[Len(q)]
  OBVIOUS
<1>4. KeyOK(k, o)'
  BY <1>2, <1>3, KeyStays
<1>5. QED
  BY <1>3, <1>4

\* The value a call is at work on is not written meanwhile.
ValueStays(v) == heap'[v] = heap[v] /\ (v \in DOMAIN heap' => v \in DOMAIN heap)

LEMMA ValuesStay ==
  ASSUME Types, [Next]_vars, NEW i \in DOMAIN stack',
         stack'[i].step \notin {"enter", "inspect", "degraded"}
  PROVE  ValueStays(stack'[i].value)
<1>1. StackInv /\ HeapInv
  BY DEF Types
<1>2. ASSUME i \in DOMAIN stack, i # Len(stack), stack'[i] = stack[i]
      PROVE  ValueStays(stack'[i].value)
  <2>1. PICK n \in Nat : n = Len(stack) /\ DOMAIN stack = 1..n
    BY <1>1, LenProperties DEF StackInv
  <2>2. PICK v : v = stack[i].value
    OBVIOUS
  <2>3. v \in DOMAIN heap /\ (v \in NodeIds => v.base <= i)
    BY <1>1, <1>2, <2>2 DEF StackInv, FrameOK
  <2>4. v \in NodeIds => v.base # n
    <3>1. v \in NodeIds => v.base \in Nat
      BY DEF NodeIds
    <3>2. QED
      BY <1>2, <2>1, <2>3, <3>1
  <2>5. stack # <<>>
    BY <1>2
  <2>6. NodesKept(n)
    BY <2>1, <2>5, StepKeepsNodes
  <2>7. heap'[v] = heap[v]
    BY <2>3, <2>4, <2>6 DEF NodesKept
  <2>8. QED
    BY <1>2, <2>2, <2>3, <2>7 DEF ValueStays
<1>3. CASE heap' = heap
  BY <1>3 DEF ValueStays
<1>4. CASE Sanitize
  <2>1. stack' = stack /\ Sanitizing
    BY <1>4, StepIsSane DEF Sanitize, walkVars, Sane
  <2>2. i # Len(stack)
    BY <2>1 DEF Types, TasksInv, F
  <2>3. QED
    BY <1>2, <2>1, <2>2
<1>5. CASE ReadPart \/ CatchError
  <2>1. Walk /\ ~WalkDegraded
    BY <1>5 DEF Walk, WalkDegraded, ReadPart, CatchError, At, Unwinding
  <2>2. Walking /\ Walked
    BY <2>1, WalkShape
  <2>3. F.value \in Graph /\ F.value \in DOMAIN heap
    BY <1>5, <1>1, <2>2, WalkingIs, ErrorsAreOfTheGraph
    DEF ReadPart, CatchError, Catches, At, FrameOK, IsError
  <2>4. ValueStays(F.value)
    <3>1. F.value \notin NodeIds
      BY <2>3, ValuesApart
    <3>2. QED
      BY <2>3, <3>1, StepKeepsNodes DEF GraphKept, ValueStays
  <2>5. PICK n \in Nat \ {0} : n = Len(stack) /\ DOMAIN stack = 1..n /\ F = stack[n]
    BY <1>1, <2>2, FIs DEF Walking, F
  <2>6. CASE Ends
    BY <1>1, <1>2, <2>2, <2>5, <2>6, EndsShape DEF Walking
  <2>7. CASE stack' = stack
    BY <1>2, <2>4, <2>5, <2>7
  <2>8. ASSUME NEW f, SameCall(f), Turns(f)
        PROVE  ValueStays(stack'[i].value)
    <3>1. CASE i = n
      <4>1. stack'[i] = f
        BY <1>1, <2>2, <2>5, <2>8, <3>1, TurnsShape DEF Walking
      <4>2. QED
        BY <2>4, <2>8, <4>1 DEF SameCall
    <3>2. CASE i # n
      BY <1>1, <1>2, <2>2, <2>5, <2>8, <3>2, TurnsShape DEF Walking
    <3>3. QED
      BY <3>1, <3>2
  <2>9. ASSUME NEW f, NEW g, SameCall(f), Began(g), Calls2(f, g)
        PROVE  ValueStays(stack'[i].value)
    <3>1. CASE i = n
      <4>1. stack'[i] = f
        BY <1>1, <2>2, <2>5, <2>9, <3>1, CallsShape DEF Walking
      <4>2. QED
        BY <2>4, <2>9, <4>1 DEF SameCall
    <3>2. CASE i = n + 1
      <4>1. stack'[i] = g
        BY <1>1, <2>2, <2>5, <2>9, <3>2, CallsShape DEF Walking
      <4>2. QED
        BY <2>9, <4>1 DEF Began
    <3>3. CASE i # n /\ i # n + 1
      BY <1>1, <1>2, <2>2, <2>5, <2>9, <3>3, CallsShape DEF Walking
    <3>4. QED
      BY <3>1, <3>2, <3>3
  <2>10. QED
    BY <2>2, <2>6, <2>7, <2>8, <2>9 DEF Walked, Raise
<1>6. CASE Serialized
  <2>1. PICK f : stack' = <<f>> /\ f.step = "enter"
    BY <1>6, SerializedShape
  <2>2. stack'[i] = f
    BY <2>1
  <2>3. QED
    BY <2>1, <2>2
<1>7. CASE Walk /\ ~ReadPart /\ ~CatchError
  <2>1. UNCHANGED heap
    BY <1>7, Zenon DEF Walk, sanitizerVars, EnterPrimitive, EnterTooDeep, EnterOverBudget, Enter,
       InspectBinary, InspectRefused, InspectBuffer, FollowToJson, Followed, InspectFunction,
       Open, Element, Field, FieldsDone, Link, Linked, PartsDone, CatchPart, WalkDegraded, Unwind
  <2>2. QED
    BY <1>3, <2>1
<1>8. CASE UNCHANGED vars
  BY <1>3, <1>8 DEF vars, sanitizerVars
<1>9. QED
  BY <1>4, <1>5, <1>6, <1>7, <1>8 DEF Next

LEMMA CallersStay ==
  ASSUME Types, [Next]_vars, NEW f \in Callers', PolicyFrame(f)
  PROVE  PolicyFrame(f)'
<1>1. PICK i \in DOMAIN stack' : f = stack'[i]
  BY DEF Callers
<1>2. f \in Frames
  BY <1>1, NextTypes DEF Types, StackInv
<1>3. f.step = "fields" => heap'[f.value] = heap[f.value]
  BY <1>1, ValuesStay DEF ValueStays
<1>4. TodoOK(f)'
  BY <1>3 DEF PolicyFrame, TodoOK, KeysOf
<1>5. f.owner \in Values
  BY <1>2, FrameParts
<1>6. Obeys(f.path, f.owner)'
  <2>1. PICK o \in Values, q \in {f.path} : o = f.owner /\ q = f.path
    BY <1>5
  <2>2. Obeys(q, o)
    BY <2>1 DEF PolicyFrame
  <2>3. Obeys(q, o)'
    BY <2>2, ObeysStays
  <2>4. QED
    BY <2>1, <2>3
<1>7. SerializedKeys' = SerializedKeys
  BY PhaseKept
<1>8. QED
  BY <1>4, <1>6, <1>7 DEF PolicyFrame

\* The parts the library gives every error are no own fields of a driver's.
LEMMA LibraryKeysAreOK ==
  ASSUME NEW o, NEW k, k \in PartKeys \cup LibraryKeys
  PROVE  KeyOK(k, o)
<1>1. k = "type" \/ k \in DERIVED_ERROR_FIELDS \/ k = INCOMPLETE_KEY
  BY DEF PartKeys, LibraryKeys, DERIVED_ERROR_FIELDS
<1>2. AllowsOwnField(k) \/ k = "type"
  BY <1>1 DEF AllowsOwnField
<1>3. /\ "type" \notin ARGUMENT_FIELDS \cup DATABASE_VALUE_FIELDS
      /\ INCOMPLETE_KEY \notin ARGUMENT_FIELDS \cup DATABASE_VALUE_FIELDS
      /\ "name" \notin ARGUMENT_FIELDS \cup DATABASE_VALUE_FIELDS
      /\ "message" \notin ARGUMENT_FIELDS \cup DATABASE_VALUE_FIELDS
      /\ "stack" \notin ARGUMENT_FIELDS \cup DATABASE_VALUE_FIELDS
      /\ "cause" \notin ARGUMENT_FIELDS \cup DATABASE_VALUE_FIELDS
      /\ "errors" \notin ARGUMENT_FIELDS \cup DATABASE_VALUE_FIELDS
  BY DEF ARGUMENT_FIELDS, DATABASE_VALUE_FIELDS, INCOMPLETE_KEY
<1>4. k \notin ARGUMENT_FIELDS \cup DATABASE_VALUE_FIELDS
  BY <1>1, <1>3 DEF DERIVED_ERROR_FIELDS
<1>5. QED
  BY <1>2, <1>4 DEF KeyOK

LEMMA PathObeys ==
  ASSUME Walking, NodesInv, FormsInv, PolicyInv, NEW k \in Names, KeyFits(k),
         NEW q, q = Append(F.path, k)
  PROVE  Obeys(q, Origin(F.value))
<1>1. PICK v, o : v = F.value /\ o = Origin(v)
  OBVIOUS
<1>2. /\ F \in Frames /\ v \in Values /\ o \in Values /\ MadeInv /\ HeapInv
      /\ F.path \in Seq(Names) /\ F.ser \in BOOLEAN
  BY <1>1, WalkingIs, FrameParts, OriginIs
<1>3. PolicyFrame(F)
  <2>1. PICK n \in Nat \ {0} : n = Len(stack) /\ DOMAIN stack = 1..n /\ F = stack[n]
    BY WalkingIs, FIs DEF F, Walking
  <2>2. F \in Callers
    BY <2>1 DEF Callers
  <2>3. QED
    BY <2>2 DEF PolicyInv
<1>4. q[Len(q)] = k /\ (F.path # <<>> => q[1] = F.path[1])
  <2>1. PICK n \in Nat : n = Len(F.path)
    BY <1>2
  <2>2. Len(q) = n + 1 /\ q[n + 1] = k /\ \A i \in 1..n : q[i] = F.path[i]
    BY <1>2, <2>1, AppendProperties
  <2>3. F.path # <<>> => 1 \in 1..n
    BY <1>2, <2>1, EmptySeq
  <2>4. QED
    BY <2>2, <2>3
<1> SUFFICES ASSUME IsError(o), Safe \/ q[1] \notin SerializedKeys PROVE KeyOK(k, o)
  BY <1>1, <1>4 DEF Obeys
<1>5. CASE k \in PartKeys \cup {INCOMPLETE_KEY}
  BY <1>5, LibraryKeysAreOK DEF LibraryKeys
<1>6. CASE v \in DOMAIN made
  <2>1. v \in DOMAIN heap /\ o = made[v].from /\ MadeObeys(v, o) /\ FormOf(v)
    BY <1>1, <1>2, <1>6 DEF Origin, NodesInv, FormsInv, PolicyInv
  <2>2. ~IsArray(v)
    BY <2>1 DEF FormOf, IsArray, IsKind, IsObject
  <2>3. \A x \in KeysOf(v) : KeyOK(x, o)
    BY <2>1 DEF MadeObeys, KeysOf, Elements
  <2>4. QED
    BY <1>1, <1>5, <2>2, <2>3 DEF KeyFits
<1>7. CASE v \notin DOMAIN made
  <2>1. o = v /\ IsError(F.value)
    BY <1>1, <1>7 DEF Origin
  <2>2. ~IsArray(F.value)
    BY <2>1 DEF IsError, IsArray, IsKind
  <2>3. Safe \/ F.ser = FALSE
    BY <1>2, <1>3, <1>4 DEF PolicyFrame
  <2>4. Scrubbed(F)
    BY <2>1, <2>3 DEF Scrubbed
  <2>5. CASE \E a : ~OmitsOwnField(F.value, k, a)
    BY <1>1, <2>1, <2>5 DEF OmitsOwnField, KeyOK
  <2>6. QED
    BY <1>5, <2>2, <2>4, <2>5 DEF KeyFits
<1>8. QED
  BY <1>6, <1>7

LEMMA CallersNext ==
  ASSUME Types, NodesInv, FormsInv, PolicyInv, [Next]_vars, NEW f \in Callers'
  PROVE  PolicyFrame(f)
<1>1. PICK i \in DOMAIN stack' : f = stack'[i]
  BY DEF Callers
<1>2. StackSteps /\ StackInv
  BY StackStepsAre DEF Types
<1>3. ASSUME NEW j \in DOMAIN stack, f = stack[j]
      PROVE  PolicyFrame(f)
  BY <1>3 DEF PolicyInv, Callers
<1>4. Walking => PolicyFrame(F)
  <2> SUFFICES ASSUME Walking PROVE PolicyFrame(F)
    OBVIOUS
  <2>1. PICK n \in Nat \ {0} : n = Len(stack) /\ DOMAIN stack = 1..n /\ F = stack[n]
    BY WalkingIs, FIs DEF F, Walking
  <2>2. QED
    BY <2>1 DEF PolicyInv, Callers
<1>5. CASE stack' = stack
  BY <1>1, <1>3, <1>5
<1>6. CASE Walk /\ ~WalkDegraded
  <2>1. Walking /\ PolicyMoves /\ PolicyFrame(F) /\ stack # <<>> /\ F \in Frames
    BY <1>4, <1>6, MovesAre, WalkingIs DEF PolicyFrame, Walking
  <2>2. ASSUME NEW h, TurnOK(h) PROVE PolicyFrame(h)
    BY <2>1, <2>2 DEF TurnOK, SameCall, PolicyFrame
  <2>3. ASSUME NEW g, CallBelow(g) PROVE PolicyFrame(g)
    <3>1. TodoOK(g) /\ g.honor = TRUE
      BY <2>3 DEF CallBelow, Began, TodoOK
    <3>2. CASE g.path = F.path /\ g.owner = F.owner /\ g.ser = F.ser
      BY <2>1, <3>1, <3>2 DEF PolicyFrame
    <3>3. CASE \E k \in Names :
                 /\ g.path = Append(F.path, k) /\ g.owner = Origin(F.value) /\ KeyFits(k)
                 /\ g.ser = TRUE => F.ser = TRUE \/ (F.honor = FALSE /\ k \in SerializedKeys)
      <4>1. PICK k \in Names :
                 /\ g.path = Append(F.path, k) /\ g.owner = Origin(F.value) /\ KeyFits(k)
                 /\ g.ser = TRUE => F.ser = TRUE \/ (F.honor = FALSE /\ k \in SerializedKeys)
        BY <3>3
      <4>2. Obeys(g.path, g.owner)
        BY <2>1, <4>1, PathObeys
      <4>3. PICK n \in Nat, p \in Seq(Names) : p = F.path /\ n = Len(p)
        BY <2>1, FrameParts
      <4>4. /\ Len(g.path) = n + 1 /\ g.path[n + 1] = k
            /\ \A j \in 1..n : g.path[j] = p[j]
        BY <4>1, <4>3, AppendProperties
      <4>5. g.path # <<>>
        BY <4>4
      <4>6. ASSUME F.ser = TRUE PROVE g.path[1] \in SerializedKeys
        <5>1. p # <<>> /\ p[1] \in SerializedKeys
          BY <2>1, <4>3, <4>6 DEF PolicyFrame
        <5>2. 1 \in 1..n
          BY <4>3, <5>1, EmptySeq
        <5>3. QED
          BY <4>4, <5>1, <5>2
      <4>7. ASSUME F.honor = FALSE, k \in SerializedKeys PROVE g.path[1] \in SerializedKeys
        <5>1. p = <<>> /\ n = 0
          BY <2>1, <4>3, <4>7 DEF PolicyFrame
        <5>2. QED
          BY <4>4, <4>7, <5>1
      <4>8. QED
        BY <3>1, <4>1, <4>2, <4>5, <4>6, <4>7 DEF PolicyFrame
    <3>4. QED
      BY <2>3, <3>2, <3>3 DEF CallBelow
  <2>4. CASE Ends
    BY <1>1, <1>2, <1>3, <2>1, <2>4, EndsShape
  <2>5. CASE Raise
    BY <1>1, <1>3, <2>5 DEF Raise
  <2>6. ASSUME NEW h, TurnOK(h), Turns(h) PROVE PolicyFrame(f)
    <3>1. PolicyFrame(h)
      BY <2>2, <2>6
    <3>2. f = h \/ \E j \in DOMAIN stack : f = stack[j]
      BY <1>1, <1>2, <2>1, <2>6, TurnsShape
    <3>3. QED
      BY <1>3, <3>1, <3>2
  <2>7. ASSUME NEW h, NEW g, TurnOK(h), CallBelow(g), Calls2(h, g) PROVE PolicyFrame(f)
    <3>1. PolicyFrame(h) /\ PolicyFrame(g)
      BY <2>2, <2>3, <2>7
    <3>2. f = h \/ f = g \/ \E j \in DOMAIN stack : f = stack[j]
      BY <1>1, <1>2, <2>1, <2>7, CallsShape
    <3>3. QED
      BY <1>3, <3>1, <3>2
  <2>8. QED
    BY <2>1, <2>4, <2>5, <2>6, <2>7 DEF PolicyMoves
<1>7. CASE WalkDegraded /\ Walking
  <2>1. PICK h : /\ Turns(h) /\ h.path = F.path /\ h.honor = F.honor /\ h.ser = F.ser
                 /\ h.owner = F.owner /\ h.step = "enter"
    BY <1>7, DegradedShape
  <2>2. PolicyFrame(h)
    BY <1>4, <1>7, <2>1 DEF PolicyFrame, TodoOK
  <2>3. f = h \/ \E j \in DOMAIN stack : f = stack[j]
    BY <1>1, <1>2, <1>7, <2>1, TurnsShape DEF Walking
  <2>4. QED
    BY <1>3, <2>2, <2>3
<1>8. CASE Serialized
  <2>1. PICK h : /\ stack' = <<h>> /\ h.path = <<>> /\ h.honor = TRUE /\ h.ser = FALSE
                 /\ h.step = "enter"
    BY <1>8, SerializedShape
  <2>2. f = h
    BY <1>1, <2>1
  <2>3. QED
    BY <2>1, <2>2 DEF PolicyFrame, Obeys, TodoOK
<1>9. QED
  BY <1>2, <1>5, <1>6, <1>7, <1>8 DEF StackSteps

LEMMA WritesObey ==
  ASSUME Types, NodesInv, FormsInv, PolicyInv, [Next]_vars, NEW q \in DOMAIN out',
         NEW o \in Values, o = out'[q].owner
  PROVE  Obeys(q, o)
<1>1. CASE Kept(q)
  BY <1>1 DEF Kept, PolicyInv
<1>2. CASE ~Kept(q)
  <2>1. Walk /\ Written(q)
    BY <1>2, WalkWrites
  <2>2. ~WalkDegraded
    BY <1>2 DEF WalkDegraded, Kept
  <2>3. Walking
    BY <2>1, <2>2, WalkShape
  <2>4. F \in Callers
    <3>1. PICK n \in Nat \ {0} : n = Len(stack) /\ DOMAIN stack = 1..n /\ F = stack[n]
      BY <2>3, WalkingIs, FIs DEF F, Walking
    <3>2. QED
      BY <3>1 DEF Callers
  <2>5. PolicyFrame(F) /\ F \in Frames
    BY <2>3, <2>4, WalkingIs DEF PolicyInv
  <2>6. CASE OwnWrite(q, out'[q])
    <3>1. q = F.path /\ out'[q].owner = F.owner
      BY <2>6, EntryParts DEF OwnWrite
    <3>2. QED
      BY <2>5, <3>1 DEF PolicyFrame
  <2>7. CASE FieldWrite(q, out'[q])
    <3>1. PICK k : /\ q = Append(F.path, k) /\ o = Origin(F.value)
                   /\ \/ /\ F.step = "fields" /\ F.todo # <<>> /\ k = Head(F.todo)
                         /\ Scrubbed(F) => \E v : ~OmitsOwnField(F.value, k, v)
                      \/ F.step = "parts" /\ F.todo # <<>> /\ k = Head(F.todo)
                      \/ F.step = "parts" /\ k = INCOMPLETE_KEY
                      \/ F.step \in {"link", "linked"} /\ k = F.part
      BY <2>7, Zenon DEF FieldWrite
    <3>2. F.todo \in Seq(Names) /\ F.part \in Names
      BY <2>5, FrameParts
    <3>3. F.todo # <<>> => Head(F.todo) \in Names /\ Head(F.todo) \in Elements(F.todo)
      BY <3>2, TailElements, HeadTailProperties
    <3>4. k \in Names
      BY <3>1, <3>2, <3>3, NamesAre
    <3>5. KeyFits(k)
      BY <2>5, <3>1, <3>3 DEF KeyFits, PolicyFrame, TodoOK
    <3>6. QED
      BY <2>3, <3>1, <3>4, <3>5, PathObeys
  <2>8. CASE MarkerWrite(q, out'[q])
    <3>1. IsArray(o)
      BY <2>8 DEF MarkerWrite
    <3>2. ~IsError(o)
      BY <3>1 DEF IsArray, IsError, IsKind
    <3>3. QED
      BY <3>2 DEF Obeys
  <2>9. CASE EnvelopeWrite(q, out'[q])
    BY <2>9 DEF EnvelopeWrite, Obeys
  <2>10. QED
    BY <1>2, <2>1, <2>6, <2>7, <2>8, <2>9 DEF Written
<1>3. QED
  BY <1>1, <1>2

LEMMA TwoTextsKeys ==
  \A k \in Elements(TwoTexts.keys) : k \in PartKeys
<1>1. PICK s : s = <<"name", "message">>
  OBVIOUS
<1>2. TwoTexts.keys = s
  BY <1>1 DEF TwoTexts, Node
<1>3. DOMAIN s = {1, 2} /\ s[1] = "name" /\ s[2] = "message"
  BY <1>1
<1>4. QED
  BY <1>2, <1>3 DEF Elements, PartKeys

\* What a step makes of an error's node, told of the heap before it.
KeysNext(i, o) ==
  IsError(o) => made'[i].tag # "list" /\ \A k \in Elements(heap'[i].keys) : KeyOK(k, o)

LEMMA NodesObey ==
  ASSUME Types, CallsInv, NodesInv, FormsInv, PolicyInv, [Next]_vars, NEW i \in DOMAIN made',
         NEW o \in Values, o = made'[i].from
  PROVE  KeysNext(i, o)
<1> SUFFICES ASSUME IsError(o)
             PROVE  made'[i].tag # "list" /\ \A k \in Elements(heap'[i].keys) : KeyOK(k, o)
  BY DEF KeysNext
<1>1. i \in DOMAIN heap'
  BY NodesNext DEF NodesInv
<1>2. ASSUME i \in DOMAIN made, made[i].from = o
      PROVE  made[i].tag # "list" /\ \A k \in Elements(heap[i].keys) : KeyOK(k, o)
  BY <1>2 DEF PolicyInv, MadeObeys
<1>3. CASE Sanitize
  <2>1. Sane /\ SanitizerStep /\ Touches /\ MadeTop
    BY <1>3, StepIsSane, TopCall DEF Sane, SanitizerInv
  <2>2. ASSUME NEW tag \in {"error", "unknown", "failed"}, Remade(tag)
        PROVE  made'[i].tag # "list" /\ \A k \in Elements(heap'[i].keys) : KeyOK(k, o)
    <3>1. CASE i = Top.id
      BY <2>2, <3>1, TwoTextsKeys, LibraryKeysAreOK DEF Remade
    <3>2. CASE i # Top.id
      BY <1>1, <1>2, <2>2, <3>2 DEF Remade
    <3>3. QED
      BY <3>1, <3>2
  <2>3. CASE Opens
    BY <2>2, <2>3 DEF Opens
  <2>4. CASE Closes
    BY <2>2, <2>4 DEF Closes
  <2>5. CASE Fills
    <3>1. HeapGrows /\ MadeGrows
      BY <2>5 DEF Fills
    <3>2. CallOK(Top, made) /\ MadeInv
      BY <2>1, TopCall DEF Sane, SanitizerInv
    <3>3. made[Top.id].from = Top.from /\ Top.step # "identify"
      BY <2>5, <3>2 DEF Fills, CallOK
    <3>4. i \in DOMAIN made /\ made[i].from = o /\ made'[i].tag = made[i].tag
      BY <3>1, <3>2 DEF MadeGrows, MadeInv
    <3>5. made[i].tag # "list" /\ \A k \in Elements(heap[i].keys) : KeyOK(k, o)
      BY <1>2, <3>4
    <3>6. CASE i = Top.id /\ NodeGrows(i)
      <4>1. ASSUME NEW k \in Elements(heap'[i].keys) PROVE KeyOK(k, o)
        <5>1. k \in Elements(heap[i].keys) \/ k \in LibraryKeys \/ CopiedKey(k)
          BY <3>6, <4>1 DEF NodeGrows
        <5>2. CopiedKey(k) => KeyOK(k, o)
          BY <3>3, <3>4, <3>6 DEF CopiedKey, OmitsOwnField, KeyOK
        <5>3. QED
          BY <3>5, <5>1, <5>2, LibraryKeysAreOK
      <4>2. QED
        BY <3>4, <3>5, <4>1
    <3>7. CASE i = ListOf(Top.id) /\ ListGrowth(i)
      <4>1. Top.step = "members"
        BY <3>7 DEF ListGrowth
      <4>2. QED
        BY <3>2, <3>5, <3>7, <4>1 DEF CallOK
    <3>8. QED
      BY <1>1, <3>1, <3>4, <3>5, <3>6, <3>7 DEF HeapGrows
  <2>6. QED
    BY <2>1, <2>3, <2>4, <2>5, SanitizerShape
<1>4. CASE ~Sanitize
  <2>1. i \in DOMAIN made /\ made'[i] = made[i] /\ (i \in DOMAIN heap /\ NotCapped(i) => NodeStays(i))
    BY <1>4, WalkLeavesNodes DEF WalkLeaves
  <2>2. NodeStays(i)
    BY <2>1 DEF NodesInv, NodeOK
  <2>3. "type" \in PartKeys
    BY DEF PartKeys
  <2>4. QED
    BY <1>2, <2>1, <2>2, <2>3, LibraryKeysAreOK DEF NodeStays
<1>5. QED
  BY <1>3, <1>4

LEMMA PolicyNext ==
  ASSUME Types, CallsInv, NodesInv, FormsInv, PolicyInv, [Next]_vars
  PROVE  PolicyInv'
<1>1. ASSUME NEW q \in DOMAIN out', NEW o \in Values, o = out'[q].owner
      PROVE  Obeys(q, o)'
  BY <1>1, WritesObey, ObeysStays
<1>2. ASSUME NEW f \in Callers'
      PROVE  PolicyFrame(f)'
  BY <1>2, CallersNext, CallersStay
<1>3. ASSUME NEW i \in DOMAIN made', NEW o \in Values, o = made'[i].from
      PROVE  MadeObeys(i, o)'
  <2> SUFFICES ASSUME IsError(o)'
               PROVE  made'[i].tag # "list" /\ \A k \in Elements(heap'[i].keys) : KeyOK(k, o)'
    BY DEF MadeObeys
  <2>1. made'[i].tag # "list" /\ \A k \in Elements(heap'[i].keys) : KeyOK(k, o)
    BY <1>3, NodesObey, ErrorsStay DEF KeysNext
  <2>2. ASSUME NEW k \in Elements(heap'[i].keys) PROVE KeyOK(k, o)'
    BY <2>1, <2>2, KeyStays
  <2>3. QED
    BY <2>1, <2>2
<1>4. QED
  BY <1>1, <1>2, <1>3 DEF PolicyInv

LEMMA PolicyInit == Init => PolicyInv
<1> SUFFICES ASSUME Init PROVE PolicyInv
  OBVIOUS
<1>1. DOMAIN out = {} /\ DOMAIN made = {}
  BY DEF Init
<1>2. ASSUME NEW f \in Callers PROVE PolicyFrame(f)
  <2>1. CASE stack = <<Frame(Record, <<>>, 0, FALSE, FALSE, Record)>>
    <3>1. PICK g : g = Frame(Record, <<>>, 0, FALSE, FALSE, Record)
      OBVIOUS
    <3>2. g.path = <<>> /\ g.ser = FALSE /\ g.step = "enter"
      BY <3>1 DEF Frame
    <3>3. stack = <<g>>
      BY <2>1, <3>1, Zenon
    <3>4. f = g
      BY <1>2, <3>3 DEF Callers
    <3>5. QED
      BY <3>2, <3>4 DEF PolicyFrame, Obeys, TodoOK
  <2>2. CASE stack = <<>>
    BY <1>2, <2>2 DEF Callers
  <2>3. QED
    BY <2>1, <2>2, Zenon DEF Init
<1>3. QED
  BY <1>1, <1>2 DEF PolicyInv

\* What is written of an error's own fields is what the policy lets be written: of the error
\* walked, of the node it degraded to, and of the links of either, whatever answers its
\* getters give the second time.  Under a serializer's key an instance keeps its own
\* (allowsOwnField, assignOwnErrorFields, walkObject).
THEOREM ErrorFieldsObey == Spec => []ErrorFieldsObeyThePolicy
<1>1. Init => Types /\ CallsInv /\ NodesInv /\ FormsInv /\ PolicyInv
  BY InitTypes, NodesInit, PolicyInit
<1>2. Types /\ CallsInv /\ NodesInv /\ FormsInv /\ PolicyInv /\ [Next]_vars
        => (Types /\ CallsInv /\ NodesInv /\ FormsInv /\ PolicyInv)'
  BY NextTypes, StutterTypes, CallsNext, NodesNext, PolicyNext
<1>3. Types /\ PolicyInv => ErrorFieldsObeyThePolicy
  <2> SUFFICES ASSUME Types, PolicyInv, NEW q \in DOMAIN out, q # <<>>, IsError(out[q].owner),
                      Safe \/ q[1] \notin SerializedKeys
               PROVE  /\ AllowsOwnField(q[Len(q)]) \/ q[Len(q)] = "type"
                      /\ q[Len(q)] \notin ARGUMENT_FIELDS
                      /\ q[Len(q)] \in DATABASE_VALUE_FIELDS => ~heap[out[q].owner].sqlState
    BY DEF ErrorFieldsObeyThePolicy
  <2>1. PICK o \in Values : o = out[q].owner
    BY DEF Types, OutInv, Entries
  <2>2. Obeys(q, o)
    BY <2>1 DEF PolicyInv
  <2>3. QED
    BY <2>1, <2>2 DEF Obeys, KeyOK
<1>4. QED
  BY <1>1, <1>2, <1>3, PTL DEF Spec

-----------------------------------------------------------------------------
(***************************************************************************)
(* What a list leaves out.                                                 *)
(***************************************************************************)

\* A list none of whose members is a count; one that ends with the count w.
Plain(n) == \A k \in DOMAIN n.field : \E a : n.field[k] = {a} /\ a \notin WidthMarkers
Counts(n, w) ==
  /\ \E k \in DOMAIN n.field : n.field[k] = {WidthMarker(w)}
  /\ \A k \in DOMAIN n.field : \E a : n.field[k] = {a} /\ (a \in WidthMarkers => a = WidthMarker(w))
AddsUp(n) ==
  \/ Plain(n) /\ Len(n.keys) = n.size
  \/ \E w \in 1..MaxOmitted : Counts(n, w) /\ Len(n.keys) - 1 + w = n.size

\* A list that still has to get the rest of its members, and the count of what is left out.
Pending(n, rest, left) ==
  /\ Plain(n)
  /\ \A j \in 1..Len(n.keys) : n.keys[j] = Indexes[j]
  /\ Len(n.keys) + Len(rest) + (IF left > 0 THEN left ELSE 0) = n.size

IsOpen(i) == \E j \in DOMAIN tasks : tasks[j].step = "members" /\ ListOf(tasks[j].id) = i
PendingInv ==
  \A j \in DOMAIN tasks : tasks[j].step = "members" =>
    Pending(heap[ListOf(tasks[j].id)], tasks[j].links, tasks[j].left)
ClosedInv == \A i \in DOMAIN made : made[i].tag = "list" => IsOpen(i) \/ AddsUp(heap[i])
SizesInv  == \A v \in DOMAIN heap : v \notin NodeIds /\ heap[v].kind = "array" => SizeIsTrue(heap[v])

LEMMA WidthsAre ==
  /\ Markers = {DepthMarker} \cup WidthMarkers /\ DepthMarker \notin WidthMarkers
  /\ \A n \in 1..MaxOmitted : WidthMarker(n) \in WidthMarkers /\ WidthMarker(n).omitted = n
  /\ \A m \in WidthMarkers : \E n \in 1..MaxOmitted : m = WidthMarker(n) /\ m.omitted = n
  /\ DepthMarker.omitted = 0
<1>1. \A n : WidthMarker(n).omitted = n
  BY DEF WidthMarker
<1>2. DepthMarker.omitted = 0
  BY DEF DepthMarker
<1>3. \A m \in WidthMarkers : \E n \in 1..MaxOmitted : m = WidthMarker(n) /\ m.omitted = n
  BY <1>1 DEF WidthMarkers
<1>4. DepthMarker \notin WidthMarkers
  <2>1. \A n \in 1..MaxOmitted : n # 0
    BY IndexesAre
  <2>2. QED
    BY <1>2, <1>3, <2>1
<1>5. QED
  BY <1>1, <1>2, <1>3, <1>4, Zenon DEF Markers, WidthMarkers

\* What is shown of a list, and what is read past its cap, add up to its size.
LEMMA ShownAndLeft ==
  ASSUME HeapInv, NEW v \in DOMAIN heap, v \notin NodeIds, heap[v].kind = "array",
         SizeIsTrue(heap[v]), NEW m \in Cut(v),
         NEW left, left = (IF CarriedOmitted(m) > 0 THEN CarriedOmitted(m)
                           ELSE Len(heap[v].keys) - MaxAggregate)
  PROVE  /\ left \in Int
         /\ MinOf(Len(heap[v].keys), MaxAggregate) + (IF left > 0 THEN left ELSE 0) = heap[v].size
<1>1. PICK n \in Nat : n = Len(heap[v].keys)
  BY ListsAreIndexed
<1>2. PICK a \in Nat : a = MaxAggregate
  BY IndexesAre
<1>3. PICK s \in Nat : s = heap[v].size
  BY ObjectsAre
<1>4. CASE n = a + 1
  <2>2. PICK k : k = Indexes[MaxAggregate + 1]
    OBVIOUS
  <2>4. m \in Read(v, k)
    BY <1>1, <1>2, <1>4, <2>2 DEF Cut
  <2>5. m \in WidthMarkers => m \in PastTheCap(heap[v])
    <3>1. Undefined \notin WidthMarkers
      BY ValuesApart, WidthsAre DEF Primitives
    <3>2. QED
      BY <2>2, <2>4, <3>1 DEF Read, PastTheCap
  <2>6. k \in DOMAIN heap[v].field => m \in PastTheCap(heap[v])
    BY <2>2, <2>4 DEF Read, PastTheCap
  <2>7. PICK c : c = CarriedOmitted(m)
    OBVIOUS
  <2>12. c = IF m \in Markers THEN m.omitted ELSE 0
    BY <2>7 DEF CarriedOmitted
  <2>13. m \in WidthMarkers => c = m.omitted
    BY <2>12, WidthsAre
  <2>14. m \notin WidthMarkers => c = 0
    BY <2>12, WidthsAre
  <2>8. MinOf(n, a) = a
    BY <1>2, <1>4 DEF MinOf
  <2>9. CASE m \in WidthMarkers
    <3>1. PICK w \in 1..MaxOmitted : m.omitted = w
      BY <2>9, WidthsAre
    <3>2. s = a + w
      BY <1>1, <1>2, <1>3, <1>4, <2>5, <2>9, <3>1 DEF SizeIsTrue
    <3>3. w \in Int /\ w > 0
      BY <3>1, IndexesAre
    <3>4. left = w
      BY <2>7, <2>9, <2>13, <3>1, <3>3
    <3>5. QED
      BY <1>1, <1>2, <1>3, <2>8, <3>2, <3>3, <3>4
  <2>10. CASE m \notin WidthMarkers
    <3>1. s = n
      <4>1. CASE PastTheCap(heap[v]) \cap WidthMarkers = {}
        BY <1>1, <1>3, <4>1 DEF SizeIsTrue
      <4>2. CASE PastTheCap(heap[v]) \cap WidthMarkers # {}
        <5>1. m \in PastTheCap(heap[v])
          <6>1. PastTheCap(heap[v]) # {}
            BY <4>2
          <6>2. k \in DOMAIN heap[v].field
            BY <2>2, <6>1 DEF PastTheCap
          <6>3. QED
            BY <2>6, <6>2
        <5>2. m \in WidthMarkers
          BY <1>1, <1>2, <1>4, <4>2, <5>1 DEF SizeIsTrue
        <5>3. QED
          BY <2>10, <5>2
      <4>3. QED
        BY <4>1, <4>2
    <3>2. left = n - a
      BY <1>1, <1>2, <2>7, <2>10, <2>14
    <3>3. QED
      BY <1>1, <1>2, <1>3, <1>4, <2>8, <3>1, <3>2
  <2>11. QED
    BY <2>9, <2>10
<1>5. CASE n # a + 1
  <2>1. CarriedOmitted(m) = 0
    <3>1. m = Undefined
      BY <1>1, <1>2, <1>5 DEF Cut
    <3>2. Undefined \notin Markers
      BY ValuesApart, MarkersAre DEF Primitives
    <3>3. QED
      BY <3>1, <3>2 DEF CarriedOmitted
  <2>2. s = n
    BY <1>1, <1>2, <1>3, <1>5 DEF SizeIsTrue
  <2>3. left = n - a
    BY <1>1, <1>2, <2>1
  <2>4. CASE n <= a
    <3>1. MinOf(n, a) = n /\ ~(left > 0)
      BY <1>1, <1>2, <2>3, <2>4 DEF MinOf
    <3>2. QED
      BY <1>1, <1>2, <1>3, <2>2, <2>3, <3>1
  <2>5. CASE n > a
    <3>1. MinOf(n, a) = a /\ left > 0
      BY <1>1, <1>2, <2>3, <2>5 DEF MinOf
    <3>2. QED
      BY <1>1, <1>2, <1>3, <2>2, <2>3, <3>1
  <2>6. QED
    BY <1>1, <1>2, <2>4, <2>5
<1>6. QED
  BY <1>4, <1>5

\* A list whose members are in order, and that has a place for one more; what it is with
\* the one more.
HasAPlace(n) ==
  /\ LibraryNode(n) /\ Len(n.keys) < Len(Indexes) /\ Plain(n)
  /\ \A j \in 1..Len(n.keys) : n.keys[j] = Indexes[j]
Gained(n, a, w) ==
  /\ Len(w.keys) = Len(n.keys) + 1 /\ w.size = n.size
  /\ \A j \in 1..Len(w.keys) : w.keys[j] = Indexes[j]
  /\ a \notin WidthMarkers => Plain(w)
  /\ \A c : a = WidthMarker(c) => Counts(w, c)

\* The list gains a member, or the count.
LEMMA ListGains ==
  ASSUME NEW n, HasAPlace(n), NEW p, p = Indexes[Len(n.keys) + 1], NEW a
  PROVE  Gained(n, a, With(n, p, a))
<1>10. /\ LibraryNode(n) /\ Len(n.keys) < Len(Indexes) /\ Plain(n)
       /\ \A j \in 1..Len(n.keys) : n.keys[j] = Indexes[j]
  BY DEF HasAPlace
<1>11. PICK w : w = With(n, p, a)
  OBVIOUS
<1>1. PICK s \in Seq(Names), l \in Nat : s = n.keys /\ l = Len(s) /\ DOMAIN s = 1..l
  BY <1>10, LenProperties, WellFormedIs DEF LibraryNode
<1>2. l + 1 \in 1..Len(Indexes) /\ p = Indexes[l + 1] /\ p \in Names
  BY <1>1, <1>10, IndexesAre
<1>3. p \notin DOMAIN n.field
  <2>1. \A j \in 1..l : s[j] # p
    <3>1. ASSUME NEW j \in 1..l PROVE Indexes[j] # Indexes[l + 1]
      <4>1. j \in 1..Len(Indexes) /\ j # l + 1
        BY <1>1, <1>2, IndexesAre
      <4>2. QED
        BY <1>2, <4>1, IndexesAre DEF OneEach
    <3>2. QED
      BY <1>1, <1>2, <1>10, <3>1
  <2>2. QED
    BY <1>1, <1>10, <2>1 DEF LibraryNode, Elements
<1>4. DOMAIN n = NodeFields
  BY <1>10, WellFormedIs DEF LibraryNode
<1>5. /\ w.size = n.size
      /\ DOMAIN w.field = DOMAIN n.field \cup {p} /\ w.field[p] = {a}
      /\ \A x \in DOMAIN n.field : w.field[x] = n.field[x]
      /\ w.keys[l + 1] = p /\ \A j \in 1..l : w.keys[j] = s[j]
      /\ Len(w.keys) = l + 1
  BY <1>1, <1>2, <1>3, <1>4, <1>11, WithIs
<1>6. \A j \in 1..(l + 1) : w.keys[j] = Indexes[j]
  <2>1. \A j \in 1..(l + 1) : j \in 1..l \/ j = l + 1
    BY <1>1
  <2>2. QED
    BY <1>1, <1>2, <1>5, <1>10, <2>1
<1>7. a \notin WidthMarkers => Plain(w)
  BY <1>5, <1>10 DEF Plain
<1>8. ASSUME NEW c, a = WidthMarker(c) PROVE Counts(w, c)
  <2>1. \A k \in DOMAIN n.field : \E b : w.field[k] = {b} /\ b \notin WidthMarkers
    BY <1>5, <1>10 DEF Plain
  <2>2. QED
    BY <1>5, <1>8, <2>1 DEF Counts
<1>9. QED
  BY <1>1, <1>5, <1>6, <1>7, <1>8, <1>11 DEF Gained

\* The outer calls stay as they are.
OutersStay == \A j \in DOMAIN tasks : j # Len(tasks) => j \in DOMAIN tasks' /\ tasks'[j] = tasks[j]
TopGoesAs(t) == Len(tasks) \in DOMAIN tasks' /\ tasks'[Len(tasks)] = t

LEMMA TurnStays ==
  ASSUME Sane, NEW t, tasks' = [tasks EXCEPT ![Len(tasks)] = t]
  PROVE  OutersStay /\ TopGoesAs(t)
<1>1. PICK n \in Nat \ {0} : n = Len(tasks) /\ DOMAIN tasks = 1..n
  BY TopIs DEF Sane, SanitizerInv
<1>2. n \in DOMAIN tasks
  BY <1>1
<1>3. QED
  BY <1>1, <1>2 DEF OutersStay, TopGoesAs

LEMMA LinkStays ==
  ASSUME Sane, NEW t \in Tasks, NEW c, c = <<>> \/ \E x : c = <<x>>,
         tasks' = [tasks EXCEPT ![Len(tasks)] = t] \o c
  PROVE  OutersStay /\ TopGoesAs(t)
<1>1. PICK n \in Nat \ {0} : n = Len(tasks) /\ DOMAIN tasks = 1..n /\ tasks \in Seq(Tasks)
  BY TopIs DEF Sane, SanitizerInv, TasksInv
<1>2. PICK s \in Seq(Tasks) :
        /\ s = [tasks EXCEPT ![Len(tasks)] = t] /\ Len(s) = n
        /\ \A j \in 1..n : s[j] = IF j = n THEN t ELSE tasks[j]
  <2>1. PICK s : s = [tasks EXCEPT ![Len(tasks)] = t]
    OBVIOUS
  <2>2. Len(tasks) \in 1..Len(tasks)
    BY <1>1
  <2>3. /\ s \in Seq(Tasks) /\ Len(s) = n
        /\ \A j \in 1..n : s[j] = IF j = n THEN t ELSE tasks[j]
    BY <1>1, <2>1, <2>2, ExceptSeq
  <2>4. QED
    BY <2>1, <2>3
<1>3. 1..n \subseteq DOMAIN tasks' /\ \A j \in 1..n : tasks'[j] = s[j]
  <2>1. CASE c = <<>>
    <3>1. tasks' = s
      BY <1>2, <2>1, ConcatEmptySeq
    <3>2. QED
      BY <1>2, <3>1, LenProperties
  <2>2. ASSUME NEW x, c = <<x>>
        PROVE  1..n \subseteq DOMAIN tasks' /\ \A j \in 1..n : tasks'[j] = s[j]
    <3>1. PICK S : S = Tasks \cup {x}
      OBVIOUS
    <3>2. s \in Seq(S)
      BY <1>2, <3>1, LenProperties, ElementOfSeq
    <3>3. tasks' = Append(s, x)
      BY <1>2, <2>2, <3>1, <3>2, AppendIsConcat
    <3>4. /\ Append(s, x) \in Seq(S) /\ Len(Append(s, x)) = Len(s) + 1
          /\ \A j \in 1..Len(s) : Append(s, x)[j] = s[j]
      BY <3>1, <3>2, AppendProperties
    <3>5. DOMAIN tasks' = 1..(n + 1)
      BY <1>2, <3>3, <3>4, LenProperties
    <3>6. QED
      BY <1>1, <1>2, <3>3, <3>4, <3>5
  <2>3. QED
    BY <2>1, <2>2
<1>4. n \in 1..n
  BY <1>1
<1>5. QED
  BY <1>1, <1>2, <1>3, <1>4 DEF OutersStay, TopGoesAs

\* A step after which the innermost call is at no list.
TurnsQuietly ==
  \/ Leave
  \/ \E step \in {"stack", "cause", "errors", "own"} : Advance(step)
  \/ \E t \in Tasks : \E c :
       /\ t.step = "errors" /\ (c = <<>> \/ \E x : c = <<x>>)
       /\ tasks' = [tasks EXCEPT ![Len(tasks)] = t] \o c
TopIsQuiet == Len(tasks) \in DOMAIN tasks' => tasks'[Len(tasks)].step # "members"

LEMMA QuietStays ==
  ASSUME Sane, Touches, TurnsQuietly
  PROVE  OutersStay /\ TopIsQuiet
<1>1. PICK n \in Nat \ {0} : n = Len(tasks) /\ DOMAIN tasks = 1..n
  BY TopIs DEF Sane, SanitizerInv
<1>2. CASE Leave
  <2>1. /\ DOMAIN tasks' = 1..(n - 1)
        /\ \A i \in DOMAIN tasks' : i # Len(tasks) /\ tasks'[i] = tasks[i]
    BY <1>1, <1>2, TaskLeaves DEF Sane, SanitizerInv
  <2>2. \A j \in 1..n : j # n => j \in 1..(n - 1)
    BY <1>1
  <2>3. QED
    BY <1>1, <2>1, <2>2 DEF OutersStay, TopIsQuiet
<1>3. ASSUME NEW step \in {"stack", "cause", "errors", "own"}, Advance(step)
      PROVE  OutersStay /\ TopIsQuiet
  <2>1. PICK t : t = [Top EXCEPT !.step = step]
    OBVIOUS
  <2>2. t.step = step
    BY <2>1, TopIs DEF Tasks, Sane, SanitizerInv
  <2>3. tasks' = [tasks EXCEPT ![Len(tasks)] = t]
    BY <1>3, <2>1 DEF Advance, Top
  <2>4. QED
    BY <2>2, <2>3, TurnStays DEF TopGoesAs, TopIsQuiet
<1>4. ASSUME NEW t \in Tasks, NEW c, t.step = "errors", c = <<>> \/ \E x : c = <<x>>,
             tasks' = [tasks EXCEPT ![Len(tasks)] = t] \o c
      PROVE  OutersStay /\ TopIsQuiet
  BY <1>4, LinkStays DEF TopGoesAs, TopIsQuiet
<1>5. QED
  BY <1>2, <1>3, <1>4 DEF TurnsQuietly

\* A step that works on the node of the innermost call only.
Beside ==
  /\ \A v \in DOMAIN heap : v # Top.id => heap'[v] = heap[v]
  /\ \A i \in DOMAIN made' : i # Top.id => i \in DOMAIN made /\ made'[i] = made[i]
  /\ Top.id \in DOMAIN made' => made'[Top.id].tag # "list"

LEMMA RemadeBeside ==
  ASSUME Sane, Touches, NEW tag, tag # "list", Remade(tag)
  PROVE  Beside
BY DEF Remade, Touches, Beside

LEMMA KeptBeside ==
  ASSUME Sane, CallsInv, Top.step # "identify", heap' = heap \/ \E n : Store(n),
         made' = made \/ Lose
  PROVE  Beside
<1>1. PICK id : id = Top.id /\ id \in DOMAIN made /\ made[id].tag = "error"
  BY TopCall DEF CallOK, Sane, SanitizerInv
<1>2. \A v \in DOMAIN heap : v # id => heap'[v] = heap[v]
  <2>1. ASSUME NEW n, Store(n) PROVE \A v \in DOMAIN heap : v # id => heap'[v] = heap[v]
    BY <1>1, <2>1, Assigned DEF Store
  <2>2. QED
    BY <2>1
<1>3. DOMAIN made' = DOMAIN made /\ \A i \in DOMAIN made : i # id => made'[i] = made[i]
  BY <1>1 DEF Lose
<1>4. made'[id].tag = "error"
  <2>1. made[id] \in [from : AppValues, tag : Tags, level : Nat, lost : BOOLEAN]
    BY <1>1 DEF Sane, SanitizerInv, MadeInv
  <2>2. PICK m : m = [made[id] EXCEPT !.lost = TRUE]
    OBVIOUS
  <2>3. m.tag = "error"
    BY <1>1, <2>1, <2>2
  <2>4. Lose => made'[id] = m
    BY <1>1, <2>2 DEF Lose
  <2>5. QED
    BY <1>1, <2>3, <2>4
<1>5. QED
  BY <1>1, <1>2, <1>3, <1>4 DEF Beside

\* The outer lists stay as they are.
LEMMA OutersPend ==
  ASSUME Sane, Touches, PendingInv, CallsAre \/ CallsLeft,
         /\ Len(tasks) \in DOMAIN tasks' /\ CallGoes(tasks'[Len(tasks)])
         /\ tasks'[Len(tasks)].step = "members"
         => Pending(heap'[ListOf(Top.id)], tasks'[Len(tasks)].links, tasks'[Len(tasks)].left)
  PROVE  PendingInv'
<1> SUFFICES ASSUME NEW j \in DOMAIN tasks', tasks'[j].step = "members"
             PROVE  Pending(heap'[ListOf(tasks'[j].id)], tasks'[j].links, tasks'[j].left)
  BY DEF PendingInv
<1>1. ASSUME j \in DOMAIN tasks, j # Len(tasks), tasks'[j] = tasks[j]
      PROVE  Pending(heap'[ListOf(tasks'[j].id)], tasks'[j].links, tasks'[j].left)
  <2>1. PICK t : t = tasks[j] /\ t.step = "members" /\ TaskOK(t, heap, Len(stack))
                 /\ ListOf(t.id) \notin {Top.id, ListOf(Top.id)}
    BY <1>1, OuterListsAreKept DEF Sane, SanitizerInv
  <2>2. heap'[ListOf(t.id)] = heap[ListOf(t.id)]
    BY <2>1 DEF TaskOK, Touches
  <2>3. QED
    BY <1>1, <2>1, <2>2 DEF PendingInv
<1>2. CASE j = Len(tasks) /\ CallGoes(tasks'[j])
  BY <1>2 DEF CallGoes
<1>3. ~CallBegins(tasks'[j])
  BY DEF CallBegins
<1>4. QED
  BY <1>1, <1>2, <1>3 DEF CallsAre, CallShape, CallsLeft

\* So do the closed ones, where the step is not at a list.
LEMMA OthersStayClosed ==
  ASSUME Sane, OutersStay, NodesInv, ClosedInv,
         NEW i \in DOMAIN made', i \in DOMAIN made, made'[i] = made[i], made'[i].tag = "list",
         heap'[i] = heap[i], i # ListOf(Top.id) \/ Top.step # "members"
  PROVE  IsOpen(i)' \/ AddsUp(heap'[i])
<1>1. CASE AddsUp(heap[i])
  BY <1>1
<1>2. ASSUME NEW j \in DOMAIN tasks, tasks[j].step = "members", ListOf(tasks[j].id) = i
      PROVE  IsOpen(i)'
  <2>1. j # Len(tasks)
    BY <1>2, TopIs DEF Sane, SanitizerInv
  <2>2. QED
    BY <1>2, <2>1 DEF OutersStay, IsOpen
<1>3. QED
  BY <1>1, <1>2 DEF ClosedInv, IsOpen

LEMMA BesideAddsUp ==
  ASSUME Sane, Touches, CallsInv, NodesInv, PendingInv, ClosedInv, Beside, TurnsQuietly,
         CallsAre \/ CallsLeft, Top.step # "members"
  PROVE  PendingInv' /\ ClosedInv'
<1>1. OutersStay /\ TopIsQuiet
  BY QuietStays
<1>2. PendingInv'
  BY <1>1, OutersPend DEF TopIsQuiet
<1>3. ASSUME NEW i \in DOMAIN made', made'[i].tag = "list"
      PROVE  IsOpen(i)' \/ AddsUp(heap'[i])
  <2>1. i # Top.id /\ i \in DOMAIN made /\ made'[i] = made[i]
    BY <1>3 DEF Beside
  <2>2. heap'[i] = heap[i]
    BY <2>1 DEF Beside, NodesInv
  <2>3. QED
    BY <1>1, <1>3, <2>1, <2>2, OthersStayClosed
<1>4. QED
  BY <1>2, <1>3 DEF ClosedInv, IsOpen

LEMMA IdentifyBeside ==
  ASSUME Sane, Touches, Identify
  PROVE  Beside /\ TurnsQuietly /\ Top.step # "members"
<1>1. Opens \/ Closes
  BY IdentifyShape
<1>2. Beside
  BY <1>1, RemadeBeside DEF Opens, Closes
<1>3. Leave \/ Advance("stack")
  BY Zenon DEF Identify, Degrade
<1>4. Top.step = "identify"
  BY DEF Identify
<1>5. QED
  BY <1>2, <1>3, <1>4 DEF TurnsQuietly

LEMMA ReadStackBeside ==
  ASSUME Sane, Touches, CallsInv, ReadStack
  PROVE  Beside /\ TurnsQuietly /\ Top.step # "members"
<1>1. /\ Top.step = "stack"
      /\ \/ Degrade
         \/ /\ Advance("cause")
            /\ (\E n : Store(n)) \/ heap' = heap
            /\ made' = made \/ Lose
  BY Zenon DEF ReadStack
<1>2. CASE Degrade
  <2>1. Leave /\ Remade("failed")
    BY <1>2, RemadeIs DEF Degrade
  <2>2. Beside
    BY <2>1, RemadeBeside
  <2>3. QED
    BY <1>1, <2>1, <2>2 DEF TurnsQuietly
<1>3. CASE ~Degrade
  <2>1. Beside
    BY <1>1, <1>3, KeptBeside
  <2>2. QED
    BY <1>1, <1>3, <2>1 DEF TurnsQuietly
<1>4. QED
  BY <1>2, <1>3

LEMMA ReadCauseBeside ==
  ASSUME Sane, CallsInv, ReadCause
  PROVE  Beside /\ TurnsQuietly /\ Top.step # "members"
<1>1. PICK cause :
       \/ Lose /\ (\E n : Store(n)) /\ Advance("errors")
       \/ Advance("errors") /\ UNCHANGED <<heap, made>>
       \/ /\ \E n : Store(n)
          /\ \E c : tasks' = [tasks EXCEPT ![Len(tasks)].step = "errors"]
                               \o (IF Calls(cause) THEN <<c>> ELSE <<>>)
          /\ UNCHANGED made
  BY Zenon DEF ReadCause
<1>2. Top.step = "cause"
  BY DEF ReadCause
<1>3. Beside
  BY <1>1, <1>2, KeptBeside
<1>4. PICK t : t = [Top EXCEPT !.step = "errors"]
  OBVIOUS
<1>5. t \in Tasks /\ t.step = "errors"
  <2>1. "errors" \in TaskSteps
    BY DEF TaskSteps
  <2>2. QED
    BY <1>4, <2>1, TopIs DEF Tasks, Sane, SanitizerInv
<1>6. [tasks EXCEPT ![Len(tasks)].step = "errors"] = [tasks EXCEPT ![Len(tasks)] = t]
  BY <1>4 DEF Top
<1>7. TurnsQuietly
  <2>1. CASE Advance("errors")
    BY <2>1 DEF TurnsQuietly
  <2>2. ASSUME NEW c, tasks' = [tasks EXCEPT ![Len(tasks)].step = "errors"]
                                  \o (IF Calls(cause) THEN <<c>> ELSE <<>>)
        PROVE  TurnsQuietly
    <3>1. PICK d : d = IF Calls(cause) THEN <<c>> ELSE <<>>
      OBVIOUS
    <3>2. d = <<>> \/ \E x : d = <<x>>
      BY <3>1
    <3>3. tasks' = [tasks EXCEPT ![Len(tasks)] = t] \o d
      BY <1>6, <2>2, <3>1
    <3>4. QED
      BY <1>5, <3>2, <3>3 DEF TurnsQuietly
  <2>3. QED
    BY <1>1, <2>1, <2>2
<1>8. QED
  BY <1>2, <1>3, <1>7

LEMMA CopyBeside ==
  ASSUME Sane, CallsInv, CopyOwnFields
  PROVE  Beside /\ TurnsQuietly /\ Top.step # "members"
<1>1. /\ Top.step = "own" /\ Leave /\ \E n : Store(n)
      /\ made' = made \/ Lose
  BY Zenon DEF CopyOwnFields
<1>2. Beside
  BY <1>1, KeptBeside
<1>3. QED
  BY <1>1, <1>2 DEF TurnsQuietly

\* The list is begun: it will have the members that were read, and the count.
LEMMA ListBegun ==
  ASSUME Sane, Touches, CallsInv, NodesInv, SizesInv, PendingInv, ClosedInv,
         NEW errors \in DOMAIN heap, errors \notin NodeIds, heap[errors].kind = "array",
         ReadsTheList(errors), Top.step = "errors", CallsAre \/ CallsLeft
  PROVE  PendingInv' /\ ClosedInv'
<1>1. PICK reading \in Readings(errors, ShownPlaces(errors)) : \E cut \in Cut(errors) :
        LET carried == CarriedOmitted(cut)
        IN /\ heap' = Assign(Assign(heap, Top.id, With(Built, "errors", ListId)),
                             ListId, [NewList EXCEPT !.size = heap[errors].size])
           /\ made' = Assign(made, ListId,
                        [from |-> errors, tag |-> "list", level |-> Top.level, lost |-> FALSE])
           /\ tasks' = [tasks EXCEPT
                ![Len(tasks)].step  = "members",
                ![Len(tasks)].links = [i \in 1..MinOf(Len(heap[errors].keys), MaxAggregate) |->
                                         reading[Indexes[i]]],
                ![Len(tasks)].left  = IF carried > 0 THEN carried
                                      ELSE Len(heap[errors].keys) - MaxAggregate]
  BY Zenon DEF ReadsTheList
<1>4. PICK shown \in Seq(AppValues) :
        /\ shown = [i \in 1..MinOf(Len(heap[errors].keys), MaxAggregate) |-> reading[Indexes[i]]]
        /\ Len(shown) = MinOf(Len(heap[errors].keys), MaxAggregate)
  BY MembersAre DEF Sane, SanitizerInv
<1>17. PICK cut \in Cut(errors) :
        LET carried == CarriedOmitted(cut)
        IN /\ heap' = Assign(Assign(heap, Top.id, With(Built, "errors", ListId)),
                             ListId, [NewList EXCEPT !.size = heap[errors].size])
           /\ made' = Assign(made, ListId,
                        [from |-> errors, tag |-> "list", level |-> Top.level, lost |-> FALSE])
           /\ tasks' = [tasks EXCEPT
                ![Len(tasks)].step  = "members",
                ![Len(tasks)].links = shown,
                ![Len(tasks)].left  = IF carried > 0 THEN carried
                                      ELSE Len(heap[errors].keys) - MaxAggregate]
  BY <1>1, <1>4
<1>19. PICK left : left = IF CarriedOmitted(cut) > 0 THEN CarriedOmitted(cut)
                          ELSE Len(heap[errors].keys) - MaxAggregate
  OBVIOUS
<1>2. /\ heap' = Assign(Assign(heap, Top.id, With(Built, "errors", ListId)),
                        ListId, [NewList EXCEPT !.size = heap[errors].size])
      /\ made' = Assign(made, ListId,
                   [from |-> errors, tag |-> "list", level |-> Top.level, lost |-> FALSE])
      /\ tasks' = [tasks EXCEPT
           ![Len(tasks)].step  = "members",
           ![Len(tasks)].links = shown,
           ![Len(tasks)].left  = left]
  BY <1>17, <1>19, Zenon
<1>3. PICK size \in Nat : size = heap[errors].size
  BY ObjectsAre DEF Sane, SanitizerInv
<1>5. /\ left \in Int
      /\ MinOf(Len(heap[errors].keys), MaxAggregate) + (IF left > 0 THEN left ELSE 0) = size
  <2>1. SizeIsTrue(heap[errors])
    BY DEF SizesInv
  <2>2. QED
    BY <1>19, <1>3, <2>1, ShownAndLeft DEF Sane, SanitizerInv
<1>6. PICK list \in NodeIds : list = ListId /\ list = ListOf(Top.id) /\ list # Top.id
  <2>1. ListId = ListOf(Top.id) /\ Top.id \in NodeIds /\ Top.id # ListOf(Top.id)
    BY TopCall DEF ListId, ListOf, Sane, SanitizerInv
  <2>2. QED
    BY <2>1, ListOfIs
<1>7. PICK new : new = [NewList EXCEPT !.size = size]
  OBVIOUS
<1>8. new.keys = <<>> /\ DOMAIN new.field = {} /\ new.size = size
  BY <1>7 DEF NewList, Node
<1>9. heap'[list] = new
  BY <1>2, <1>3, <1>6, <1>7, ListStored DEF Sane, SanitizerInv
<1>10. Pending(heap'[list], shown, left)
  <2>1. Len(new.keys) = 0 /\ Plain(new) /\ \A j \in 1..Len(new.keys) : new.keys[j] = Indexes[j]
    BY <1>8 DEF Plain
  <2>2. PICK z \in Nat : z = Len(shown)
    BY LenProperties
  <2>3. 0 + z + (IF left > 0 THEN left ELSE 0) = size
    BY <1>3, <1>4, <1>5, <2>2
  <2>4. QED
    BY <1>8, <1>9, <2>1, <2>2, <2>3 DEF Pending
<1>11. PICK t : t = [Top EXCEPT !.step = "members", !.links = shown, !.left = left]
  OBVIOUS
<1>12. t.id = Top.id /\ t.step = "members" /\ t.links = shown /\ t.left = left
  BY <1>11, TopIs DEF Tasks, Sane, SanitizerInv
<1>13. OutersStay /\ TopGoesAs(t)
  <2>1. tasks' = [tasks EXCEPT ![Len(tasks)] = t]
    BY <1>2, <1>11 DEF Top
  <2>2. QED
    BY <2>1, TurnStays
<1>14. PendingInv'
  BY <1>6, <1>10, <1>12, <1>13, OutersPend DEF TopGoesAs
<1>15. ASSUME NEW i \in DOMAIN made', made'[i].tag = "list"
       PROVE  IsOpen(i)' \/ AddsUp(heap'[i])
  <2>1. CASE i = list
    BY <1>6, <1>12, <1>13, <2>1 DEF TopGoesAs, IsOpen
  <2>2. CASE i # list
    <3>1. PICK m : made' = Assign(made, list, m)
      BY <1>2, <1>6
    <3>2. i \in DOMAIN made /\ made'[i] = made[i]
      BY <2>2, <3>1, Assigned
    <3>3. i # Top.id
      <4>1. made[Top.id].tag = "error"
        BY TopCall DEF CallOK, Sane, SanitizerInv
      <4>2. QED
        BY <1>15, <3>2, <4>1
    <3>4. heap'[i] = heap[i]
      BY <1>6, <2>2, <3>2, <3>3 DEF Touches, NodesInv
    <3>5. QED
      BY <1>6, <1>13, <1>15, <2>2, <3>2, <3>4, OthersStayClosed
  <2>3. QED
    BY <2>1, <2>2
<1>16. QED
  BY <1>14, <1>15 DEF ClosedInv, IsOpen

LEMMA ReadErrorsAddsUp ==
  ASSUME Sane, Touches, CallsInv, NodesInv, SizesInv, PendingInv, ClosedInv, ReadErrors
  PROVE  PendingInv' /\ ClosedInv'
<1>1. PICK errors \in Read(Top.from, "errors") :
       \/ Degrade
       \/ Advance("own") /\ UNCHANGED <<heap, made>>
       \/ IsArray(errors) /\ ReadsTheList(errors)
  BY DEF ReadErrors, ReadsTheList
<1>2. Top.step = "errors" /\ MadeTop
  BY TopCall DEF ReadErrors, Sane, SanitizerInv
<1>3. CallsAre \/ CallsLeft
  BY <1>2, ReadErrorsShape DEF Fills, Closes
<1>4. CASE Degrade
  <2>1. Leave /\ Remade("failed")
    BY <1>4, CallCloses, RemadeIs DEF Degrade
  <2>2. Beside
    BY <2>1, RemadeBeside
  <2>3. QED
    BY <1>2, <1>3, <2>1, <2>2, BesideAddsUp DEF TurnsQuietly
<1>5. CASE Advance("own") /\ UNCHANGED <<heap, made>>
  <2>1. Beside
    BY <1>2, <1>5, KeptBeside
  <2>2. QED
    BY <1>2, <1>3, <1>5, <2>1, BesideAddsUp DEF TurnsQuietly
<1>6. CASE IsArray(errors) /\ ReadsTheList(errors)
  <2>1. Top.from \in DOMAIN heap /\ Top.from \notin NodeIds
    BY <1>2, BuiltIs DEF Sane, SanitizerInv
  <2>2. errors \in AppValues
    BY <1>1, <2>1, ReadsAre DEF Sane, SanitizerInv
  <2>3. errors \in DOMAIN heap /\ errors \notin NodeIds /\ heap[errors].kind = "array"
    BY <1>6, <2>2, ValuesApart DEF IsArray, IsKind, IsObject
  <2>4. QED
    BY <1>2, <1>3, <1>6, <2>3, ListBegun
<1>7. QED
  BY <1>1, <1>4, <1>5, <1>6

\* What stands for a link is no count.
LEMMA ChildIsNoCount ==
  ASSUME NEW v, NEW route
  PROVE  Child(v, route) \notin WidthMarkers
<1>1. \A m \in WidthMarkers : DOMAIN m = {"marker", "omitted"}
  BY DEF WidthMarkers, WidthMarker
<1>2. \A b, r : DOMAIN Id(b, r) = {"base", "route"}
  BY DEF Id
<1>3. {"base", "route"} # {"marker", "omitted"}
  OBVIOUS
<1>4. DepthMarker \notin WidthMarkers
  BY WidthsAre
<1>5. Text \notin WidthMarkers
  BY WidthsAre, ValuesApart DEF Primitives
<1>6. \A b, r : Id(b, r) \notin WidthMarkers
  BY <1>1, <1>2, <1>3
<1>7. QED
  BY <1>4, <1>5, <1>6 DEF Child

\* The list of the innermost call, which has a place left.
LEMMA ListHasAPlace ==
  ASSUME Sane, PendingInv, Top.step = "members"
  PROVE  \E list \in NodeIds, n \in Nat, m \in Nat :
           /\ list = ListId /\ list = ListOf(Top.id) /\ list \in DOMAIN heap
           /\ LibraryNode(heap[list]) /\ Pending(heap[list], Top.links, Top.left)
           /\ n = Len(heap[list].keys) /\ m = Len(Top.links) /\ n + m <= MaxAggregate
           /\ n < Len(Indexes) /\ Place = Indexes[n + 1]
<1>1. PICK list \in NodeIds : list = ListId /\ list = ListOf(Top.id) /\ list \in DOMAIN heap
  BY TopIs, ListOfIs DEF ListId, ListOf, TaskOK, Sane, SanitizerInv
<1>2. PICK n \in Nat : n = Len(heap[list].keys)
  BY <1>1, ObjectsAre, LenProperties DEF Sane, SanitizerInv
<1>3. PICK m \in Nat : m = Len(Top.links)
  BY TopIs, LenProperties DEF Sane, SanitizerInv
<1>4. n + m <= MaxAggregate
  BY <1>1, <1>2, <1>3, TopIs DEF TaskOK, Sane, SanitizerInv
<1>5. n < Len(Indexes)
  BY <1>4, IndexesAre
<1>6. Place = Indexes[n + 1]
  BY <1>1, <1>2 DEF Place
<1>7. LibraryNode(heap[list])
  BY <1>1 DEF HeapInv, Sane, SanitizerInv
<1>8. Pending(heap[list], Top.links, Top.left)
  <2>1. Len(tasks) \in DOMAIN tasks
    BY TopIs DEF Sane, SanitizerInv
  <2>2. QED
    BY <1>1, <2>1 DEF PendingInv, Top
<1>9. QED
  BY <1>1, <1>2, <1>3, <1>4, <1>5, <1>6, <1>7, <1>8

\* A step at the list leaves the other lists as they are.
LEMMA ListTurns ==
  ASSUME Sane, Touches, NodesInv, ClosedInv, OutersStay, made' = made,
         NEW list, list = ListOf(Top.id),
         \A x \in DOMAIN heap : x # list => heap'[x] = heap[x],
         IsOpen(list)' \/ AddsUp(heap'[list])
  PROVE  ClosedInv'
<1>1. ASSUME NEW i \in DOMAIN made', made'[i].tag = "list", i # list
      PROVE  IsOpen(i)' \/ AddsUp(heap'[i])
  <2>1. i \in DOMAIN made /\ made'[i] = made[i]
    BY <1>1
  <2>2. heap'[i] = heap[i]
    BY <1>1, <2>1 DEF NodesInv
  <2>3. QED
    BY <1>1, <2>1, <2>2, OthersStayClosed
<1>2. QED
  BY <1>1 DEF ClosedInv, IsOpen

LEMMA VisitMemberAddsUp ==
  ASSUME Sane, Touches, CallsInv, NodesInv, PendingInv, ClosedInv, VisitMember
  PROVE  PendingInv' /\ ClosedInv'
<1>1. PICK v : v = Head(Top.links)
  OBVIOUS
<1>2. PICK child : child = Child(v, <<"errors", Place>>)
  OBVIOUS
<1>3. /\ Top.step = "members" /\ Top.links # <<>> /\ made' = made
      /\ heap' = [heap EXCEPT ![ListId] = With(@, Place, child)]
      /\ tasks' = [tasks EXCEPT ![Len(tasks)].links = Tail(@)]
                    \o (IF Calls(v) THEN <<Task(v, child, Top.level + 1)>> ELSE <<>>)
  BY <1>1, <1>2 DEF VisitMember
<1>4. PICK list \in NodeIds, n \in Nat, m \in Nat :
           /\ list = ListId /\ list = ListOf(Top.id) /\ list \in DOMAIN heap
           /\ LibraryNode(heap[list]) /\ Pending(heap[list], Top.links, Top.left)
           /\ n = Len(heap[list].keys) /\ m = Len(Top.links) /\ n + m <= MaxAggregate
           /\ n < Len(Indexes) /\ Place = Indexes[n + 1]
  BY <1>3, ListHasAPlace
<1>5. PICK links_ \in Seq(AppValues) : links_ = Top.links
  BY TopIs DEF Sane, SanitizerInv
<1>6. Tail(links_) \in Seq(AppValues) /\ Len(Tail(links_)) = Len(links_) - 1
  BY <1>3, <1>5, HeadTailProperties
<1>7. PICK t : t = [Top EXCEPT !.links = Tail(links_)]
  OBVIOUS
<1>8. /\ t \in Tasks /\ t.id = Top.id /\ t.step = "members"
      /\ t.links = Tail(links_) /\ t.left = Top.left
  BY <1>3, <1>6, <1>7, TopIs DEF Tasks, Sane, SanitizerInv
<1>9. OutersStay /\ TopGoesAs(t)
  <2>1. PICK c : c = IF Calls(v) THEN <<Task(v, child, Top.level + 1)>> ELSE <<>>
    OBVIOUS
  <2>2. c = <<>> \/ \E x : c = <<x>>
    BY <2>1
  <2>3. [tasks EXCEPT ![Len(tasks)].links = Tail(@)] = [tasks EXCEPT ![Len(tasks)] = t]
    BY <1>5, <1>7 DEF Top
  <2>4. tasks' = [tasks EXCEPT ![Len(tasks)] = t] \o c
    BY <1>3, <2>1, <2>3
  <2>5. QED
    BY <1>8, <2>2, <2>4, LinkStays
<1>10. /\ heap'[list] = With(heap[list], Place, child)
       /\ \A x \in DOMAIN heap : x # list => heap'[x] = heap[x]
  BY <1>3, <1>4
<1>11. Pending(heap'[list], Tail(links_), Top.left)
  <2>1. child \notin WidthMarkers
    BY <1>2, ChildIsNoCount
  <2>2. PICK old, p, w : old = heap[list] /\ p = Place /\ w = With(old, p, child)
    OBVIOUS
  <2>3. Pending(old, links_, Top.left) /\ LibraryNode(old) /\ n = Len(old.keys)
    BY <1>4, <1>5, <2>2
  <2>4. p = Indexes[Len(old.keys) + 1] /\ Len(old.keys) < Len(Indexes)
    BY <1>4, <2>2, <2>3
  <2>11. Plain(old) /\ \A j \in 1..Len(old.keys) : old.keys[j] = Indexes[j]
    BY <2>3 DEF Pending
  <2>5. /\ Len(w.keys) = Len(old.keys) + 1 /\ w.size = old.size
        /\ \A j \in 1..Len(w.keys) : w.keys[j] = Indexes[j]
        /\ Plain(w)
    <3>1. HasAPlace(old) /\ w = With(old, p, child)
      BY <2>2, <2>3, <2>4, <2>11 DEF HasAPlace
    <3>2. Gained(old, child, w)
      BY <2>4, <3>1, ListGains
    <3>3. QED
      BY <2>1, <3>2 DEF Gained
  <2>6. PICK l \in Int : l = IF Top.left > 0 THEN Top.left ELSE 0
    BY TopIs DEF Sane, SanitizerInv
  <2>7. n + m + l = old.size /\ Len(w.keys) = n + 1 /\ Len(Tail(links_)) = m - 1
    BY <1>4, <1>5, <1>6, <2>3, <2>5, <2>6 DEF Pending
  <2>8. Len(w.keys) + Len(Tail(links_)) + l = w.size
    <3>1. n \in Nat /\ m \in Nat /\ l \in Int
      BY <1>4, <2>6
    <3>2. (n + 1) + (m - 1) + l = n + m + l
      BY <3>1
    <3>3. QED
      BY <2>5, <2>7, <3>2
  <2>9. heap'[list] = w
    BY <1>10, <2>2
  <2>10. QED
    BY <2>5, <2>6, <2>8, <2>9 DEF Pending
<1>12. PendingInv'
  <2>1. CallsAre \/ CallsLeft
    BY TopCall, VisitMemberShape DEF Fills, Sane, SanitizerInv
  <2>2. QED
    BY <1>4, <1>8, <1>9, <1>11, <2>1, OutersPend DEF TopGoesAs
<1>13. IsOpen(list)'
  BY <1>4, <1>8, <1>9 DEF TopGoesAs, IsOpen
<1>14. QED
  BY <1>3, <1>4, <1>9, <1>10, <1>12, <1>13, ListTurns

LEMMA MembersDoneAddsUp ==
  ASSUME Sane, Touches, CallsInv, NodesInv, PendingInv, ClosedInv, MembersDone
  PROVE  PendingInv' /\ ClosedInv'
<1>1. /\ Top.step = "members" /\ Top.links = <<>> /\ Advance("own") /\ made' = made
      /\ heap' = IF Top.left > 0
                 THEN [heap EXCEPT ![ListId] = With(@, Place, WidthMarker(Top.left))]
                 ELSE heap
  BY DEF MembersDone
<1>2. PICK list \in NodeIds, n \in Nat, m \in Nat :
           /\ list = ListId /\ list = ListOf(Top.id) /\ list \in DOMAIN heap
           /\ LibraryNode(heap[list]) /\ Pending(heap[list], Top.links, Top.left)
           /\ n = Len(heap[list].keys) /\ m = Len(Top.links) /\ n + m <= MaxAggregate
           /\ n < Len(Indexes) /\ Place = Indexes[n + 1]
  BY <1>1, ListHasAPlace
<1>3. m = 0
  <2>1. Len(<<>>) = 0
    OBVIOUS
  <2>2. QED
    BY <1>1, <1>2, <2>1
<1>4. OutersStay /\ TopIsQuiet
  BY <1>1, QuietStays DEF TurnsQuietly
<1>5. PendingInv'
  <2>1. CallsAre \/ CallsLeft
    BY TopCall, MembersDoneShape DEF Fills, Sane, SanitizerInv
  <2>2. QED
    BY <1>4, <2>1, OutersPend DEF TopIsQuiet
<1>6. \A x \in DOMAIN heap : x # list => heap'[x] = heap[x]
  BY <1>1, <1>2
<1>7. PICK old : old = heap[list]
  OBVIOUS
<1>8. Pending(old, Top.links, Top.left) /\ LibraryNode(old) /\ n = Len(old.keys)
  BY <1>2, <1>7
<1>9. PICK left \in Int : left = Top.left
  BY TopIs DEF Sane, SanitizerInv
<1>10. AddsUp(heap'[list])
  <2>1. CASE left > 0
    <3>1. left \in 1..MaxOmitted
      BY <1>1, <1>9, <2>1, TopIs, IndexesAre DEF TaskOK, Sane, SanitizerInv
    <3>2. PICK p, w : p = Place /\ w = With(old, p, WidthMarker(left))
      OBVIOUS
    <3>3. heap'[list] = w
      BY <1>1, <1>2, <1>7, <1>9, <2>1, <3>2
    <3>4. p = Indexes[Len(old.keys) + 1] /\ Len(old.keys) < Len(Indexes)
      BY <1>2, <1>8, <3>2
    <3>9. Plain(old) /\ \A j \in 1..Len(old.keys) : old.keys[j] = Indexes[j]
      BY <1>8 DEF Pending
    <3>5. Len(w.keys) = Len(old.keys) + 1 /\ w.size = old.size /\ Counts(w, left)
      <4>1. HasAPlace(old) /\ w = With(old, p, WidthMarker(left))
        BY <1>8, <3>2, <3>4, <3>9 DEF HasAPlace
      <4>2. Gained(old, WidthMarker(left), w)
        BY <3>4, <4>1, ListGains
      <4>3. QED
        BY <4>2 DEF Gained
    <3>6. n + left = old.size
      BY <1>2, <1>3, <1>8, <1>9, <2>1 DEF Pending
    <3>7. Len(w.keys) - 1 + left = w.size
      BY <1>8, <1>9, <3>5, <3>6
    <3>8. QED
      BY <3>1, <3>3, <3>5, <3>7 DEF AddsUp
  <2>2. CASE ~(left > 0)
    <3>1. heap'[list] = old
      BY <1>1, <1>7, <1>9, <2>2
    <3>2. n = old.size
      BY <1>2, <1>3, <1>8, <1>9, <2>2 DEF Pending
    <3>3. QED
      BY <1>8, <3>1, <3>2 DEF AddsUp, Pending
  <2>3. QED
    BY <2>1, <2>2
<1>11. QED
  BY <1>1, <1>2, <1>4, <1>5, <1>6, <1>10, ListTurns

AddsUpInv == SizesInv /\ PendingInv /\ ClosedInv

LEMMA AddsUpSanitize ==
  ASSUME Types, CallsInv, NodesInv, AddsUpInv, Sanitize
  PROVE  PendingInv' /\ ClosedInv'
<1>1. Sane /\ SanitizerStep /\ Touches
  BY StepIsSane
<1>2. SizesInv /\ PendingInv /\ ClosedInv
  BY DEF AddsUpInv
<1>3. CallsAre \/ CallsLeft
  BY <1>1, SanitizerShape, TopCall DEF Opens, Closes, Fills, Sane, SanitizerInv
<1>4. ASSUME Beside, TurnsQuietly, Top.step # "members"
      PROVE  PendingInv' /\ ClosedInv'
  BY <1>1, <1>2, <1>3, <1>4, BesideAddsUp
<1>5. CASE Identify
  BY <1>1, <1>4, <1>5, IdentifyBeside
<1>6. CASE ReadStack
  BY <1>1, <1>4, <1>6, ReadStackBeside
<1>7. CASE ReadCause
  BY <1>1, <1>4, <1>7, ReadCauseBeside
<1>8. CASE ReadErrors
  BY <1>1, <1>2, <1>8, ReadErrorsAddsUp
<1>9. CASE VisitMember
  BY <1>1, <1>2, <1>9, VisitMemberAddsUp
<1>10. CASE MembersDone
  BY <1>1, <1>2, <1>10, MembersDoneAddsUp
<1>11. CASE CopyOwnFields
  BY <1>1, <1>4, <1>11, CopyBeside
<1>12. QED
  BY <1>1, <1>5, <1>6, <1>7, <1>8, <1>9, <1>10, <1>11 DEF SanitizerStep

\* The walk calls for no list, and leaves those there are.
LEMMA AddsUpWalk ==
  ASSUME Types, NodesInv, AddsUpInv, [Next]_vars, ~Sanitize
  PROVE  PendingInv' /\ ClosedInv'
<1>1. CASE UNCHANGED vars
  <2>1. tasks' = tasks /\ made' = made /\ heap' = heap
    BY <1>1 DEF vars, sanitizerVars
  <2>2. QED
    BY <2>1 DEF AddsUpInv, PendingInv, ClosedInv, IsOpen
<1>2. CASE ~UNCHANGED vars
  <2>1. tasks = <<>> /\ \A j \in DOMAIN tasks' : tasks'[j].step # "members"
    <3>1. CASE CatchError
      <4>1. Walking /\ StartSanitizing(F.value, Len(stack)) /\ ~Sanitizing
        BY <3>1 DEF Walking, Unwinding, CatchError, Types, TasksInv
      <4>2. PICK n \in Nat : n = Len(stack)
        BY <4>1, WalkingIs
      <4>3. PICK t : t = Task(F.value, Id(n, <<>>), 0)
        OBVIOUS
      <4>4. tasks' = <<t>>
        BY <4>1, <4>2, <4>3, StartIs, WalkingIs
      <4>5. t.step = "identify"
        BY <4>3 DEF Task
      <4>6. DOMAIN tasks' = {1} /\ tasks'[1] = t
        BY <4>4
      <4>7. QED
        BY <4>1, <4>5, <4>6 DEF Sanitizing
    <3>2. CASE ~CatchError
      BY <1>2, <3>2, CallsOfWalk
    <3>3. QED
      BY <3>1, <3>2
  <2>2. PendingInv'
    BY <2>1 DEF PendingInv
  <2>3. ASSUME NEW i \in DOMAIN made', made'[i].tag = "list"
        PROVE  AddsUp(heap'[i])
    <3>1. i \in DOMAIN made /\ made'[i] = made[i] /\ (i \in DOMAIN heap /\ NotCapped(i) => NodeStays(i))
      BY WalkLeavesNodes DEF WalkLeaves
    <3>2. i \in DOMAIN heap /\ NotCapped(i) /\ i.route # <<>>
      BY <2>3, <3>1 DEF NodesInv, NodeOK
    <3>3. heap'[i] = heap[i]
      BY <3>1, <3>2 DEF NodeStays
    <3>4. ~IsOpen(i)
      BY <2>1 DEF IsOpen
    <3>5. AddsUp(heap[i])
      BY <2>3, <3>1, <3>4 DEF AddsUpInv, ClosedInv
    <3>6. QED
      BY <3>3, <3>5
  <2>4. QED
    BY <2>2, <2>3 DEF ClosedInv
<1>3. QED
  BY <1>1, <1>2

LEMMA AddsUpNext ==
  ASSUME Types, CallsInv, NodesInv, AddsUpInv, [Next]_vars
  PROVE  AddsUpInv'
<1>1. SizesInv'
  <2>1. ASSUME NEW v \in DOMAIN heap', v \notin NodeIds
        PROVE  v \in DOMAIN heap /\ heap'[v] = heap[v]
    BY <2>1, StepKeepsNodes DEF GraphKept
  <2>2. QED
    BY <2>1 DEF AddsUpInv, SizesInv
<1>2. PendingInv' /\ ClosedInv'
  BY AddsUpSanitize, AddsUpWalk
<1>3. QED
  BY <1>1, <1>2 DEF AddsUpInv

LEMMA AddsUpInit == Init => AddsUpInv
<1> SUFFICES ASSUME Init PROVE AddsUpInv
  OBVIOUS
<1>1. DOMAIN made = {}
  BY DEF Init
<1>2. \A j \in DOMAIN tasks : tasks[j].step # "members"
  <2>1. CASE tasks = <<>>
    BY <2>1
  <2>2. CASE tasks = <<Task(Thrown, Id(0, <<>>), 0)>>
    <3>1. PICK t : t = Task(Thrown, Id(0, <<>>), 0)
      OBVIOUS
    <3>2. t.step = "identify"
      BY <3>1 DEF Task
    <3>3. DOMAIN tasks = {1} /\ tasks[1] = t
      BY <2>2, <3>1
    <3>4. QED
      BY <3>2, <3>3
  <2>3. QED
    BY <2>1, <2>2, Zenon DEF Init
<1>3. SizesInv
  <2>1. PICK h \in Heaps : heap = Over(h, LibraryNodes)
    BY DEF Init
  <2>2. ASSUME NEW v \in DOMAIN heap, v \notin NodeIds, heap[v].kind = "array"
        PROVE  SizeIsTrue(heap[v])
    <3>1. CASE v \in DOMAIN h
      <4>1. heap[v] = h[v]
        BY <2>1, <3>1 DEF Over
      <4>2. QED
        BY <2>2, <3>1, <4>1, SizeAssumption
    <3>2. CASE v \notin DOMAIN h
      <4>1. v \in DOMAIN LibraryNodes /\ heap[v] = LibraryNodes[v]
        BY <2>1, <3>2 DEF Over
      <4>2. LibraryNodes[v].kind = "object"
        <5>1. \A keys, field : Node("object", keys, field).kind = "object"
          BY DEF Node
        <5>2. v \in DOMAIN MarkerNodes \/ v = CommandName
          BY <4>1 DEF LibraryNodes, Assign
        <5>3. \E keys, field : LibraryNodes[v] = Node("object", keys, field)
          BY <4>1, <5>2, Zenon DEF LibraryNodes, MarkerNodes, Assign
        <5>4. QED
          BY <5>1, <5>3
      <4>3. QED
        BY <2>2, <4>1, <4>2
    <3>3. QED
      BY <3>1, <3>2
  <2>3. QED
    BY <2>2 DEF SizesInv
<1>4. QED
  BY <1>1, <1>2, <1>3 DEF AddsUpInv, PendingInv, ClosedInv

\* A list that adds up has at most one count, and it is what is left out.
LEMMA SumsAreTrue ==
  ASSUME Types, NodesInv, AddsUpInv
  PROVE  OmittedMembersAddUp
<1> SUFFICES ASSUME ~Sanitizing, NEW i \in DOMAIN made, made[i].tag = "list", i \in DOMAIN heap
             PROVE
    LET answers == {CHOOSE v \in heap[i].field[k] : TRUE : k \in Members(i)}
        left    == {v \in answers : v \in Markers \ {DepthMarker}}
    IN IF left = {} THEN Len(heap[i].keys) = heap[i].size
       ELSE Len(heap[i].keys) - 1 + (CHOOSE v \in left : TRUE).omitted = heap[i].size
  BY Zenon DEF OmittedMembersAddUp
<1> DEFINE answers == {CHOOSE v \in heap[i].field[k] : TRUE : k \in Members(i)}
           left    == {v \in answers : v \in Markers \ {DepthMarker}}
<1>1. PICK n : n = heap[i]
  OBVIOUS
<1>2. AddsUp(n)
  <2>1. tasks = <<>>
    BY DEF Sanitizing
  <2>2. ~IsOpen(i)
    BY <2>1 DEF IsOpen
  <2>3. QED
    BY <1>1, <2>2 DEF AddsUpInv, ClosedInv
<1>3. Members(i) = DOMAIN n.field
  <2>1. LibraryNode(n)
    BY <1>1 DEF Types, MadeInv, HeapInv
  <2>2. QED
    BY <1>1, <2>1 DEF LibraryNode, Elements, Members
<1>4. \A x : x \in left <=> x \in WidthMarkers /\ x \in answers
  BY WidthsAre
<1>5. \A x : x \in answers <=> \E k \in DOMAIN n.field : x = CHOOSE v \in n.field[k] : TRUE
  BY <1>1, <1>3
<1> HIDE DEF answers, left
<1>6. \A s, a : s = {a} => (CHOOSE v \in s : TRUE) = a
  OBVIOUS
<1>7. CASE Plain(n) /\ Len(n.keys) = n.size
  <2>1. ASSUME NEW x \in left PROVE FALSE
    <3>1. PICK k \in DOMAIN n.field : x = CHOOSE v \in n.field[k] : TRUE
      BY <1>4, <1>5
    <3>2. PICK a : n.field[k] = {a} /\ a \notin WidthMarkers
      BY <1>7 DEF Plain
    <3>3. x = a
      BY <1>6, <3>1, <3>2
    <3>4. QED
      BY <1>4, <3>2, <3>3
  <2>2. left = {}
    BY <2>1
  <2>3. QED
    BY <1>1, <1>7, <2>2 DEF left, answers
<1>8. ASSUME NEW w \in 1..MaxOmitted, Counts(n, w), Len(n.keys) - 1 + w = n.size
      PROVE  left # {} /\ Len(heap[i].keys) - 1 + (CHOOSE v \in left : TRUE).omitted = heap[i].size
  <2>1. PICK m : m = WidthMarker(w) /\ m \in WidthMarkers /\ m.omitted = w
    BY WidthsAre
  <2>2. m \in left
    <3>1. PICK k \in DOMAIN n.field : n.field[k] = {m}
      BY <1>8, <2>1 DEF Counts
    <3>2. m = CHOOSE v \in n.field[k] : TRUE
      BY <1>6, <3>1
    <3>3. QED
      BY <1>4, <1>5, <2>1, <3>2
  <2>3. ASSUME NEW x \in left PROVE x = m
    <3>1. PICK k \in DOMAIN n.field : x = CHOOSE v \in n.field[k] : TRUE
      BY <1>4, <1>5
    <3>2. PICK a : n.field[k] = {a} /\ (a \in WidthMarkers => a = m)
      BY <1>8, <2>1 DEF Counts
    <3>3. x = a
      BY <1>6, <3>1, <3>2
    <3>4. QED
      BY <1>4, <3>2, <3>3
  <2>4. left = {m}
    BY <2>2, <2>3
  <2>5. (CHOOSE v \in left : TRUE) = m
    BY <1>6, <2>4
  <2>6. QED
    BY <1>1, <1>8, <2>1, <2>2, <2>5
<1>9. QED
  <2>1. CASE Plain(n) /\ Len(n.keys) = n.size
    BY <1>7, <2>1
  <2>2. ASSUME NEW w \in 1..MaxOmitted, Counts(n, w) /\ Len(n.keys) - 1 + w = n.size
        PROVE  left # {} /\ Len(heap[i].keys) - 1 + (CHOOSE v \in left : TRUE).omitted = heap[i].size
    BY <1>8, <2>2
  <2>3. CASE left # {} /\ Len(heap[i].keys) - 1 + (CHOOSE v \in left : TRUE).omitted = heap[i].size
    BY <2>3 DEF left, answers
  <2>4. QED
    BY <1>2, <2>1, <2>2, <2>3 DEF AddsUp

\* What a node does not show, it says it does not show: a part that could not be read leaves a
\* mark, and the members of a list, those shown and those its last place counts, are as many as
\* the application's list had, whether or not the walk had capped that one before
\* (markIncomplete; carriedOmitted and readAggregatedErrors of toSanitizedError).
THEOREM NothingIsLost == Spec => []NothingIsLostSilently
<1> DEFINE Inv == Types /\ CallsInv /\ NodesInv /\ FormsInv /\ AddsUpInv
<1>1. Init => Inv
  BY InitTypes, NodesInit, AddsUpInit
<1>2. Inv /\ [Next]_vars => Inv'
  BY NextTypes, CallsNext, NodesNext, AddsUpNext
<1>3. Inv => OmittedMembersAddUp
  BY SumsAreTrue
<1>4. Spec => []OmittedMembersAddUp
  <2> HIDE DEF Inv
  <2>1. QED
    BY <1>1, <1>2, <1>3, PTL DEF Spec
<1>5. QED
  BY <1>4, LossesAreVisible, PTL DEF NothingIsLostSilently
=============================================================================
