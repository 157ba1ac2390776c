-------------------------- MODULE RedactionWalkProofs --------------------------
(***************************************************************************)
(* The complete type invariant of the redaction walk and of the sanitizer  *)
(* it calls, the lemmas about the operators they are built from, and what  *)
(* a step leaves alone, writes and calls.                                  *)
(***************************************************************************)
EXTENDS RedactionWalk, WellFoundedInduction, SequenceTheorems, TLAPS

LEMMA LeastNumber ==
  ASSUME NEW T, T \subseteq Nat, T # {}
  PROVE  \E n \in T : \A m \in T : ~ m < n
<1>1. OpToRel(<, Nat) = {ss \in Nat \X Nat : ss[1] < ss[2]}
  BY DEF OpToRel
<1>2. IsWellFoundedOn({ss \in Nat \X Nat : ss[1] < ss[2]}, Nat)
  BY <1>1, NatLessThanWellFounded
<1>3. PICK n \in T : \A m \in T : <<m, n>> \notin {ss \in Nat \X Nat : ss[1] < ss[2]}
  BY <1>2, WFMin
<1>4. QED
  BY <1>3

\* Induction up to a number, over a set.
LEMMA UpTo ==
  ASSUME NEW G, NEW m \in Nat, 0 \in G,
         \A n \in Nat : n < m /\ n \in G => n + 1 \in G
  PROVE  m \in G
<1> DEFINE T == {n \in 0..m : n \notin G}
<1>1. SUFFICES ASSUME m \notin G PROVE FALSE
  OBVIOUS
<1>2. T \subseteq Nat /\ T # {}
  BY <1>1
<1>3. PICK n \in T : \A k \in T : ~ k < n
  <2> HIDE DEF T
  <2>1. QED
    BY <1>2, LeastNumber
<1>4. n \in 1..m
  BY <1>3
<1>5. n - 1 \in 0..m /\ n - 1 < n /\ n - 1 \notin T
  BY <1>3, <1>4
<1>6. n - 1 \in G /\ n - 1 \in Nat /\ n - 1 < m
  BY <1>4, <1>5
<1>7. (n - 1) + 1 \in G
  BY <1>6
<1>8. QED
  BY <1>3, <1>4, <1>7

LEMMA OneMore ==
  \A n \in Nat : 1..(n + 1) = (1..n) \cup {n + 1}
OBVIOUS

LEMMA Appending ==
  ASSUME NEW S, NEW t \in Seq(S), NEW e \in S
  PROVE  /\ Append(t, e) \in Seq(S)
         /\ DOMAIN Append(t, e) = DOMAIN t \cup {Len(t) + 1}
         /\ Append(t, e)[Len(t) + 1] = e
         /\ \A i \in DOMAIN t : Append(t, e)[i] = t[i]
         /\ Len(t) \in Nat /\ DOMAIN t = 1..Len(t) /\ Len(t) + 1 \notin DOMAIN t
<1>1. Len(t) \in Nat /\ DOMAIN t = 1..Len(t)
  BY LenProperties
<1>2. /\ Append(t, e) \in Seq(S)
      /\ Len(Append(t, e)) = Len(t) + 1
      /\ Append(t, e)[Len(t) + 1] = e
      /\ \A i \in 1..Len(t) : Append(t, e)[i] = t[i]
  BY AppendProperties
<1>3. DOMAIN Append(t, e) = 1..(Len(t) + 1)
  BY <1>2, LenProperties
<1>4. Len(t) + 1 \notin 1..Len(t)
  BY <1>1
<1>5. QED
  BY <1>1, <1>2, <1>3, <1>4, OneMore

LEMMA LibraryIsApart ==
  /\ NodeIds \cap DOMAIN LibraryNodes = {}
  /\ DOMAIN LibraryNodes = Markers \cup {CommandName}
<1>1. DOMAIN LibraryNodes = Markers \cup {CommandName}
  BY DEF LibraryNodes, MarkerNodes, Assign
<1>2. \A id \in NodeIds : DOMAIN id = {"base", "route"}
  BY DEF NodeIds
<1>3. \A m \in Markers \cup {CommandName} : DOMAIN m = {"marker", "omitted"}
  BY DEF Markers, DepthMarker, WidthMarker, CommandName
<1>4. {"base", "route"} # {"marker", "omitted"}
  OBVIOUS
<1>5. QED
  BY <1>1, <1>2, <1>3, <1>4

(***************************************************************************)
(* Without.                                                                *)
(***************************************************************************)

Elements(s) == {s[i] : i \in DOMAIN s}
OneEach(s)  == \A i, j \in DOMAIN s : s[i] = s[j] => i = j
Keeps(kept, s, ks, n) ==
  /\ kept[0] = <<>>
  /\ \A i \in 1..n :
       kept[i] = IF s[i] \in ks THEN kept[i - 1] ELSE Append(kept[i - 1], s[i])

HasKept(s, ks, n) == \E kept \in [0..n -> Seq(Names)] : Keeps(kept, s, ks, n)

LEMMA KeepsExists ==
  ASSUME NEW s \in Seq(Names), NEW ks
  PROVE  HasKept(s, ks, Len(s))
<1> DEFINE G == {n \in Nat : HasKept(s, ks, n)}
<1>1. PICK len \in Nat : len = Len(s) /\ \A i \in 1..len : s[i] \in Names
  OBVIOUS
<1>2. HasKept(s, ks, 0)
  <2>1. [i \in 0..0 |-> <<>>] \in [0..0 -> Seq(Names)]
    OBVIOUS
  <2>2. Keeps([i \in 0..0 |-> <<>>], s, ks, 0)
    BY DEF Keeps
  <2>3. QED
    BY <2>1, <2>2 DEF HasKept
<1>3. ASSUME NEW n \in Nat, n < len, HasKept(s, ks, n)
      PROVE  HasKept(s, ks, n + 1)
  <2>1. PICK kept \in [0..n -> Seq(Names)] : Keeps(kept, s, ks, n)
    BY <1>3 DEF HasKept
  <2>2. s[n + 1] \in Names /\ kept[n] \in Seq(Names)
    BY <1>1, <1>3, <2>1
  <2> DEFINE next == IF s[n + 1] \in ks THEN kept[n] ELSE Append(kept[n], s[n + 1])
             more == [i \in 0..(n + 1) |-> IF i = n + 1 THEN next ELSE kept[i]]
  <2>3. next \in Seq(Names)
    <3>1. Append(kept[n], s[n + 1]) \in Seq(Names)
      BY <2>2, AppendProperties
    <3>2. QED
      BY <2>2, <3>1
  <2>4. Keeps(more, s, ks, n + 1)
    <3>1. more[0] = <<>>
      BY <2>1 DEF Keeps
    <3>2. ASSUME NEW i \in 1..(n + 1)
          PROVE  more[i] = IF s[i] \in ks THEN more[i - 1] ELSE Append(more[i - 1], s[i])
      <4>1. CASE i = n + 1
        <5>1. more[i] = next /\ more[i - 1] = kept[n]
          BY <4>1
        <5>2. QED
          BY <4>1, <5>1
      <4>2. CASE i # n + 1
        <5>1. i \in 1..n /\ more[i] = kept[i] /\ more[i - 1] = kept[i - 1]
          BY <4>2
        <5>2. QED
          BY <5>1, <2>1 DEF Keeps
      <4>3. QED
        BY <4>1, <4>2
    <3>3. QED
      BY <3>1, <3>2 DEF Keeps
  <2>5. more \in [0..(n + 1) -> Seq(Names)]
    <3> HIDE DEF next
    <3>1. QED
      BY <2>1, <2>3
  <2>6. QED
    BY <2>4, <2>5 DEF HasKept
<1>4. len \in G
  <2>1. 0 \in G /\ \A n \in Nat : n < len /\ n \in G => n + 1 \in G
    BY <1>2, <1>3
  <2> HIDE DEF G
  <2>2. QED
    BY <2>1, UpTo
<1>5. QED
  BY <1>1, <1>4

LEMMA WithoutIsKept ==
  ASSUME NEW s \in Seq(Names), NEW ks
  PROVE  \E kept \in [0..Len(s) -> Seq(Names)] :
           Keeps(kept, s, ks, Len(s)) /\ Without(s, ks) = kept[Len(s)]
<1> DEFINE Step(kept) ==
      [i \in 0..Len(s) |->
         IF i = 0 THEN <<>>
         ELSE IF s[i] \in ks THEN kept[i - 1] ELSE Append(kept[i - 1], s[i])]
           it == CHOOSE kept : kept = Step(kept)
<1>1. PICK len \in Nat : len = Len(s)
  OBVIOUS
<1>2. Without(s, ks) = it[Len(s)]
  BY DEF Without
<1>3. PICK kept \in [0..len -> Seq(Names)] : Keeps(kept, s, ks, len)
  BY <1>1, KeepsExists DEF HasKept
<1>4. kept = Step(kept)
  <2>1. ASSUME NEW i \in 0..len PROVE kept[i] = Step(kept)[i]
    <3>1. CASE i = 0
      BY <3>1, <1>1, <1>3 DEF Keeps
    <3>2. CASE i # 0
      <4>1. i \in 1..len
        BY <3>2
      <4>2. kept[i] = IF s[i] \in ks THEN kept[i - 1] ELSE Append(kept[i - 1], s[i])
        BY <4>1, <1>3 DEF Keeps
      <4>3. Step(kept)[i] = IF s[i] \in ks THEN kept[i - 1] ELSE Append(kept[i - 1], s[i])
        BY <3>2, <1>1
      <4>4. QED
        BY <4>2, <4>3
    <3>3. QED
      BY <3>1, <3>2
  <2>2. DOMAIN Step(kept) = 0..len /\ Step(kept) = [i \in 0..len |-> Step(kept)[i]]
    BY <1>1
  <2> HIDE DEF Step
  <2>3. QED
    BY <1>3, <2>1, <2>2
<1>5. it = Step(it)
  <2>1. \E k : k = Step(k)
    BY <1>4
  <2> HIDE DEF Step
  <2>2. QED
    BY <2>1
<1>6. /\ DOMAIN it = 0..len
      /\ it[0] = <<>>
      /\ \A i \in 1..len : it[i] = IF s[i] \in ks THEN it[i - 1] ELSE Append(it[i - 1], s[i])
  <2> HIDE DEF it
  <2>1. it = Step(it)
    BY <1>5
  <2>2. DOMAIN it = 0..len
    BY <1>1, <2>1
  <2>3. ASSUME NEW i \in 0..len
        PROVE  it[i] = IF i = 0 THEN <<>>
                       ELSE IF s[i] \in ks THEN it[i - 1] ELSE Append(it[i - 1], s[i])
    <3>1. it[i] = Step(it)[i]
      BY <2>1
    <3> HIDE DEF Step
    <3>2. Step(it)[i] = IF i = 0 THEN <<>>
                        ELSE IF s[i] \in ks THEN it[i - 1] ELSE Append(it[i - 1], s[i])
      BY <1>1 DEF Step
    <3>3. QED
      BY <3>1, <3>2
  <2>4. it[0] = <<>>
    BY <2>3
  <2>5. ASSUME NEW i \in 1..len
        PROVE  it[i] = IF s[i] \in ks THEN it[i - 1] ELSE Append(it[i - 1], s[i])
    <3>1. i \in 0..len /\ i # 0
      OBVIOUS
    <3>2. QED
      BY <2>3, <3>1
  <2>6. QED
    BY <2>2, <2>4, <2>5
<1> HIDE DEF it, Step
<1>7. \A i \in 0..len : it[i] = kept[i]
  <2> DEFINE G == {i \in Nat : it[i] = kept[i]}
  <2>1. 0 \in G
    BY <1>6, <1>3 DEF Keeps
  <2>2. ASSUME NEW n \in Nat, n < len, n \in G PROVE n + 1 \in G
    <3>1. n + 1 \in 1..len /\ (n + 1) - 1 = n /\ it[n] = kept[n]
      BY <2>2
    <3>2. it[n + 1] = IF s[n + 1] \in ks THEN it[n] ELSE Append(it[n], s[n + 1])
      BY <3>1, <1>6
    <3>3. kept[n + 1] = IF s[n + 1] \in ks THEN kept[n] ELSE Append(kept[n], s[n + 1])
      BY <3>1, <1>3 DEF Keeps
    <3>4. QED
      BY <3>1, <3>2, <3>3
  <2> HIDE DEF G
  <2>3. ASSUME NEW i \in 0..len PROVE i \in G
    BY <2>1, <2>2, UpTo
  <2>4. QED
    BY <2>3 DEF G
<1>8. QED
  BY <1>1, <1>2, <1>3, <1>7

\* What Without leaves of a sequence is what of its elements is not in the set, each as
\* often as the sequence has it.
LEMMA WithoutProperties ==
  ASSUME NEW s \in Seq(Names), NEW ks
  PROVE  /\ Without(s, ks) \in Seq(Names)
         /\ Elements(Without(s, ks)) = Elements(s) \ ks
         /\ OneEach(s) => OneEach(Without(s, ks))
<1>1. PICK len \in Nat : len = Len(s) /\ DOMAIN s = 1..len /\ \A i \in 1..len : s[i] \in Names
  OBVIOUS
<1>2. PICK kept \in [0..len -> Seq(Names)] :
        Keeps(kept, s, ks, len) /\ Without(s, ks) = kept[len]
  BY <1>1, WithoutIsKept
<1> DEFINE Good(n) == /\ Elements(kept[n]) = {s[i] : i \in 1..n} \ ks
                      /\ OneEach(s) => OneEach(kept[n])
           G == {n \in Nat : Good(n)}
<1>3. Good(0)
  <2>1. kept[0] = <<>>
    BY <1>2 DEF Keeps
  <2>2. Elements(<<>>) = {} /\ OneEach(<<>>) /\ 1..0 = {}
    BY DEF Elements, OneEach
  <2>3. QED
    BY <2>1, <2>2
<1>4. ASSUME NEW n \in Nat, n < len, Good(n) PROVE Good(n + 1)
  <2>1. PICK t \in Seq(Names) : t = kept[n]
    BY <1>2, <1>4
  <2>2. PICK e \in Names : e = s[n + 1]
    <3>1. n + 1 \in 1..len
      BY <1>4
    <3>2. QED
      BY <3>1, <1>1
  <2>3. kept[n + 1] = IF e \in ks THEN t ELSE Append(t, e)
    <3>1. n + 1 \in 1..len /\ (n + 1) - 1 = n
      BY <1>4
    <3>2. QED
      BY <3>1, <2>1, <2>2, <1>2 DEF Keeps
  <2>4. Elements(Append(t, e)) = Elements(t) \cup {e}
    <3>1. /\ DOMAIN Append(t, e) = DOMAIN t \cup {Len(t) + 1}
          /\ Append(t, e)[Len(t) + 1] = e
          /\ \A i \in DOMAIN t : Append(t, e)[i] = t[i]
      BY Appending
    <3>2. QED
      BY <3>1, Zenon DEF Elements
  <2>5. {s[i] : i \in 1..(n + 1)} = {s[i] : i \in 1..n} \cup {e}
    <3>1. 1..(n + 1) = (1..n) \cup {n + 1}
      BY <1>4
    <3>2. QED
      BY <3>1, <2>2
  <2>6. Elements(t) = {s[i] : i \in 1..n} \ ks /\ (OneEach(s) => OneEach(t))
    BY <1>4, <2>1
  <2>7. Elements(kept[n + 1]) = {s[i] : i \in 1..(n + 1)} \ ks
    BY <2>3, <2>4, <2>5, <2>6
  <2>8. ASSUME OneEach(s), e \notin ks PROVE OneEach(Append(t, e))
    <3>1. ASSUME NEW i \in 1..n PROVE s[i] # e
      <4>1. i \in 1..len /\ n + 1 \in 1..len /\ i # n + 1
        BY <1>4
      <4>2. QED
        BY <4>1, <2>8, <1>1, <2>2 DEF OneEach
    <3>2. e \notin Elements(t) /\ OneEach(t)
      BY <3>1, <2>6, <2>8
    <3>3. /\ DOMAIN Append(t, e) = DOMAIN t \cup {Len(t) + 1}
          /\ Append(t, e)[Len(t) + 1] = e
          /\ \A i \in DOMAIN t : Append(t, e)[i] = t[i]
      BY Appending
    <3>4. QED
      BY <3>2, <3>3 DEF OneEach, Elements
  <2>9. QED
    BY <2>3, <2>6, <2>7, <2>8
<1>5. len \in G
  <2> HIDE DEF Good
  <2>1. 0 \in G /\ \A n \in Nat : n < len /\ n \in G => n + 1 \in G
    BY <1>3, <1>4
  <2> HIDE DEF G
  <2>2. QED
    BY <2>1, UpTo
<1>6. {s[i] : i \in 1..len} = Elements(s)
  BY <1>1 DEF Elements
<1>7. QED
  BY <1>2, <1>5, <1>6

-----------------------------------------------------------------------------
(***************************************************************************)
(* The types.                                                              *)
(***************************************************************************)

Primitives == {Text, Undefined, Throws}
Graph      == UNION {DOMAIN h : h \in Heaps}
Library    == DOMAIN LibraryNodes
Objects    == Graph \cup Library \cup NodeIds
AppValues  == Graph \cup Markers \cup Primitives
Values     == Objects \cup Primitives

\* What the library builds never throws, and has its fields as keys.
LibraryNode(n) ==
  /\ WellFormed(n, Values)
  /\ n.kind \in {"object", "array"} /\ n.via \in {"none", "method"}
  /\ Elements(n.keys) = DOMAIN n.field
  /\ \A k \in DOMAIN n.field : Throws \notin n.field[k]
  /\ n.form \subseteq AppValues

\* A node refers to nodes of its own call only.
OwnNodes(n, base) ==
  \A k \in DOMAIN n.field : \A v \in n.field[k] : v \in NodeIds => v.base = base

AppObject(n) == WellFormed(n, AppValues) /\ (n.kind = "array" => Indexed(n))

HeapInv ==
  /\ DOMAIN heap \subseteq Objects
  /\ Library \cup {Record, Thrown} \subseteq DOMAIN heap
  /\ {Record, Thrown} \subseteq Graph
  /\ \A v \in DOMAIN heap \ NodeIds : AppObject(heap[v])
  /\ \A v \in DOMAIN heap : v \in NodeIds \cup Library => LibraryNode(heap[v])
  /\ \A v \in DOMAIN heap : v \in NodeIds => OwnNodes(heap[v], v.base)

Befores == UNION {[D -> Nat] : D \in SUBSET Values}
Steps   == {"enter", "inspect", "follow", "fields", "parts", "link", "linked", "degraded"}
Frames  ==
  [value : Values, path : Seq(Names), depth : Nat, honor : BOOLEAN, ser : BOOLEAN,
   owner : Values, step : Steps, todo : Seq(Names), written : SUBSET Names, part : Names,
   linked : Values, before : Befores, incomplete : BOOLEAN]

Waiting == {"follow", "fields", "linked"}

\* A frame's node was built by a call of this depth or a lower one; only errors of the
\* graph have parts, or degrade.
FrameOK(f, i, objects) ==
  /\ f.value \in NodeIds => f.value.base <= i
  /\ f.linked \in NodeIds => f.linked.base <= i
  /\ f.step \notin {"enter", "degraded"} => f.value \in objects
  /\ f.step \in {"parts", "link", "linked", "degraded"} => f.value \in Graph

StackInv ==
  /\ stack \in Seq(Frames)
  /\ \A i \in DOMAIN stack : FrameOK(stack[i], i, DOMAIN heap)
  /\ \A i \in DOMAIN stack : i # Len(stack) => stack[i].step \in Waiting

TaskSteps == {"identify", "stack", "cause", "errors", "members", "own"}
Tasks     == [from : AppValues, id : NodeIds, level : Nat, step : TaskSteps,
              links : Seq(AppValues), left : Int]
ListOf(id) == Id(id.base, Append(id.route, "errors"))

TaskOK(t, h, base) ==
  /\ t.id.base = base /\ t.level <= MaxCauseDepth
  /\ t.step # "identify" => t.id \in DOMAIN h /\ t.from \in DOMAIN h
  /\ t.step = "members" =>
       /\ ListOf(t.id) \in DOMAIN h /\ t.left <= MaxOmitted
       /\ Len(h[ListOf(t.id)].keys) + Len(t.links) <= MaxAggregate

\* A call made for a member is two links below the error with the list, one made for a
\* cause one link.
Below(t, u) ==
  Len(t.id.route) + (IF t.step = "members" THEN 2 ELSE 1) <= Len(u.id.route)

TasksInv ==
  /\ tasks \in Seq(Tasks)
  /\ \A i \in DOMAIN tasks : TaskOK(tasks[i], heap, Len(stack))
  /\ \A i \in DOMAIN tasks : i # Len(tasks) => tasks[i].step \in {"errors", "members"}
  /\ \A i, j \in DOMAIN tasks : i < j => Below(tasks[i], tasks[j])
  /\ Sanitizing => ~ raised
  /\ Sanitizing /\ stack # <<>> => F.step = "degraded"
  /\ phase = "serialize" => stack = <<>>
  /\ Sanitizing /\ stack = <<>> => phase = "serialize"

Tags     == {"error", "unknown", "failed", "list"}
MadeInv  ==
  /\ DOMAIN made \subseteq NodeIds
  /\ \A i \in DOMAIN made :
       made[i] \in [from : AppValues, tag : Tags, level : Nat, lost : BOOLEAN]

Whats   == {"leaf", "depth", "budget", "circular", "size", "reference", "censor", "array",
            "markers", "instance", "object", "envelope"}
Entries == [what : Whats, of : Values, owner : Values]

OutInv ==
  /\ DOMAIN out \subseteq Seq(Names)
  /\ \A q \in DOMAIN out : out[q] \in Entries

ScalarsInv ==
  /\ policy \in Policies /\ seen \subseteq AppValues
  /\ phase \in {"record", "serialize", "redact"} /\ raised \in BOOLEAN
  /\ visits \in Int /\ admitted \in Nat /\ thrower \in Values
  /\ links \in Befores

Types == HeapInv /\ StackInv /\ TasksInv /\ MadeInv /\ OutInv /\ ScalarsInv

LEMMA ValuesApart ==
  /\ Graph \cap (NodeIds \cup Library \cup Primitives) = {}
  /\ NodeIds \cap (Library \cup Primitives) = {} /\ Library \cap Primitives = {}
  /\ Library = Markers \cup {CommandName}
  /\ AppValues \subseteq Values /\ AppValues \cap NodeIds = {} /\ Objects \cap Primitives = {}
  /\ Text # Undefined /\ Text # Throws /\ Undefined # Throws
<1>1. Graph \cap (NodeIds \cup Library \cup Primitives) = {}
  BY SanitizerAssumption DEF Graph, Library, Primitives
<1>2. NodeIds \cap (Library \cup Primitives) = {} /\ Library \cap Primitives = {}
  BY SanitizerAssumption, LibraryIsApart DEF Library, Primitives
<1>3. Library = Markers \cup {CommandName}
  BY LibraryIsApart DEF Library
<1>4. Text # Undefined /\ Text # Throws /\ Undefined # Throws
  BY SanitizerAssumption
<1>5. QED
  BY <1>1, <1>2, <1>3, <1>4 DEF AppValues, Values, Objects

LEMMA MarkersAre ==
  /\ DepthMarker \in Markers
  /\ \A n \in 1..MaxOmitted : WidthMarker(n) \in Markers
  /\ \A m \in Markers : m.omitted \in 0..MaxOmitted
<1>1. DepthMarker.omitted = 0 /\ \A n : WidthMarker(n).omitted = n
  BY DEF DepthMarker, WidthMarker
<1>2. MaxOmitted \in Nat
  BY SanitizerAssumption
<1>3. \A m \in Markers : m = DepthMarker \/ \E n \in 1..MaxOmitted : m = WidthMarker(n)
  BY DEF Markers
<1>4. \A m \in Markers : m.omitted = 0 \/ m.omitted \in 1..MaxOmitted
  BY <1>1, <1>3
<1>5. QED
  BY <1>2, <1>4 DEF Markers

LEMMA NamesAre ==
  /\ "name" \in Names /\ "message" \in Names /\ "stack" \in Names /\ "cause" \in Names
  /\ "errors" \in Names /\ "type" \in Names /\ "toString" \in Names /\ INCOMPLETE_KEY \in Names
BY SanitizerAssumption DEF DERIVED_ERROR_FIELDS

LEMMA IndexesAre ==
  /\ MaxAggregate \in Nat \ {0} /\ MaxOmitted \in Nat /\ MaxCauseDepth \in Nat
  /\ Indexes \in Seq(Names) /\ OneEach(Indexes)
  /\ Len(Indexes) \in (MaxAggregate + 1)..(MaxAggregate + MaxOmitted)
  /\ Len(Indexes) \in Nat
  /\ DOMAIN Indexes = 1..Len(Indexes)
  /\ \A i \in 1..Len(Indexes) : Indexes[i] \in Names
<1>1. Indexes \in Seq(Names)
  BY SanitizerAssumption
<1>2. QED
  BY <1>1, SanitizerAssumption, LenProperties DEF OneEach

\* Over and Assign.
LEMMA Assigned ==
  ASSUME NEW f, NEW k, NEW v, NEW g, g = Assign(f, k, v)
  PROVE  /\ \A x : x \in DOMAIN g <=> (x \in DOMAIN f \/ x = k)
         /\ g[k] = v
         /\ \A x \in DOMAIN f : x # k => g[x] = f[x]
BY DEF Assign

LEMMA Overlaid ==
  ASSUME NEW f, NEW g, NEW h, h = Over(f, g)
  PROVE  /\ \A x : x \in DOMAIN h <=> (x \in DOMAIN f \/ x \in DOMAIN g)
         /\ \A x \in DOMAIN f : h[x] = f[x]
         /\ \A x \in DOMAIN g : x \notin DOMAIN f => h[x] = g[x]
BY DEF Over

-----------------------------------------------------------------------------
(***************************************************************************)
(* Nodes.                                                                  *)
(***************************************************************************)

NodeFields == {"kind", "keys", "field", "via", "form", "sqlState", "size"}

\* The parts of WellFormed, for one record at a time.
LEMMA WellFormedIs ==
  ASSUME NEW n, NEW answers
  PROVE  WellFormed(n, answers) <=>
           /\ DOMAIN n = NodeFields
           /\ n.kind \in Kinds /\ n.via \in Vias
           /\ n.keys \in Seq(Names) /\ n.size \in Nat /\ n.sqlState \in BOOLEAN
           /\ OneEach(n.keys)
           /\ DOMAIN n.field \subseteq Names
           /\ \A k \in DOMAIN n.field : n.field[k] \subseteq answers
           /\ n.form \subseteq answers
BY DEF WellFormed, OneEach, NodeFields

LEMMA WithIs ==
  ASSUME NEW n, DOMAIN n = NodeFields, n.keys \in Seq(Names), NEW k \in Names, NEW v,
         k \notin DOMAIN n.field
  PROVE  LET w == With(n, k, v) IN
         /\ DOMAIN w = NodeFields
         /\ w.kind = n.kind /\ w.via = n.via /\ w.form = n.form
         /\ w.size = n.size /\ w.sqlState = n.sqlState
         /\ DOMAIN w.field = DOMAIN n.field \cup {k} /\ w.field[k] = {v}
         /\ \A x \in DOMAIN n.field : w.field[x] = n.field[x]
         /\ w.keys \in Seq(Names)
         /\ DOMAIN w.keys = DOMAIN n.keys \cup {Len(n.keys) + 1}
         /\ Len(n.keys) + 1 \notin DOMAIN n.keys /\ w.keys[Len(n.keys) + 1] = k
         /\ \A i \in DOMAIN n.keys : w.keys[i] = n.keys[i]
         /\ Len(w.keys) = Len(n.keys) + 1
<1>1. With(n, k, v) = [n EXCEPT !.keys = Append(@, k), !.field = Assign(@, k, {v})]
  BY DEF With
<1>2. PICK w : w = With(n, k, v)
  OBVIOUS
<1>3. /\ DOMAIN w = NodeFields
      /\ w.kind = n.kind /\ w.via = n.via /\ w.form = n.form
      /\ w.size = n.size /\ w.sqlState = n.sqlState
  BY <1>1, <1>2 DEF NodeFields
<1>4. w.keys = Append(n.keys, k)
  BY <1>1, <1>2 DEF NodeFields
<1>5. w.field = Assign(n.field, k, {v})
  BY <1>1, <1>2 DEF NodeFields
<1>6. /\ DOMAIN w.field = DOMAIN n.field \cup {k} /\ w.field[k] = {v}
      /\ \A x \in DOMAIN n.field : w.field[x] = n.field[x]
  <2>1. PICK f : f = n.field
    OBVIOUS
  <2>2. PICK g : g = w.field
    OBVIOUS
  <2>3. g = Assign(f, k, {v})
    BY <1>5, <2>1, <2>2
  <2>4. /\ \A x : x \in DOMAIN g <=> (x \in DOMAIN f \/ x = k)
        /\ g[k] = {v}
        /\ \A x \in DOMAIN f : x # k => g[x] = f[x]
    BY <2>3, Assigned
  <2>5. DOMAIN g = DOMAIN f \cup {k}
    BY <2>4
  <2>6. QED
    BY <2>1, <2>2, <2>4, <2>5
<1>7. /\ w.keys \in Seq(Names)
      /\ DOMAIN w.keys = DOMAIN n.keys \cup {Len(n.keys) + 1}
      /\ Len(n.keys) + 1 \notin DOMAIN n.keys /\ w.keys[Len(n.keys) + 1] = k
      /\ \A i \in DOMAIN n.keys : w.keys[i] = n.keys[i]
  <2>1. PICK t \in Seq(Names) : t = n.keys
    OBVIOUS
  <2>2. /\ Append(t, k) \in Seq(Names)
        /\ DOMAIN Append(t, k) = DOMAIN t \cup {Len(t) + 1}
        /\ Len(t) + 1 \notin DOMAIN t /\ Append(t, k)[Len(t) + 1] = k
        /\ \A i \in DOMAIN t : Append(t, k)[i] = t[i]
    BY Appending
  <2>3. QED
    BY <1>4, <2>1, <2>2
<1>8. Len(w.keys) = Len(n.keys) + 1
  <2>1. PICK t \in Seq(Names) : t = n.keys
    OBVIOUS
  <2>2. Len(Append(t, k)) = Len(t) + 1
    BY AppendProperties
  <2>3. QED
    BY <1>4, <2>1, <2>2
<1>9. QED
  BY <1>2, <1>3, <1>6, <1>7, <1>8

LEMMA WithKeeps ==
  ASSUME NEW n, LibraryNode(n), NEW k \in Names, NEW v \in Values \ {Throws}
  PROVE  /\ LibraryNode(With(n, k, v))
         /\ \A base : /\ OwnNodes(n, base) /\ (v \in NodeIds => v.base = base)
                     => OwnNodes(With(n, k, v), base)
         /\ DOMAIN With(n, k, v).field = DOMAIN n.field \cup {k}
         /\ With(n, k, v).kind = n.kind /\ With(n, k, v).via = n.via
         /\ Elements(With(n, k, v).keys) = Elements(n.keys) \cup {k}
<1>1. CASE k \in DOMAIN n.field
  BY <1>1 DEF With, LibraryNode
<1>2. CASE k \notin DOMAIN n.field
  <2> DEFINE w == With(n, k, v)
  <2>1. /\ DOMAIN n = NodeFields /\ n.keys \in Seq(Names) /\ OneEach(n.keys)
        /\ n.kind \in Kinds /\ n.via \in Vias /\ n.size \in Nat /\ n.sqlState \in BOOLEAN
        /\ DOMAIN n.field \subseteq Names
        /\ \A x \in DOMAIN n.field : n.field[x] \subseteq Values
        /\ n.form \subseteq Values
    BY WellFormedIs DEF LibraryNode
  <2>2. /\ DOMAIN w = NodeFields /\ w.kind = n.kind /\ w.via = n.via /\ w.form = n.form
        /\ w.size = n.size /\ w.sqlState = n.sqlState
        /\ DOMAIN w.keys = DOMAIN n.keys \cup {Len(n.keys) + 1}
        /\ w.keys \in Seq(Names) /\ w.keys[Len(n.keys) + 1] = k
        /\ \A i \in DOMAIN n.keys : w.keys[i] = n.keys[i]
    BY <1>2, <2>1, WithIs
  <2>3. /\ DOMAIN w.field = DOMAIN n.field \cup {k} /\ w.field[k] = {v}
        /\ \A x \in DOMAIN n.field : w.field[x] = n.field[x]
    BY <1>2, <2>1, WithIs
  <2> HIDE DEF w
  <2>4. Elements(w.keys) = Elements(n.keys) \cup {k} /\ OneEach(w.keys)
    <3>1. k \notin Elements(n.keys)
      BY <1>2 DEF LibraryNode
    <3>2. QED
      BY <2>1, <2>2, <3>1 DEF Elements, OneEach
  <2>5. WellFormed(w, Values)
    <3>1. \A x \in DOMAIN w.field : w.field[x] \subseteq Values
      BY <2>1, <2>3
    <3>2. QED
      BY <2>1, <2>2, <2>3, <2>4, <3>1, WellFormedIs
  <2>6. LibraryNode(w)
    <3>1. \A x \in DOMAIN w.field : Throws \notin w.field[x]
      BY <2>3 DEF LibraryNode
    <3>2. QED
      BY <2>2, <2>3, <2>4, <2>5, <3>1 DEF LibraryNode
  <2>7. ASSUME NEW base, OwnNodes(n, base), v \in NodeIds => v.base = base
        PROVE  OwnNodes(w, base)
    BY <2>3, <2>7 DEF OwnNodes
  <2>8. QED
    BY <2>2, <2>3, <2>4, <2>6, <2>7 DEF w
<1>3. QED
  BY <1>1, <1>2

\* What a field of an object may answer.
LEMMA ReadsAre ==
  ASSUME HeapInv, NEW v \in DOMAIN heap, NEW k, NEW a \in Read(v, k)
  PROVE  /\ a \in Values
         /\ v \notin NodeIds => a \in AppValues
         /\ v \in NodeIds /\ a \in NodeIds => a.base = v.base
         /\ v \in NodeIds \cup Library => a # Throws
<1>1. CASE k \notin DOMAIN heap[v].field
  <2>1. a = Undefined
    BY <1>1 DEF Read
  <2>2. a \in AppValues /\ a \in Values /\ a \notin NodeIds /\ a # Throws
    BY <2>1, ValuesApart DEF AppValues, Primitives
  <2>3. QED
    BY <2>2
<1>2. CASE k \in DOMAIN heap[v].field
  <2>1. a \in heap[v].field[k]
    BY <1>2 DEF Read
  <2>2. v \notin NodeIds => a \in AppValues
    BY <1>2, <2>1, WellFormedIs DEF HeapInv, AppObject
  <2>3. v \in NodeIds \cup Library => a \in Values /\ a # Throws
    BY <1>2, <2>1, WellFormedIs DEF HeapInv, LibraryNode
  <2>4. v \in NodeIds /\ a \in NodeIds => a.base = v.base
    BY <1>2, <2>1 DEF HeapInv, OwnNodes
  <2>5. QED
    BY <2>2, <2>3, <2>4, ValuesApart
<1>3. QED
  BY <1>1, <1>2

\* What any object has.
LEMMA ObjectsAre ==
  ASSUME HeapInv, NEW v \in DOMAIN heap
  PROVE  /\ heap[v].keys \in Seq(Names) /\ OneEach(heap[v].keys)
         /\ DOMAIN heap[v] = NodeFields
         /\ heap[v].form \subseteq AppValues
         /\ heap[v].kind \in Kinds /\ heap[v].via \in Vias
         /\ heap[v].size \in Nat /\ heap[v].sqlState \in BOOLEAN
         /\ DOMAIN heap[v].field \subseteq Names
         /\ KeysOf(v) = Elements(heap[v].keys) /\ KeysOf(v) \subseteq Names
<1>1. /\ heap[v].keys \in Seq(Names) /\ OneEach(heap[v].keys)
      /\ DOMAIN heap[v] = NodeFields
      /\ heap[v].form \subseteq AppValues
      /\ heap[v].kind \in Kinds /\ heap[v].via \in Vias
      /\ heap[v].size \in Nat /\ heap[v].sqlState \in BOOLEAN
      /\ DOMAIN heap[v].field \subseteq Names
  <2>1. CASE v \notin NodeIds
    BY <2>1, WellFormedIs DEF HeapInv, AppObject
  <2>2. CASE v \in NodeIds
    BY <2>2, WellFormedIs DEF HeapInv, LibraryNode
  <2>3. QED
    BY <2>1, <2>2
<1>2. KeysOf(v) = Elements(heap[v].keys)
  BY DEF KeysOf, Elements
<1>3. Elements(heap[v].keys) \subseteq Names
  BY <1>1, ElementOfSeq, LenProperties DEF Elements
<1>4. QED
  BY <1>1, <1>2, <1>3

\* Only objects of the graph are errors, functions or buffers.
LEMMA ErrorsAreOfTheGraph ==
  ASSUME HeapInv, NEW v, IsKind(v, "error") \/ IsKind(v, "function") \/ IsKind(v, "buffer")
  PROVE  v \in Graph /\ v \in DOMAIN heap
<1>1. v \in DOMAIN heap /\ heap[v].kind \notin {"object", "array"}
  BY DEF IsKind, IsObject
<1>2. v \notin NodeIds \cup Library
  BY <1>1 DEF HeapInv, LibraryNode
<1>3. QED
  BY <1>1, <1>2 DEF HeapInv, Objects

\* A list of the graph has its indexes as keys.
LEMMA ListsAreIndexed ==
  ASSUME HeapInv, NEW v \in DOMAIN heap \ NodeIds, heap[v].kind = "array"
  PROVE  /\ Len(heap[v].keys) \in 0..Len(Indexes)
         /\ \A i \in 1..Len(heap[v].keys) : heap[v].keys[i] = Indexes[i]
         /\ \A i \in 1..Len(heap[v].keys) : Indexes[i] \in KeysOf(v)
<1>1. PICK t \in Seq(Names) : t = heap[v].keys
  BY ObjectsAre
<1>2. PICK n \in Nat : n = Len(t) /\ DOMAIN t = 1..n
  BY LenProperties
<1>3. PICK l \in Nat : l = Len(Indexes) /\ \A i \in 1..l : Indexes[i] \in Names
  BY IndexesAre
<1>4. n <= l /\ t = SubSeq(Indexes, 1, n)
  BY <1>1, <1>2, <1>3 DEF HeapInv, AppObject, Indexed
<1>5. ASSUME NEW i \in 1..n PROVE t[i] = Indexes[i]
  <2>1. \A j \in 1..n : Indexes[j] \in Names
    BY <1>3, <1>4
  <2>2. \A j \in 1..(n - 1 + 1) : SubSeq(Indexes, 1, n)[j] = Indexes[1 + j - 1]
    BY <2>1, SubSeqProperties
  <2>3. i \in 1..(n - 1 + 1) /\ 1 + i - 1 = i
    BY <1>2
  <2>4. QED
    BY <1>4, <2>2, <2>3
<1>6. \A i \in 1..n : Indexes[i] \in KeysOf(v)
  BY <1>1, <1>2, <1>5 DEF KeysOf
<1>7. QED
  BY <1>1, <1>2, <1>3, <1>4, <1>5, <1>6

\* A node is written.
LEMMA Storing ==
  ASSUME HeapInv, NEW id \in NodeIds, NEW node, LibraryNode(node), OwnNodes(node, id.base),
         heap' = Assign(heap, id, node)
  PROVE  /\ HeapInv'
         /\ DOMAIN heap \subseteq DOMAIN heap' /\ id \in DOMAIN heap' /\ heap'[id] = node
         /\ \A v : v \in DOMAIN heap' => v \in DOMAIN heap \/ v = id
         /\ \A v \in DOMAIN heap : v # id => heap'[v] = heap[v]
<1>1. /\ \A v : v \in DOMAIN heap' <=> (v \in DOMAIN heap \/ v = id)
      /\ heap'[id] = node
      /\ \A v \in DOMAIN heap : v # id => heap'[v] = heap[v]
  BY Assigned
<1>2. DOMAIN heap' \subseteq Objects /\ Library \cup {Record, Thrown} \subseteq DOMAIN heap'
  BY <1>1 DEF HeapInv, Objects
<1>3. \A v \in DOMAIN heap' \ NodeIds : AppObject(heap'[v])
  BY <1>1 DEF HeapInv
<1>4. \A v \in DOMAIN heap' : v \in NodeIds \cup Library => LibraryNode(heap'[v])
  BY <1>1 DEF HeapInv
<1>5. \A v \in DOMAIN heap' : v \in NodeIds => OwnNodes(heap'[v], v.base)
  BY <1>1 DEF HeapInv
<1>6. QED
  BY <1>1, <1>2, <1>3, <1>4, <1>5 DEF HeapInv

LEMMA Restoring ==
  ASSUME HeapInv, NEW id \in NodeIds, id \in DOMAIN heap, NEW node, LibraryNode(node),
         OwnNodes(node, id.base), heap' = [heap EXCEPT ![id] = node]
  PROVE  /\ HeapInv'
         /\ DOMAIN heap' = DOMAIN heap /\ heap'[id] = node
         /\ \A v \in DOMAIN heap : v # id => heap'[v] = heap[v]
<1>1. /\ DOMAIN heap' = DOMAIN heap
      /\ heap'[id] = node
      /\ \A v \in DOMAIN heap : v # id => heap'[v] = heap[v]
  OBVIOUS
<1>2. DOMAIN heap' \subseteq Objects /\ Library \cup {Record, Thrown} \subseteq DOMAIN heap'
  BY <1>1 DEF HeapInv, Objects
<1>3. \A v \in DOMAIN heap' \ NodeIds : AppObject(heap'[v])
  BY <1>1 DEF HeapInv
<1>4. \A v \in DOMAIN heap' : v \in NodeIds \cup Library => LibraryNode(heap'[v])
  BY <1>1 DEF HeapInv
<1>5. \A v \in DOMAIN heap' : v \in NodeIds => OwnNodes(heap'[v], v.base)
  BY <1>1 DEF HeapInv
<1>6. QED
  BY <1>1, <1>2, <1>3, <1>4, <1>5 DEF HeapInv

-----------------------------------------------------------------------------
(***************************************************************************)
(* The nodes the sanitizer builds.                                         *)
(***************************************************************************)

LEMMA NodeIs ==
  ASSUME NEW kind \in {"object", "array"}, NEW keys \in Seq(Names), OneEach(keys), NEW field,
         Elements(keys) = DOMAIN field, NEW base,
         \A k \in DOMAIN field : /\ field[k] \subseteq Values \ {Throws}
                                 /\ \A v \in field[k] : v \in NodeIds => v.base = base
  PROVE  LibraryNode(Node(kind, keys, field)) /\ OwnNodes(Node(kind, keys, field), base)
<1>1. PICK n : n = Node(kind, keys, field)
  OBVIOUS
<1>2. /\ DOMAIN n = NodeFields /\ n.kind = kind /\ n.keys = keys /\ n.field = field
      /\ n.via = "none" /\ n.form = {} /\ n.sqlState = FALSE /\ n.size = Len(keys)
  BY <1>1 DEF Node, NodeFields
<1>3. Len(keys) \in Nat /\ DOMAIN field \subseteq Names
  BY ElementOfSeq, LenProperties DEF Elements
<1>4. n.kind \in Kinds /\ n.via \in Vias
  BY <1>2 DEF Kinds, Vias
<1>5. \A k \in DOMAIN n.field : n.field[k] \subseteq Values /\ Throws \notin n.field[k]
  BY <1>2
<1>6. WellFormed(n, Values)
  BY <1>2, <1>3, <1>4, <1>5, WellFormedIs
<1>7. LibraryNode(n)
  BY <1>2, <1>5, <1>6 DEF LibraryNode
<1>8. OwnNodes(n, base)
  BY <1>2 DEF OwnNodes
<1>9. QED
  BY <1>1, <1>7, <1>8

LEMMA OneIs ==
  ASSUME NEW S, NEW a \in S
  PROVE  <<a>> \in Seq(S) /\ Len(<<a>>) = 1
OBVIOUS

LEMMA TwoAre ==
  ASSUME NEW S, NEW a \in S, NEW b \in S
  PROVE  <<a, b>> \in Seq(S) /\ Len(<<a, b>>) = 2
OBVIOUS

LEMMA PairIs ==
  ASSUME NEW S, NEW a \in S, NEW b \in S, a # b
  PROVE  /\ <<a, b>> \in Seq(S) /\ OneEach(<<a, b>>) /\ Elements(<<a, b>>) = {a, b}
BY DEF OneEach, Elements

LEMMA TwoTextsIs ==
  ASSUME NEW base
  PROVE  LibraryNode(TwoTexts) /\ OwnNodes(TwoTexts, base)
<1>1. PICK keys \in Seq(Names) : /\ keys = <<"name", "message">>
                                /\ OneEach(keys) /\ Elements(keys) = {"name", "message"}
  <2>1. "name" # "message"
    OBVIOUS
  <2>2. QED
    BY <2>1, PairIs, NamesAre
<1>2. PICK field : field = [k \in {"name", "message"} |-> {Text}]
  OBVIOUS
<1>3. DOMAIN field = {"name", "message"} /\ \A k \in DOMAIN field : field[k] = {Text}
  BY <1>2
<1>4. Text \in Values /\ Text # Throws /\ Text \notin NodeIds
  BY ValuesApart DEF AppValues, Primitives
<1>5. LibraryNode(Node("object", keys, field)) /\ OwnNodes(Node("object", keys, field), base)
  <2>1. ASSUME NEW k \in DOMAIN field
        PROVE  /\ field[k] \subseteq Values \ {Throws}
               /\ \A v \in field[k] : v \in NodeIds => v.base = base
    BY <1>3, <1>4
  <2>2. Elements(keys) = DOMAIN field /\ "object" \in {"object", "array"}
    BY <1>1, <1>3
  <2>3. QED
    BY <1>1, <2>1, <2>2, NodeIs
<1>6. QED
  BY <1>1, <1>2, <1>5 DEF TwoTexts

LEMMA NewListIs ==
  ASSUME NEW base, NEW size \in Nat
  PROVE  LET list == [NewList EXCEPT !.size = size] IN
         /\ LibraryNode(list) /\ OwnNodes(list, base) /\ list.kind = "array"
         /\ list.keys = <<>> /\ list.size = size
<1>1. PICK n : n = [NewList EXCEPT !.size = size]
  OBVIOUS
<1>2. /\ DOMAIN n = NodeFields /\ n.kind = "array" /\ n.keys = <<>> /\ n.field = <<>>
      /\ n.via = "none" /\ n.form = {} /\ n.sqlState = FALSE /\ n.size = size
  BY <1>1 DEF NewList, Node, NodeFields
<1>3. DOMAIN n.field = {} /\ Elements(n.keys) = {} /\ OneEach(n.keys) /\ n.keys \in Seq(Names)
  BY <1>2 DEF Elements, OneEach
<1>4. n.kind \in Kinds /\ n.via \in Vias
  BY <1>2 DEF Kinds, Vias
<1>5. WellFormed(n, Values)
  BY <1>2, <1>3, <1>4, WellFormedIs
<1>6. LibraryNode(n) /\ OwnNodes(n, base)
  BY <1>2, <1>3, <1>5 DEF LibraryNode, OwnNodes
<1>7. QED
  BY <1>1, <1>2, <1>6

-----------------------------------------------------------------------------
(***************************************************************************)
(* The calls of toSanitizedError.                                          *)
(***************************************************************************)

LEMMA TopIs ==
  ASSUME TasksInv, Sanitizing
  PROVE  /\ Len(tasks) \in Nat \ {0} /\ DOMAIN tasks = 1..Len(tasks)
         /\ Top \in Tasks /\ TaskOK(Top, heap, Len(stack)) /\ Top = tasks[Len(tasks)]
         /\ Top.from \in AppValues /\ Top.id \in NodeIds /\ Top.level \in Nat
         /\ Top.step \in TaskSteps /\ Top.links \in Seq(AppValues) /\ Top.left \in Int
         /\ ~ raised
<1>1. tasks \in Seq(Tasks) /\ tasks # <<>>
  BY DEF TasksInv, Sanitizing
<1>2. Len(tasks) \in Nat \ {0} /\ DOMAIN tasks = 1..Len(tasks)
  BY <1>1, EmptySeq, LenProperties
<1>3. Top \in Tasks /\ TaskOK(Top, heap, Len(stack))
  BY <1>1, <1>2, ElementOfSeq DEF TasksInv, Top
<1>4. QED
  BY <1>2, <1>3 DEF Tasks, TasksInv, Top

LEMMA IdIs ==
  \A id : id \in NodeIds => /\ id.base \in Nat /\ id.route \in Seq(Names)
                           /\ Len(id.route) \in Nat /\ id = Id(id.base, id.route)
BY LenProperties DEF NodeIds, Id

LEMMA ListOfIs ==
  ASSUME NEW id \in NodeIds
  PROVE  /\ ListOf(id) \in NodeIds /\ ListOf(id).base = id.base
         /\ Len(ListOf(id).route) = Len(id.route) + 1
         /\ ListOf(id).route = Append(id.route, "errors")
<1>1. PICK t \in Seq(Names) : t = id.route /\ id.base \in Nat
  BY IdIs
<1>2. Append(t, "errors") \in Seq(Names) /\ Len(Append(t, "errors")) = Len(t) + 1
  BY NamesAre, AppendProperties
<1>3. QED
  BY <1>1, <1>2 DEF ListOf, Id, NodeIds

\* The nodes the innermost call writes are not the lists the calls around it are in.
LEMMA OuterListsAreKept ==
  ASSUME TasksInv, Sanitizing, NEW i \in DOMAIN tasks, i # Len(tasks)
  PROVE  /\ tasks[i] \in Tasks /\ tasks[i].step \in {"errors", "members"}
         /\ TaskOK(tasks[i], heap, Len(stack)) /\ Below(tasks[i], Top)
         /\ tasks[i].step = "members" => ListOf(tasks[i].id) \notin {Top.id, ListOf(Top.id)}
<1>1. PICK n \in Nat \ {0} : n = Len(tasks) /\ DOMAIN tasks = 1..n
  BY TopIs
<1>2. i \in 1..n /\ i < n
  BY <1>1
<1>3. PICK t \in Tasks : t = tasks[i]
  BY <1>1, ElementOfSeq DEF TasksInv
<1>4. Below(t, Top) /\ TaskOK(t, heap, Len(stack)) /\ t.step \in {"errors", "members"}
  BY <1>1, <1>2, <1>3 DEF TasksInv, Top
<1>5. PICK r \in Nat : r = Len(t.id.route) /\ t.id \in NodeIds
  BY <1>3, IdIs DEF Tasks
<1>6. PICK q \in Nat : q = Len(Top.id.route) /\ Top.id \in NodeIds
  BY TopIs, IdIs
<1>7. Len(ListOf(t.id).route) = r + 1 /\ Len(ListOf(Top.id).route) = q + 1
  BY <1>5, <1>6, ListOfIs
<1>8. t.step = "members" => r + 2 <= q
  BY <1>4, <1>5, <1>6 DEF Below
<1>9. t.step = "members" => ListOf(t.id) # Top.id /\ ListOf(t.id) # ListOf(Top.id)
  BY <1>6, <1>7, <1>8
<1>10. QED
  BY <1>3, <1>4, <1>9

\* What a step of the innermost call leaves of the heap.
Touches == /\ DOMAIN heap \subseteq DOMAIN heap'
           /\ \A v \in DOMAIN heap : v \notin {Top.id, ListOf(Top.id)} => heap'[v] = heap[v]

LEMMA OuterCallsAreKept ==
  ASSUME TasksInv, Sanitizing, UNCHANGED walkVars, Touches,
         NEW i \in DOMAIN tasks, i # Len(tasks)
  PROVE  TaskOK(tasks[i], heap', Len(stack))
<1>1. PICK t \in Tasks : t = tasks[i]
  BY OuterListsAreKept
<1>2. TaskOK(t, heap, Len(stack))
  BY <1>1, OuterListsAreKept
<1>3. t.step = "members" => heap'[ListOf(t.id)] = heap[ListOf(t.id)]
  BY <1>1, <1>2, OuterListsAreKept DEF TaskOK, Touches
<1>4. QED
  BY <1>1, <1>2, <1>3 DEF TaskOK, Touches

\* The innermost call moves on.
LEMMA TaskTurns ==
  ASSUME TasksInv, Sanitizing, UNCHANGED walkVars, Touches,
         NEW t \in Tasks, TaskOK(t, heap', Len(stack)), t.id = Top.id,
         tasks' = [tasks EXCEPT ![Len(tasks)] = t]
  PROVE  TasksInv' /\ Sanitizing' /\ Top' = t
<1>1. PICK n \in Nat \ {0} : n = Len(tasks) /\ DOMAIN tasks = 1..n
  BY TopIs
<1>2. /\ tasks' \in Seq(Tasks) /\ Len(tasks') = n
      /\ \A j \in 1..n : tasks'[j] = IF j = n THEN t ELSE tasks[j]
  <2>1. tasks \in Seq(Tasks) /\ Len(tasks) \in 1..Len(tasks)
    BY <1>1 DEF TasksInv
  <2>2. QED
    BY <1>1, <2>1, ExceptSeq
<1>3. DOMAIN tasks' = 1..n /\ tasks' # <<>>
  BY <1>1, <1>2, LenProperties
<1>4. \A i \in 1..n : TaskOK(tasks'[i], heap', Len(stack))
  BY <1>1, <1>2, OuterCallsAreKept
<1>5. \A i \in DOMAIN tasks' : TaskOK(tasks'[i], heap', Len(stack'))
  BY <1>3, <1>4 DEF walkVars
<1>6. \A i \in DOMAIN tasks' : i # Len(tasks') => tasks'[i].step \in {"errors", "members"}
  BY <1>1, <1>2, <1>3 DEF TasksInv
<1>7. ASSUME NEW i \in 1..n, NEW j \in 1..n, i < j PROVE Below(tasks'[i], tasks'[j])
  <2>1. i # n /\ tasks'[i] = tasks[i] /\ tasks'[j].id = tasks[j].id
    BY <1>1, <1>2, <1>7, TopIs
  <2>2. Below(tasks[i], tasks[j])
    BY <1>1, <1>7 DEF TasksInv
  <2>3. QED
    BY <2>1, <2>2 DEF Below
<1>8. TasksInv'
  <2>1. \A i, j \in DOMAIN tasks' : i < j => Below(tasks'[i], tasks'[j])
    BY <1>3, <1>7
  <2>2. QED
    BY <1>2, <1>3, <1>5, <1>6, <2>1 DEF TasksInv, Sanitizing, walkVars, F
<1>9. QED
  BY <1>1, <1>2, <1>3, <1>8 DEF Sanitizing, Top

\* It calls another.
LEMMA TaskCalls ==
  ASSUME TasksInv, Sanitizing, UNCHANGED walkVars, Touches,
         NEW t \in Tasks, TaskOK(t, heap', Len(stack)), t.id = Top.id, t.step \in {"errors", "members"},
         NEW c \in Tasks, TaskOK(c, heap', Len(stack)), Below(t, c),
         tasks' = [tasks EXCEPT ![Len(tasks)] = t] \o <<c>>
  PROVE  TasksInv' /\ Sanitizing' /\ Top' = c
<1>1. PICK n \in Nat \ {0} : n = Len(tasks) /\ DOMAIN tasks = 1..n
  BY TopIs
<1>2. PICK s \in Seq(Tasks) :
        /\ s = [tasks EXCEPT ![Len(tasks)] = t] /\ Len(s) = n
        /\ \A j \in 1..n : s[j] = IF j = n THEN t ELSE tasks[j]
  <2>1. PICK s : s = [tasks EXCEPT ![Len(tasks)] = t]
    OBVIOUS
  <2>2. tasks \in Seq(Tasks) /\ Len(tasks) \in 1..Len(tasks)
    BY <1>1 DEF TasksInv
  <2>3. /\ s \in Seq(Tasks) /\ Len(s) = n
        /\ \A j \in 1..n : s[j] = IF j = n THEN t ELSE tasks[j]
    BY <1>1, <2>1, <2>2, ExceptSeq
  <2>4. QED
    BY <2>1, <2>3
<1>3. tasks' = Append(s, c)
  BY <1>2, AppendIsConcat
<1>4. /\ tasks' \in Seq(Tasks) /\ Len(tasks') = n + 1 /\ tasks'[n + 1] = c
      /\ \A j \in 1..n : tasks'[j] = s[j]
  <2>1. /\ Append(s, c) \in Seq(Tasks) /\ Len(Append(s, c)) = Len(s) + 1
        /\ Append(s, c)[Len(s) + 1] = c /\ \A j \in 1..Len(s) : Append(s, c)[j] = s[j]
    BY AppendProperties
  <2>2. QED
    BY <1>2, <1>3, <2>1
<1>5. DOMAIN tasks' = 1..(n + 1) /\ tasks' # <<>>
  BY <1>1, <1>4, LenProperties
<1>6. ASSUME NEW i \in 1..n
      PROVE  TaskOK(tasks'[i], heap', Len(stack)) /\ tasks'[i].step \in {"errors", "members"}
  BY <1>1, <1>2, <1>4, OuterCallsAreKept, OuterListsAreKept
<1>7. \A i \in 1..(n + 1) : i = n + 1 \/ i \in 1..n
  BY OneMore
<1>8. \A i \in DOMAIN tasks' : TaskOK(tasks'[i], heap', Len(stack'))
  BY <1>4, <1>5, <1>6, <1>7 DEF walkVars
<1>9. \A i \in DOMAIN tasks' : i # Len(tasks') => tasks'[i].step \in {"errors", "members"}
  BY <1>4, <1>5, <1>6, <1>7
<1>10. ASSUME NEW i \in 1..n, NEW j \in 1..n, i < j PROVE Below(tasks'[i], tasks'[j])
  <2>1. i # n /\ tasks'[i] = tasks[i] /\ tasks'[j].id = tasks[j].id
    BY <1>1, <1>2, <1>4, <1>10, TopIs
  <2>2. Below(tasks[i], tasks[j])
    BY <1>1, <1>10 DEF TasksInv
  <2>3. QED
    BY <2>1, <2>2 DEF Below
<1>11. ASSUME NEW i \in 1..n PROVE Below(tasks'[i], c)
  <2>1. CASE i = n
    BY <1>2, <1>4, <2>1
  <2>2. CASE i # n
    <3>1. PICK u \in Tasks : u = tasks[i] /\ tasks'[i] = u /\ Below(u, t)
      <4>1. tasks[i] \in Tasks /\ Below(tasks[i], Top)
        BY <1>1, <2>2, OuterListsAreKept
      <4>2. QED
        BY <1>2, <1>4, <2>2, <4>1 DEF Below
    <3>2. PICK a \in Nat : a = Len(u.id.route)
      BY IdIs DEF Tasks
    <3>3. PICK b \in Nat : b = Len(t.id.route)
      BY IdIs DEF Tasks
    <3>4. PICK d \in Nat : d = Len(c.id.route)
      BY IdIs DEF Tasks
    <3>5. b + 1 <= d \/ b + 2 <= d
      BY <3>3, <3>4 DEF Below
    <3>6. a + (IF u.step = "members" THEN 2 ELSE 1) <= b
      BY <3>1, <3>2, <3>3 DEF Below
    <3>7. a + (IF u.step = "members" THEN 2 ELSE 1) <= d
      BY <3>5, <3>6
    <3>8. QED
      BY <3>1, <3>2, <3>4, <3>7 DEF Below
  <2>3. QED
    BY <2>1, <2>2
<1>12. \A i, j \in DOMAIN tasks' : i < j => Below(tasks'[i], tasks'[j])
  BY <1>4, <1>5, <1>7, <1>10, <1>11
<1>13. TasksInv'
  BY <1>4, <1>8, <1>9, <1>12 DEF TasksInv, Sanitizing, walkVars, F
<1>14. QED
  BY <1>4, <1>5, <1>13 DEF Sanitizing, Top

\* It returns.
LEMMA TaskLeaves ==
  ASSUME TasksInv, Sanitizing, UNCHANGED walkVars, Touches, Leave
  PROVE  /\ TasksInv'
         /\ DOMAIN tasks' = 1..(Len(tasks) - 1)
         /\ \A i \in DOMAIN tasks' : i \in DOMAIN tasks /\ i # Len(tasks) /\ tasks'[i] = tasks[i]
<1>1. PICK n \in Nat \ {0} : n = Len(tasks) /\ DOMAIN tasks = 1..n /\ tasks \in Seq(Tasks)
  BY TopIs DEF TasksInv
<1>2. ASSUME NEW i \in 1..(n - 1) PROVE tasks[i] \in Tasks /\ i \in DOMAIN tasks /\ i # n
  <2>1. i \in 1..Len(tasks) /\ i # n
    BY <1>1
  <2>2. QED
    BY <1>1, <2>1, ElementOfSeq
<1>3. /\ tasks' \in Seq(Tasks) /\ Len(tasks') = IF 1 <= n - 1 THEN n - 1 - 1 + 1 ELSE 0
      /\ \A i \in 1..(n - 1 - 1 + 1) : tasks'[i] = tasks[1 + i - 1]
  <2>1. 1 \in Int /\ n - 1 \in Int
    BY <1>1
  <2>2. tasks' = SubSeq(tasks, 1, n - 1)
    BY <1>1 DEF Leave
  <2>3. \A i \in 1..(n - 1) : tasks[i] \in Tasks
    BY <1>2
  <2>4. QED
    BY <2>1, <2>2, <2>3, SubSeqProperties
<1>4. Len(tasks') = n - 1 /\ \A i \in 1..(n - 1) : tasks'[i] = tasks[i]
  BY <1>1, <1>3
<1>5. DOMAIN tasks' = 1..(n - 1)
  BY <1>3, <1>4, LenProperties
<1>6. ASSUME NEW i \in DOMAIN tasks'
      PROVE  /\ TaskOK(tasks'[i], heap', Len(stack'))
             /\ tasks'[i].step \in {"errors", "members"}
  <2>1. i \in DOMAIN tasks /\ i # Len(tasks) /\ tasks'[i] = tasks[i]
    BY <1>1, <1>2, <1>4, <1>5
  <2>2. TaskOK(tasks[i], heap', Len(stack))
    BY <2>1, OuterCallsAreKept
  <2>3. QED
    BY <2>1, <2>2, OuterListsAreKept DEF walkVars
<1>7. \A i, j \in DOMAIN tasks' : i < j => Below(tasks'[i], tasks'[j])
  BY <1>1, <1>2, <1>4, <1>5 DEF TasksInv
<1>8. TasksInv'
  BY <1>3, <1>6, <1>7 DEF TasksInv, Sanitizing, walkVars, F
<1>9. QED
  BY <1>1, <1>2, <1>4, <1>5, <1>8

LEMMA Stored ==
  ASSUME HeapInv, TasksInv, Sanitizing, NEW node, LibraryNode(node),
         OwnNodes(node, Top.id.base), Store(node)
  PROVE  HeapInv' /\ Touches /\ Top.id \in DOMAIN heap' /\ heap'[Top.id] = node
<1>1. Top.id \in NodeIds
  BY TopIs
<1>2. heap' = Assign(heap, Top.id, node)
  BY DEF Store
<1>3. /\ HeapInv'
      /\ DOMAIN heap \subseteq DOMAIN heap' /\ Top.id \in DOMAIN heap' /\ heap'[Top.id] = node
      /\ \A v \in DOMAIN heap : v # Top.id => heap'[v] = heap[v]
  BY <1>1, <1>2, Storing
<1>4. QED
  BY <1>3 DEF Touches

LEMMA MakeIs ==
  ASSUME MadeInv, TasksInv, Sanitizing, NEW tag \in Tags, Make(tag)
  PROVE  MadeInv'
<1>1. PICK m : m = [from |-> Top.from, tag |-> tag, level |-> Top.level, lost |-> FALSE]
  OBVIOUS
<1>2. m \in [from : AppValues, tag : Tags, level : Nat, lost : BOOLEAN]
  BY <1>1, TopIs
<1>3. made' = Assign(made, Top.id, m)
  BY <1>1 DEF Make
<1>4. /\ \A x : x \in DOMAIN made' <=> (x \in DOMAIN made \/ x = Top.id)
      /\ made'[Top.id] = m
      /\ \A x \in DOMAIN made : x # Top.id => made'[x] = made[x]
  BY <1>3, Assigned
<1>5. QED
  BY <1>2, <1>4, TopIs DEF MadeInv

LEMMA LoseIs ==
  ASSUME MadeInv, Lose
  PROVE  MadeInv'
<1>1. PICK id : id = Top.id
  OBVIOUS
<1>2. made' = [made EXCEPT ![id].lost = TRUE]
  BY <1>1 DEF Lose
<1>3. /\ DOMAIN made' = DOMAIN made
      /\ \A x \in DOMAIN made : made'[x] = IF x = id THEN [made[x] EXCEPT !.lost = TRUE] ELSE made[x]
  BY <1>2
<1>4. QED
  BY <1>3 DEF MadeInv

LEMMA BuiltIs ==
  ASSUME HeapInv, TasksInv, Sanitizing, Top.step # "identify"
  PROVE  /\ Top.id \in DOMAIN heap /\ Built = heap[Top.id]
         /\ LibraryNode(Built) /\ OwnNodes(Built, Top.id.base)
         /\ Top.from \in DOMAIN heap /\ Top.from \in AppValues /\ Top.from \notin NodeIds
<1>1. Top.id \in DOMAIN heap /\ Top.id \in NodeIds /\ Top.from \in DOMAIN heap
  BY TopIs DEF TaskOK
<1>2. Top.from \in AppValues /\ Top.from \notin NodeIds
  BY TopIs, ValuesApart
<1>3. QED
  BY <1>1, <1>2 DEF HeapInv, Built

LEMMA Advanced ==
  ASSUME TasksInv, Sanitizing, UNCHANGED walkVars, Touches, NEW step \in TaskSteps,
         Advance(step), step # "members", step # "identify", Top.from \in DOMAIN heap',
         Top.id \in DOMAIN heap'
  PROVE  TasksInv' /\ Sanitizing' /\ Top' = [Top EXCEPT !.step = step]
<1>1. PICK t : t = [Top EXCEPT !.step = step]
  OBVIOUS
<1>2. t \in Tasks /\ t.id = Top.id
  BY <1>1, TopIs DEF Tasks
<1>3. TaskOK(t, heap', Len(stack))
  <2>1. TaskOK(Top, heap, Len(stack)) /\ Top \in Tasks
    BY TopIs
  <2>2. t.id = Top.id /\ t.from = Top.from /\ t.level = Top.level /\ t.step = step
    BY <1>1, <2>1 DEF Tasks
  <2>3. QED
    BY <2>1, <2>2 DEF TaskOK
<1>4. tasks' = [tasks EXCEPT ![Len(tasks)] = t]
  BY <1>1 DEF Advance, Top
<1>5. QED
  BY <1>1, <1>2, <1>3, <1>4, TaskTurns

SanitizerInv == HeapInv /\ TasksInv /\ MadeInv /\ seen \subseteq AppValues
Sane == SanitizerInv /\ Sanitizing /\ UNCHANGED walkVars

\* The call ends with a node that keeps nothing of the value.
LEMMA Degraded ==
  ASSUME Sane, NEW tag \in Tags, Store(TwoTexts), Make(tag), Leave
  PROVE  HeapInv' /\ TasksInv' /\ MadeInv' /\ Touches
<1>1. LibraryNode(TwoTexts) /\ OwnNodes(TwoTexts, Top.id.base)
  BY TwoTextsIs
<1>2. HeapInv' /\ Touches
  BY <1>1, Stored DEF Sane, SanitizerInv
<1>3. MadeInv'
  BY MakeIs DEF Sane, SanitizerInv
<1>4. TasksInv'
  BY <1>2, TaskLeaves DEF Sane, SanitizerInv
<1>5. QED
  BY <1>2, <1>3, <1>4

LEMMA IdentifyTypes ==
  ASSUME Sane, Identify
  PROVE  SanitizerInv' /\ Touches
<1>1. "unknown" \in Tags /\ "failed" \in Tags /\ "error" \in Tags
  BY DEF Tags
<1>2. ASSUME NEW tag \in Tags, Store(TwoTexts), Make(tag), Leave
      PROVE  HeapInv' /\ TasksInv' /\ MadeInv' /\ Touches
  BY <1>2, Degraded
<1>3. ASSUME Degrade PROVE HeapInv' /\ TasksInv' /\ MadeInv' /\ Touches
  BY <1>1, <1>2, <1>3 DEF Degrade
<1>4. CASE ~IsRecord(Top.from)
  <2>1. Store(TwoTexts) /\ Make("unknown") /\ Leave /\ seen' = seen
    BY <1>4 DEF Identify
  <2>2. QED
    BY <1>1, <1>2, <2>1 DEF Sane, SanitizerInv
<1>5. CASE IsRecord(Top.from)
  <2>1. PICK shape \in Readings(Top.from, {"name", "message"}) :
          IF shape = [k \in {"name", "message"} |-> Text]
             THEN /\ seen' = seen \cup {Top.from}
                  /\ \E head \in Readings(Top.from, {"name", "message"}) :
                       IF Fails(head) THEN Degrade
                       ELSE Store(TwoTexts) /\ Make("error") /\ Advance("stack")
             ELSE /\ \/ Degrade
                     \/ Store(TwoTexts) /\ Make("unknown") /\ Leave
                  /\ UNCHANGED seen
    BY <1>5 DEF Identify
  <2>2. seen' \subseteq AppValues
    BY <2>1, TopIs DEF Sane, SanitizerInv
  <2>3. \/ Degrade
        \/ Store(TwoTexts) /\ Make("unknown") /\ Leave
        \/ Store(TwoTexts) /\ Make("error") /\ Advance("stack")
    BY <2>1
  <2>4. ASSUME Store(TwoTexts), Make("error"), Advance("stack")
        PROVE  HeapInv' /\ TasksInv' /\ MadeInv' /\ Touches
    <3>1. LibraryNode(TwoTexts) /\ OwnNodes(TwoTexts, Top.id.base)
      BY TwoTextsIs
    <3>2. HeapInv' /\ Touches /\ Top.id \in DOMAIN heap'
      BY <2>4, <3>1, Stored DEF Sane, SanitizerInv
    <3>3. MadeInv'
      BY <1>1, <2>4, MakeIs DEF Sane, SanitizerInv
    <3>4. Top.from \in DOMAIN heap'
      BY <1>5, <3>2 DEF IsRecord, IsObject, Touches
    <3>5. "stack" \in TaskSteps
      BY DEF TaskSteps
    <3>6. TasksInv'
      BY <2>4, <3>2, <3>4, <3>5, Advanced DEF Sane, SanitizerInv
    <3>7. QED
      BY <3>2, <3>3, <3>6
  <2>5. HeapInv' /\ TasksInv' /\ MadeInv' /\ Touches
    BY <1>1, <1>2, <1>3, <2>3, <2>4
  <2>6. QED
    BY <2>2, <2>5 DEF SanitizerInv
<1>6. QED
  BY <1>4, <1>5

LEMMA MarkedIs ==
  ASSUME HeapInv, TasksInv, Sanitizing, Top.step # "identify"
  PROVE  LibraryNode(Marked) /\ OwnNodes(Marked, Top.id.base)
<1>1. Text \in Values \ {Throws} /\ Text \notin NodeIds
  BY ValuesApart DEF AppValues, Primitives, Values
<1>2. QED
  BY <1>1, BuiltIs, NamesAre, WithKeeps DEF Marked

LEMMA ReadStackTypes ==
  ASSUME Sane, ReadStack
  PROVE  SanitizerInv' /\ Touches
<1>1. /\ Top.step = "stack" /\ seen' = seen /\ Sanitizing
      /\ \/ Degrade
         \/ Lose /\ Store(Marked) /\ Advance("cause")
         \/ Store(With(Built, "stack", Text)) /\ Advance("cause") /\ UNCHANGED made
         \/ Advance("cause") /\ UNCHANGED <<heap, made>>
  BY Zenon DEF ReadStack
<1>2. CASE Degrade
  <2>1. "failed" \in Tags
    BY DEF Tags
  <2>2. QED
    BY <1>1, <1>2, <2>1, Degraded DEF Degrade, Sane, SanitizerInv
<1>3. ASSUME Advance("cause"), HeapInv', Touches, MadeInv'
      PROVE  SanitizerInv' /\ Touches
  <2>1. "cause" \in TaskSteps
    BY DEF TaskSteps
  <2>2. Top.id \in DOMAIN heap' /\ Top.from \in DOMAIN heap'
    BY <1>1, <1>3, BuiltIs DEF Sane, SanitizerInv, Touches
  <2>3. TasksInv'
    BY <1>1, <1>3, <2>1, <2>2, Advanced DEF Sane, SanitizerInv
  <2>4. QED
    BY <1>1, <1>3, <2>3 DEF Sane, SanitizerInv
<1>4. CASE Lose /\ Store(Marked) /\ Advance("cause")
  <2>1. MadeInv'
    BY <1>4, LoseIs DEF Sane, SanitizerInv
  <2>2. LibraryNode(Marked) /\ OwnNodes(Marked, Top.id.base)
    BY <1>1, MarkedIs DEF Sane, SanitizerInv
  <2>3. HeapInv' /\ Touches
    BY <1>4, <2>2, Stored DEF Sane, SanitizerInv
  <2>4. QED
    BY <1>3, <1>4, <2>1, <2>3
<1>5. CASE Store(With(Built, "stack", Text)) /\ Advance("cause") /\ UNCHANGED made
  <2>1. MadeInv'
    BY <1>5 DEF Sane, SanitizerInv, MadeInv
  <2>2. Text \in Values \ {Throws} /\ Text \notin NodeIds
    BY ValuesApart DEF AppValues, Primitives, Values
  <2>3. LibraryNode(Built) /\ OwnNodes(Built, Top.id.base)
    BY <1>1, BuiltIs DEF Sane, SanitizerInv
  <2>4. /\ LibraryNode(With(Built, "stack", Text))
        /\ OwnNodes(With(Built, "stack", Text), Top.id.base)
    BY <2>2, <2>3, NamesAre, WithKeeps
  <2>5. HeapInv' /\ Touches
    BY <1>5, <2>4, Stored DEF Sane, SanitizerInv
  <2>6. QED
    BY <1>3, <1>5, <2>1, <2>5
<1>6. CASE Advance("cause") /\ UNCHANGED <<heap, made>>
  <2>1. HeapInv' /\ Touches /\ MadeInv'
    BY <1>6 DEF Sane, SanitizerInv, HeapInv, Touches, MadeInv
  <2>2. QED
    BY <1>3, <1>6, <2>1
<1>7. QED
  BY <1>1, <1>2, <1>4, <1>5, <1>6

LEMMA ConcatRoute ==
  ASSUME NEW s \in Seq(Names), NEW t \in Seq(Names)
  PROVE  s \o t \in Seq(Names) /\ Len(s \o t) = Len(s) + Len(t)
BY ConcatProperties

\* What stands for a link, and the call made for it.
LEMMA ChildIs ==
  ASSUME TasksInv, Sanitizing, NEW v \in AppValues, NEW route \in Seq(Names), Len(route) \in {1, 2}
  PROVE  /\ Child(v, route) \in Values \ {Throws}
         /\ Child(v, route) \in NodeIds => Child(v, route).base = Top.id.base
         /\ Calls(v) =>
              LET c == Task(v, Child(v, route), Top.level + 1) IN
              /\ c \in Tasks
              /\ \A h : TaskOK(c, h, Len(stack))
              /\ c.id = Child(v, route) /\ c.id \in NodeIds
              /\ Len(c.id.route) = Len(Top.id.route) + Len(route)
<1>1. PICK id \in NodeIds : id = Id(Top.id.base, Top.id.route \o route)
                          /\ id.base = Top.id.base
                          /\ Len(id.route) = Len(Top.id.route) + Len(route)
  <2>1. Top.id.route \in Seq(Names) /\ Top.id.base \in Nat
    BY TopIs, IdIs
  <2>2. /\ Top.id.route \o route \in Seq(Names)
        /\ Len(Top.id.route \o route) = Len(Top.id.route) + Len(route)
    BY <2>1, ConcatRoute
  <2>3. PICK id : id = Id(Top.id.base, Top.id.route \o route)
    OBVIOUS
  <2>4. id \in NodeIds /\ id.base = Top.id.base /\ id.route = Top.id.route \o route
    BY <2>1, <2>2, <2>3 DEF Id, NodeIds
  <2>5. QED
    BY <2>2, <2>3, <2>4
<1>2. /\ DepthMarker \in Values \ {Throws} /\ DepthMarker \notin NodeIds
      /\ Text \in Values \ {Throws} /\ Text \notin NodeIds
      /\ id \in Values \ {Throws}
  <2>1. DepthMarker \in Library
    BY MarkersAre, ValuesApart
  <2>2. Library \subseteq Values /\ NodeIds \subseteq Values /\ Throws \in Primitives
        /\ Text \in Primitives /\ Primitives \subseteq Values
    BY DEF Values, Objects, Primitives
  <2>3. QED
    BY <2>1, <2>2, ValuesApart
<1>3. Child(v, route) = IF AtDepthLimit THEN DepthMarker ELSE IF WasSeen(v) THEN Text ELSE id
  BY <1>1 DEF Child
<1>4. ASSUME Calls(v)
      PROVE  LET c == Task(v, id, Top.level + 1) IN
             /\ c \in Tasks
             /\ \A h : TaskOK(c, h, Len(stack))
             /\ c.id = id
  <2>1. PICK c : c = Task(v, id, Top.level + 1)
    OBVIOUS
  <2>2. /\ c = [from |-> v, id |-> id, level |-> Top.level + 1, step |-> "identify",
               links |-> <<>>, left |-> 0]
    BY <2>1 DEF Task
  <2>3. <<>> \in Seq(AppValues) /\ 0 \in Int /\ "identify" \in TaskSteps /\ Top.level + 1 \in Nat
    BY TopIs DEF TaskSteps
  <2>4. c \in Tasks
    BY <2>2, <2>3 DEF Tasks
  <2>5. Top.level + 1 <= MaxCauseDepth
    BY <1>4, TopIs, IndexesAre DEF Calls, AtDepthLimit
  <2>6. id.base = Len(stack)
    BY <1>1, TopIs DEF TaskOK
  <2>7. \A h : TaskOK(c, h, Len(stack))
    BY <2>2, <2>5, <2>6 DEF TaskOK
  <2>8. QED
    BY <2>1, <2>2, <2>4, <2>7
<1>5. Calls(v) => Child(v, route) = id
  BY <1>3 DEF Calls
<1>6. QED
  BY <1>1, <1>2, <1>3, <1>4, <1>5

\* The call goes on in a step, after a call for the link or without one.
LEMMA Linking ==
  ASSUME TasksInv, Sanitizing, UNCHANGED walkVars, Touches,
         NEW t \in Tasks, t.id = Top.id, t.step \in {"errors", "members"},
         TaskOK(t, heap', Len(stack)),
         NEW v \in AppValues, NEW route \in Seq(Names),
         Len(route) = IF t.step = "members" THEN 2 ELSE 1,
         tasks' = [tasks EXCEPT ![Len(tasks)] = t]
                    \o (IF Calls(v) THEN <<Task(v, Child(v, route), Top.level + 1)>> ELSE <<>>)
  PROVE  /\ TasksInv' /\ Sanitizing'
         /\ ~Calls(v) => Top' = t /\ tasks' = [tasks EXCEPT ![Len(tasks)] = t]
         /\ Calls(v) => Top' = Task(v, Child(v, route), Top.level + 1)
<1>1. CASE Calls(v)
  <2>1. PICK c : c = Task(v, Child(v, route), Top.level + 1)
    OBVIOUS
  <2>2. /\ c \in Tasks /\ TaskOK(c, heap', Len(stack))
        /\ Len(c.id.route) = Len(Top.id.route) + Len(route)
    BY <1>1, <2>1, ChildIs
  <2>3. Below(t, c)
    <3>1. PICK n \in Nat : n = Len(Top.id.route)
      BY TopIs, IdIs
    <3>2. QED
      BY <2>2, <3>1 DEF Below
  <2>4. tasks' = [tasks EXCEPT ![Len(tasks)] = t] \o <<c>>
    BY <1>1, <2>1
  <2>5. QED
    BY <1>1, <2>1, <2>2, <2>3, <2>4, TaskCalls
<1>2. CASE ~Calls(v)
  <2>1. tasks' = [tasks EXCEPT ![Len(tasks)] = t]
    <3>1. PICK s \in Seq(Tasks) : s = [tasks EXCEPT ![Len(tasks)] = t]
      <4>1. PICK s : s = [tasks EXCEPT ![Len(tasks)] = t]
        OBVIOUS
      <4>2. tasks \in Seq(Tasks) /\ Len(tasks) \in 1..Len(tasks)
        BY TopIs DEF TasksInv
      <4>3. s \in Seq(Tasks)
        BY <4>1, <4>2, ExceptSeq
      <4>4. QED
        BY <4>1, <4>3
    <3>2. s \o <<>> = s
      BY ConcatEmptySeq
    <3>3. QED
      BY <1>2, <3>1, <3>2
  <2>2. QED
    BY <1>2, <2>1, TaskTurns
<1>3. QED
  BY <1>1, <1>2

LEMMA ReadCauseTypes ==
  ASSUME Sane, ReadCause
  PROVE  SanitizerInv' /\ Touches
<1>1. PICK cause \in Read(Top.from, "cause") :
       LET child == Child(cause, <<"cause">>) IN
       \/ /\ cause = Throws
          /\ Lose /\ Store(Marked) /\ Advance("errors")
       \/ /\ cause = Undefined
          /\ Advance("errors") /\ UNCHANGED <<heap, made>>
       \/ /\ cause \notin {Throws, Undefined}
          /\ Store(With(Built, "cause", child))
          /\ tasks' = [tasks EXCEPT ![Len(tasks)].step = "errors"]
                        \o (IF Calls(cause) THEN <<Task(cause, child, Top.level + 1)>> ELSE <<>>)
          /\ UNCHANGED made
  BY DEF ReadCause
<1>2. Top.step = "cause" /\ seen' = seen /\ Sanitizing
  BY DEF ReadCause
<1>3. /\ Top.id \in DOMAIN heap /\ Built = heap[Top.id]
      /\ LibraryNode(Built) /\ OwnNodes(Built, Top.id.base)
      /\ Top.from \in DOMAIN heap /\ Top.from \notin NodeIds
  BY <1>2, BuiltIs DEF Sane, SanitizerInv
<1>4. cause \in AppValues
  BY <1>1, <1>3, ReadsAre DEF Sane, SanitizerInv
<1>5. "errors" \in TaskSteps
  BY DEF TaskSteps
<1>6. CASE cause = Throws /\ Lose /\ Store(Marked) /\ Advance("errors")
  <2>1. LibraryNode(Marked) /\ OwnNodes(Marked, Top.id.base)
    BY <1>2, MarkedIs DEF Sane, SanitizerInv
  <2>2. HeapInv' /\ Touches /\ Top.id \in DOMAIN heap'
    BY <1>6, <2>1, Stored DEF Sane, SanitizerInv
  <2>3. MadeInv'
    BY <1>6, LoseIs DEF Sane, SanitizerInv
  <2>4. TasksInv'
    BY <1>3, <1>5, <1>6, <2>2, Advanced DEF Sane, SanitizerInv, Touches
  <2>5. QED
    BY <1>2, <2>2, <2>3, <2>4 DEF Sane, SanitizerInv
<1>7. CASE Advance("errors") /\ UNCHANGED <<heap, made>>
  <2>1. HeapInv' /\ Touches /\ MadeInv'
    BY <1>7 DEF Sane, SanitizerInv, HeapInv, Touches, MadeInv
  <2>2. TasksInv'
    BY <1>3, <1>5, <1>7, <2>1, Advanced DEF Sane, SanitizerInv
  <2>3. QED
    BY <1>2, <2>1, <2>2 DEF Sane, SanitizerInv
<1>8. CASE /\ Store(With(Built, "cause", Child(cause, <<"cause">>)))
           /\ tasks' = [tasks EXCEPT ![Len(tasks)].step = "errors"]
                        \o (IF Calls(cause)
                            THEN <<Task(cause, Child(cause, <<"cause">>), Top.level + 1)>> ELSE <<>>)
           /\ UNCHANGED made
  <2>1. PICK route \in Seq(Names) : route = <<"cause">> /\ Len(route) = 1
    BY NamesAre, OneIs
  <2>2. /\ Child(cause, route) \in Values \ {Throws}
        /\ Child(cause, route) \in NodeIds => Child(cause, route).base = Top.id.base
    BY <1>4, <2>1, ChildIs DEF Sane, SanitizerInv
  <2>3. PICK node : /\ node = With(Built, "cause", Child(cause, route))
                    /\ LibraryNode(node) /\ OwnNodes(node, Top.id.base)
    BY <1>3, <2>2, NamesAre, WithKeeps
  <2>4. HeapInv' /\ Touches /\ Top.id \in DOMAIN heap'
    BY <1>8, <2>1, <2>3, Stored DEF Sane, SanitizerInv
  <2>5. MadeInv'
    BY <1>8 DEF Sane, SanitizerInv, MadeInv
  <2>6. PICK t : t = [Top EXCEPT !.step = "errors"]
    OBVIOUS
  <2>7. t \in Tasks /\ t.id = Top.id /\ t.step = "errors" /\ t.from = Top.from /\ t.level = Top.level
    BY <1>5, <2>6, TopIs DEF Tasks, Sane, SanitizerInv
  <2>8. TaskOK(t, heap', Len(stack))
    BY <1>3, <2>4, <2>7, TopIs DEF TaskOK, Touches, Sane, SanitizerInv
  <2>9. tasks' = [tasks EXCEPT ![Len(tasks)] = t]
                    \o (IF Calls(cause) THEN <<Task(cause, Child(cause, route), Top.level + 1)>>
                        ELSE <<>>)
    BY <1>8, <2>1, <2>6 DEF Top
  <2>10. TasksInv'
    BY <1>4, <2>1, <2>4, <2>7, <2>8, <2>9, Linking DEF Sane, SanitizerInv
  <2>11. QED
    BY <1>2, <2>4, <2>5, <2>10 DEF Sane, SanitizerInv
<1>9. QED
  BY <1>1, <1>6, <1>7, <1>8

\* What a list to be written holds: its members are values of the application.
LEMMA ReadingIs ==
  ASSUME HeapInv, NEW v \in DOMAIN heap, v \notin NodeIds, NEW ks, NEW f \in Readings(v, ks)
  PROVE  /\ DOMAIN f = ks
         /\ \A k \in ks : f[k] \in Read(v, k) /\ f[k] \in AppValues
BY ReadsAre DEF Readings

\* What is read past the cap of a list the walk capped says how many are left out.
LEMMA LeftIs ==
  ASSUME HeapInv, NEW v \in DOMAIN heap, v \notin NodeIds, heap[v].kind = "array", NEW cut
  PROVE  LET n       == Len(heap[v].keys)
             carried == CarriedOmitted(cut)
             left    == IF carried > 0 THEN carried ELSE n - MaxAggregate
         IN left \in Int /\ left <= MaxOmitted
<1>1. PICK n \in Nat : n = Len(heap[v].keys) /\ n <= MaxAggregate + MaxOmitted
  BY ListsAreIndexed, IndexesAre
<1>2. PICK carried : carried = CarriedOmitted(cut)
  OBVIOUS
<1>3. carried \in 0..MaxOmitted
  BY <1>2, MarkersAre, IndexesAre DEF CarriedOmitted
<1>4. QED
  BY <1>1, <1>2, <1>3, IndexesAre

\* The members that are read are values of the application, and no more than the cap.
LEMMA MembersAre ==
  ASSUME HeapInv, NEW v \in DOMAIN heap, v \notin NodeIds, heap[v].kind = "array",
         NEW f \in Readings(v, ShownPlaces(v))
  PROVE  LET n == MinOf(Len(heap[v].keys), MaxAggregate) IN
         \E s \in Seq(AppValues) :
           s = [i \in 1..n |-> f[Indexes[i]]] /\ Len(s) = n /\ n <= MaxAggregate
<1>1. PICK n \in Nat : n = Len(heap[v].keys)
  BY ListsAreIndexed
<1>2. PICK a \in Nat : a = MaxAggregate
  BY IndexesAre
<1>3. PICK k \in Nat : k = MinOf(n, a) /\ k <= a
  BY <1>1, <1>2 DEF MinOf
<1>4. PICK s : s = [i \in 1..k |-> f[Indexes[i]]]
  OBVIOUS
<1>5. \A i \in 1..k : Indexes[i] \in ShownPlaces(v)
  BY <1>1, <1>2, <1>3 DEF ShownPlaces
<1>6. \A i \in 1..k : s[i] \in AppValues
  BY <1>4, <1>5, ReadingIs
<1>7. s \in Seq(AppValues) /\ Len(s) = k
  BY <1>4, <1>6
<1>8. QED
  BY <1>1, <1>2, <1>3, <1>4, <1>7

ReadsTheList(errors) ==
  \E reading \in Readings(errors, ShownPlaces(errors)) : \E cut \in Cut(errors) :
    LET n       == Len(heap[errors].keys)
        carried == CarriedOmitted(cut)
        left    == IF carried > 0 THEN carried ELSE n - MaxAggregate
    IN /\ ~Fails(reading)
       /\ heap' = Assign(Assign(heap, Top.id, With(Built, "errors", ListId)),
                         ListId, [NewList EXCEPT !.size = heap[errors].size])
       /\ made' = Assign(made, ListId,
                    [from |-> errors, tag |-> "list", level |-> Top.level, lost |-> FALSE])
       /\ tasks' = [tasks EXCEPT
            ![Len(tasks)].step  = "members",
            ![Len(tasks)].links = [i \in 1..MinOf(n, MaxAggregate) |-> reading[Indexes[i]]],
            ![Len(tasks)].left  = left]

LEMMA ListStored ==
  ASSUME HeapInv, TasksInv, Sanitizing, Top.step # "identify", NEW size \in Nat,
         heap' = Assign(Assign(heap, Top.id, With(Built, "errors", ListId)),
                        ListId, [NewList EXCEPT !.size = size])
  PROVE  /\ HeapInv' /\ Touches /\ ListId = ListOf(Top.id) /\ ListId # Top.id
         /\ ListId \in DOMAIN heap' /\ Top.id \in DOMAIN heap'
         /\ heap'[Top.id] = With(Built, "errors", ListId)
         /\ heap'[ListId] = [NewList EXCEPT !.size = size]
         /\ heap'[ListId].keys = <<>> /\ heap'[ListId].kind = "array"
         /\ heap'[ListId].size = size
<1>1. PICK id \in NodeIds : id = Top.id
  BY TopIs
<1>2. PICK list \in NodeIds : /\ list = ListId /\ list = ListOf(id) /\ list.base = id.base
                              /\ list # id
  <2>1. ListId = ListOf(id) /\ ListOf(id) \in NodeIds /\ ListOf(id).base = id.base
    BY <1>1, ListOfIs DEF ListId, ListOf
  <2>2. ListOf(id) # id
    BY <1>1, ListOfIs, IdIs
  <2>3. QED
    BY <2>1, <2>2
<1>3. PICK node : node = With(Built, "errors", list)
  OBVIOUS
<1>4. LibraryNode(node) /\ OwnNodes(node, id.base)
  <2>1. list \in Values \ {Throws}
    BY ValuesApart DEF Values, Objects, Primitives
  <2>2. QED
    BY <1>1, <1>2, <1>3, <2>1, NamesAre, BuiltIs, WithKeeps
<1>5. PICK new : new = [NewList EXCEPT !.size = size]
  OBVIOUS
<1>6. /\ LibraryNode(new) /\ OwnNodes(new, id.base) /\ new.kind = "array"
      /\ new.keys = <<>> /\ new.size = size
  BY <1>5, NewListIs
<1>7. PICK h : h = Assign(heap, id, node)
  OBVIOUS
<1>8. /\ \A x : x \in DOMAIN h <=> (x \in DOMAIN heap \/ x = id)
      /\ h[id] = node
      /\ \A x \in DOMAIN heap : x # id => h[x] = heap[x]
  BY <1>7, Assigned
<1>9. heap' = Assign(h, list, new)
  BY <1>1, <1>2, <1>3, <1>5, <1>7
<1>10. /\ \A x : x \in DOMAIN heap' <=> (x \in DOMAIN h \/ x = list)
       /\ heap'[list] = new
       /\ \A x \in DOMAIN h : x # list => heap'[x] = h[x]
  BY <1>9, Assigned
<1>11. /\ \A x : x \in DOMAIN heap' <=> (x \in DOMAIN heap \/ x = id \/ x = list)
       /\ heap'[list] = new /\ heap'[id] = node
       /\ \A x \in DOMAIN heap : x # list /\ x # id => heap'[x] = heap[x]
  BY <1>2, <1>8, <1>10
<1>12. DOMAIN heap' \subseteq Objects /\ Library \cup {Record, Thrown} \subseteq DOMAIN heap'
  BY <1>11 DEF HeapInv, Objects
<1>13. \A v \in DOMAIN heap' \ NodeIds : AppObject(heap'[v])
  BY <1>11 DEF HeapInv
<1>14. \A v \in DOMAIN heap' : v \in NodeIds \cup Library => LibraryNode(heap'[v])
  BY <1>4, <1>6, <1>11 DEF HeapInv
<1>15. \A v \in DOMAIN heap' : v \in NodeIds => OwnNodes(heap'[v], v.base)
  BY <1>2, <1>4, <1>6, <1>11 DEF HeapInv
<1>16. HeapInv'
  BY <1>12, <1>13, <1>14, <1>15 DEF HeapInv
<1>17. Touches
  BY <1>1, <1>2, <1>11 DEF Touches
<1>18. QED
  BY <1>1, <1>2, <1>3, <1>5, <1>6, <1>11, <1>16, <1>17

LEMMA ReadErrorsTypes ==
  ASSUME Sane, ReadErrors
  PROVE  SanitizerInv' /\ Touches
<1>1. PICK errors \in Read(Top.from, "errors") :
       \/ errors = Throws /\ Degrade
       \/ Advance("own") /\ UNCHANGED <<heap, made>>
       \/ Degrade
       \/ IsArray(errors) /\ ReadsTheList(errors)
  BY DEF ReadErrors, ReadsTheList
<1>2. Top.step = "errors" /\ seen' = seen /\ Sanitizing
  BY DEF ReadErrors
<1>3. /\ Top.id \in DOMAIN heap /\ Built = heap[Top.id]
      /\ LibraryNode(Built) /\ OwnNodes(Built, Top.id.base)
      /\ Top.from \in DOMAIN heap /\ Top.from \notin NodeIds
  BY <1>2, BuiltIs DEF Sane, SanitizerInv
<1>4. errors \in AppValues
  BY <1>1, <1>3, ReadsAre DEF Sane, SanitizerInv
<1>5. CASE Degrade
  <2>1. "failed" \in Tags
    BY DEF Tags
  <2>2. QED
    BY <1>2, <1>5, <2>1, Degraded DEF Degrade, Sane, SanitizerInv
<1>6. CASE Advance("own") /\ UNCHANGED <<heap, made>>
  <2>1. HeapInv' /\ Touches /\ MadeInv'
    BY <1>6 DEF Sane, SanitizerInv, HeapInv, Touches, MadeInv
  <2>2. "own" \in TaskSteps
    BY DEF TaskSteps
  <2>3. TasksInv'
    BY <1>3, <1>6, <2>1, <2>2, Advanced DEF Sane, SanitizerInv
  <2>4. QED
    BY <1>2, <2>1, <2>3 DEF Sane, SanitizerInv
<1>7. CASE IsArray(errors) /\ ReadsTheList(errors)
  <2>1. errors \in DOMAIN heap /\ errors \notin NodeIds /\ heap[errors].kind = "array"
    BY <1>4, <1>7, ValuesApart DEF IsArray, IsKind, IsObject
  <2>2. PICK reading \in Readings(errors, ShownPlaces(errors)) : \E cut \in Cut(errors) :
          LET n       == Len(heap[errors].keys)
              carried == CarriedOmitted(cut)
              left    == IF carried > 0 THEN carried ELSE n - MaxAggregate
          IN /\ ~Fails(reading)
             /\ heap' = Assign(Assign(heap, Top.id, With(Built, "errors", ListId)),
                               ListId, [NewList EXCEPT !.size = heap[errors].size])
             /\ made' = Assign(made, ListId,
                          [from |-> errors, tag |-> "list", level |-> Top.level, lost |-> FALSE])
             /\ tasks' = [tasks EXCEPT
                  ![Len(tasks)].step  = "members",
                  ![Len(tasks)].links = [i \in 1..MinOf(n, MaxAggregate) |->
                                           reading[Indexes[i]]],
                  ![Len(tasks)].left  = left]
    BY <1>7, Zenon DEF ReadsTheList
  <2>8. PICK shown \in Seq(AppValues) :
          /\ shown = [i \in 1..MinOf(Len(heap[errors].keys), MaxAggregate) |-> reading[Indexes[i]]]
          /\ Len(shown) <= MaxAggregate
    BY <2>1, MembersAre DEF Sane, SanitizerInv
  <2>3. /\ heap' = Assign(Assign(heap, Top.id, With(Built, "errors", ListId)),
                          ListId, [NewList EXCEPT !.size = heap[errors].size])
        /\ made' = Assign(made, ListId,
                    [from |-> errors, tag |-> "list", level |-> Top.level, lost |-> FALSE])
        /\ \E left : /\ left \in Int /\ left <= MaxOmitted
                     /\ tasks' = [tasks EXCEPT
                         ![Len(tasks)].step  = "members",
                         ![Len(tasks)].links = shown,
                         ![Len(tasks)].left  = left]
    BY <2>1, <2>2, <2>8, LeftIs DEF Sane, SanitizerInv
  <2>4. PICK size \in Nat : size = heap[errors].size
    BY <2>1, ObjectsAre DEF Sane, SanitizerInv
  <2>5. /\ HeapInv' /\ Touches /\ ListId = ListOf(Top.id) /\ ListId # Top.id
        /\ ListId \in DOMAIN heap' /\ Top.id \in DOMAIN heap' /\ heap'[ListId].keys = <<>>
    BY <1>2, <2>3, <2>4, ListStored DEF Sane, SanitizerInv
  <2>6. MadeInv'
    <3>1. PICK m : m = [from |-> errors, tag |-> "list", level |-> Top.level, lost |-> FALSE]
      OBVIOUS
    <3>2. m \in [from : AppValues, tag : Tags, level : Nat, lost : BOOLEAN]
      BY <1>4, <3>1, TopIs DEF Tags, Sane, SanitizerInv
    <3>3. /\ \A x : x \in DOMAIN made' <=> (x \in DOMAIN made \/ x = ListId)
          /\ made'[ListId] = m
          /\ \A x \in DOMAIN made : x # ListId => made'[x] = made[x]
      <4>1. made' = Assign(made, ListId, m)
        BY <2>3, <3>1
      <4>2. QED
        BY <4>1, Assigned
    <3>4. ListId \in NodeIds
      BY <2>5, TopIs, ListOfIs DEF Sane, SanitizerInv
    <3>5. QED
      BY <3>2, <3>3, <3>4 DEF MadeInv, Sane, SanitizerInv
  <2>7. PICK left \in Int :
          /\ left <= MaxOmitted
          /\ tasks' = [tasks EXCEPT
                           ![Len(tasks)].step  = "members",
                           ![Len(tasks)].links = shown,
                           ![Len(tasks)].left  = left]
    BY <2>3
  <2>9. PICK t : t = [Top EXCEPT !.step = "members", !.links = shown, !.left = left]
    OBVIOUS
  <2>10. /\ t \in Tasks /\ t.id = Top.id /\ t.step = "members" /\ t.from = Top.from
         /\ t.level = Top.level /\ t.links = shown /\ t.left = left
    <3>1. "members" \in TaskSteps
      BY DEF TaskSteps
    <3>2. QED
      BY <2>9, <3>1, TopIs DEF Tasks, Sane, SanitizerInv
  <2>11. TaskOK(t, heap', Len(stack))
    <3>1. TaskOK(Top, heap, Len(stack)) /\ Top.from \in DOMAIN heap'
      BY <1>3, <2>5, TopIs DEF Sane, SanitizerInv, Touches
    <3>2. Len(heap'[ListOf(t.id)].keys) + Len(t.links) <= MaxAggregate
      <4>1. Len(<<>>) = 0 /\ Len(shown) \in Nat
        BY LenProperties
      <4>2. heap'[ListOf(t.id)].keys = <<>>
        <5>1. t.id = Top.id
          BY <2>10
        <5>2. QED
          BY <2>5, <5>1
      <4>3. t.links = shown /\ Len(shown) <= MaxAggregate
        BY <2>8, <2>10
      <4>4. MaxAggregate \in Nat
        BY IndexesAre
      <4>5. QED
        BY <4>1, <4>2, <4>3, <4>4
    <3>3. QED
      BY <2>5, <2>7, <2>10, <3>1, <3>2 DEF TaskOK
  <2>12. tasks' = [tasks EXCEPT ![Len(tasks)] = t]
    BY <2>7, <2>8, <2>9 DEF Top
  <2>13. TasksInv'
    BY <2>5, <2>10, <2>11, <2>12, TaskTurns DEF Sane, SanitizerInv
  <2>14. QED
    BY <1>2, <2>5, <2>6, <2>13 DEF Sane, SanitizerInv
<1>8. QED
  BY <1>1, <1>5, <1>6, <1>7

\* The list gains a member, or the marker.
LEMMA ListGrows ==
  ASSUME HeapInv, TasksInv, Sanitizing, Top.step = "members",
         NEW v \in Values \ {Throws}, v \in NodeIds => v.base = Top.id.base,
         heap' = [heap EXCEPT ![ListId] = With(@, Place, v)]
  PROVE  /\ HeapInv' /\ Touches /\ ListId = ListOf(Top.id)
         /\ DOMAIN heap' = DOMAIN heap
         /\ Len(heap[ListId].keys) \in Nat /\ Len(heap'[ListId].keys) \in Nat
         /\ Len(heap'[ListId].keys) <= Len(heap[ListId].keys) + 1
         /\ heap'[ListId] = With(heap[ListId], Place, v)
<1>1. PICK list \in NodeIds : list = ListId /\ list = ListOf(Top.id) /\ list.base = Top.id.base
  BY TopIs, ListOfIs DEF ListId, ListOf
<1>2. list \in DOMAIN heap /\ Len(heap[list].keys) + Len(Top.links) <= MaxAggregate
  BY <1>1, TopIs DEF TaskOK
<1>3. LibraryNode(heap[list]) /\ OwnNodes(heap[list], Top.id.base)
  BY <1>1, <1>2 DEF HeapInv
<1>4. PICK n \in Nat : n = Len(heap[list].keys)
  BY <1>2, ObjectsAre, LenProperties
<1>5. Place \in Names
  <2>1. n + 1 \in 1..Len(Indexes)
    <3>1. PICK m \in Nat : m = Len(Top.links)
      BY TopIs, LenProperties
    <3>2. n + m <= MaxAggregate
      BY <1>2, <1>4, <3>1
    <3>3. QED
      BY <3>1, <3>2, IndexesAre
  <2>2. QED
    BY <1>1, <1>4, <2>1, IndexesAre DEF Place
<1>6. PICK node : node = With(heap[list], Place, v)
  OBVIOUS
<1>7. LibraryNode(node) /\ OwnNodes(node, list.base)
  BY <1>1, <1>3, <1>5, <1>6, WithKeeps
<1>8. heap' = [heap EXCEPT ![list] = node]
  BY <1>1, <1>6
<1>9. /\ HeapInv'
      /\ DOMAIN heap' = DOMAIN heap /\ heap'[list] = node
      /\ \A x \in DOMAIN heap : x # list => heap'[x] = heap[x]
  BY <1>2, <1>7, <1>8, Restoring
<1>10. Touches
  BY <1>1, <1>9 DEF Touches
<1>11. Len(node.keys) \in Nat /\ Len(node.keys) <= n + 1
  <2>1. CASE Place \in DOMAIN heap[list].field
    BY <1>4, <1>6, <2>1 DEF With
  <2>2. CASE Place \notin DOMAIN heap[list].field
    BY <1>2, <1>4, <1>5, <1>6, <2>2, WithIs, ObjectsAre
  <2>3. QED
    BY <2>1, <2>2
<1>12. QED
  BY <1>1, <1>4, <1>6, <1>9, <1>10, <1>11

LEMMA VisitMemberTypes ==
  ASSUME Sane, VisitMember
  PROVE  SanitizerInv' /\ Touches
<1>1. PICK v : v = Head(Top.links)
  OBVIOUS
<1>2. PICK route : route = <<"errors", Place>>
  OBVIOUS
<1>3. /\ Top.step = "members" /\ Top.links # <<>>
      /\ heap' = [heap EXCEPT ![ListId] = With(@, Place, Child(v, route))]
      /\ tasks' = [tasks EXCEPT ![Len(tasks)].links = Tail(@)]
                \o (IF Calls(v) THEN <<Task(v, Child(v, route), Top.level + 1)>> ELSE <<>>)
      /\ seen' = seen /\ made' = made
  BY <1>1, <1>2 DEF VisitMember
<1>4. PICK links_ \in Seq(AppValues) : links_ = Top.links
  BY TopIs DEF Sane, SanitizerInv
<1>5. v \in AppValues /\ Tail(links_) \in Seq(AppValues) /\ Len(Tail(links_)) = Len(links_) - 1
      /\ Len(links_) \in Nat
  BY <1>1, <1>3, <1>4, HeadTailProperties, LenProperties
<1>6. Place \in Names
  <2>1. PICK list : list = ListId /\ list = ListOf(Top.id) /\ list \in DOMAIN heap
    BY <1>3, TopIs DEF ListId, ListOf, TaskOK, Sane, SanitizerInv
  <2>2. PICK n \in Nat : n = Len(heap[list].keys)
    BY <2>1, ObjectsAre, LenProperties DEF Sane, SanitizerInv
  <2>3. n + Len(links_) <= MaxAggregate
    BY <1>3, <1>4, <2>1, <2>2, TopIs DEF TaskOK, Sane, SanitizerInv
  <2>4. n + 1 \in 1..Len(Indexes)
    BY <1>5, <2>3, IndexesAre
  <2>5. QED
    BY <2>1, <2>2, <2>4, IndexesAre DEF Place
<1>7. route \in Seq(Names) /\ Len(route) = 2
  BY <1>2, <1>6, NamesAre, TwoAre
<1>8. /\ Child(v, route) \in Values \ {Throws}
      /\ Child(v, route) \in NodeIds => Child(v, route).base = Top.id.base
  BY <1>5, <1>7, ChildIs DEF Sane, SanitizerInv
<1>9. /\ HeapInv' /\ Touches /\ ListId = ListOf(Top.id)
      /\ DOMAIN heap' = DOMAIN heap
      /\ Len(heap[ListId].keys) \in Nat /\ Len(heap'[ListId].keys) \in Nat
      /\ Len(heap'[ListId].keys) <= Len(heap[ListId].keys) + 1
  BY <1>3, <1>8, ListGrows DEF Sane, SanitizerInv
<1>10. PICK t : t = [Top EXCEPT !.links = Tail(links_)]
  OBVIOUS
<1>11. /\ t \in Tasks /\ t.id = Top.id /\ t.step = "members" /\ t.from = Top.from
       /\ t.level = Top.level /\ t.links = Tail(links_) /\ t.left = Top.left
  BY <1>3, <1>5, <1>10, TopIs DEF Tasks, Sane, SanitizerInv
<1>12. TaskOK(t, heap', Len(stack))
  <2>1. TaskOK(Top, heap, Len(stack))
    BY TopIs DEF Sane, SanitizerInv
  <2>2. Len(heap[ListId].keys) + Len(links_) <= MaxAggregate
    BY <1>3, <1>4, <1>9, <2>1 DEF TaskOK
  <2>3. MaxAggregate \in Nat
    BY IndexesAre
  <2>4. Len(heap'[ListId].keys) + Len(Tail(links_)) <= MaxAggregate
    BY <1>5, <1>9, <2>2, <2>3
  <2>5. QED
    BY <1>3, <1>9, <1>11, <2>1, <2>4 DEF TaskOK
<1>13. tasks' = [tasks EXCEPT ![Len(tasks)] = t]
                  \o (IF Calls(v) THEN <<Task(v, Child(v, route), Top.level + 1)>> ELSE <<>>)
  <2>1. [tasks EXCEPT ![Len(tasks)].links = Tail(@)] = [tasks EXCEPT ![Len(tasks)] = t]
    BY <1>4, <1>10 DEF Top
  <2>2. QED
    BY <1>3, <2>1
<1>14. TasksInv'
  BY <1>5, <1>7, <1>9, <1>11, <1>12, <1>13, Linking DEF Sane, SanitizerInv
<1>15. QED
  BY <1>3, <1>9, <1>14 DEF Sane, SanitizerInv, MadeInv

LEMMA MembersDoneTypes ==
  ASSUME Sane, MembersDone
  PROVE  SanitizerInv' /\ Touches
<1>1. /\ Top.step = "members" /\ Advance("own") /\ seen' = seen /\ made' = made
      /\ heap' = IF Top.left > 0
                 THEN [heap EXCEPT ![ListId] = With(@, Place, WidthMarker(Top.left))]
                 ELSE heap
  BY DEF MembersDone
<1>2. HeapInv' /\ Touches
  <2>1. CASE Top.left > 0
    <3>1. Top.left \in 1..MaxOmitted
      BY <1>1, <2>1, TopIs DEF TaskOK, Sane, SanitizerInv
    <3>2. WidthMarker(Top.left) \in Markers
      BY <3>1, MarkersAre
    <3>3. WidthMarker(Top.left) \in Values \ {Throws} /\ WidthMarker(Top.left) \notin NodeIds
      BY <3>2, ValuesApart DEF Values, Objects, Primitives
    <3>4. QED
      BY <1>1, <2>1, <3>3, ListGrows DEF Sane, SanitizerInv
  <2>2. CASE ~(Top.left > 0)
    BY <1>1, <2>2 DEF Sane, SanitizerInv, HeapInv, Touches
  <2>3. QED
    BY <2>1, <2>2
<1>3. "own" \in TaskSteps
  BY DEF TaskSteps
<1>4. Top.id \in DOMAIN heap' /\ Top.from \in DOMAIN heap'
  BY <1>1, <1>2, BuiltIs DEF Sane, SanitizerInv, Touches
<1>5. TasksInv'
  BY <1>1, <1>2, <1>3, <1>4, Advanced DEF Sane, SanitizerInv
<1>6. QED
  BY <1>1, <1>2, <1>5 DEF Sane, SanitizerInv, MadeInv

LEMMA Joined ==
  ASSUME NEW s \in Seq(Names), NEW t \in Seq(Names), OneEach(s), OneEach(t),
         Elements(s) \cap Elements(t) = {}
  PROVE  /\ s \o t \in Seq(Names) /\ OneEach(s \o t)
         /\ Elements(s \o t) = Elements(s) \cup Elements(t)
<1>1. PICK m \in Nat : m = Len(s) /\ DOMAIN s = 1..m
  BY LenProperties
<1>2. PICK n \in Nat : n = Len(t) /\ DOMAIN t = 1..n
  BY LenProperties
<1>3. PICK u \in Seq(Names) :
        /\ u = s \o t /\ Len(u) = m + n /\ DOMAIN u = 1..(m + n)
        /\ \A i \in 1..(m + n) : u[i] = IF i <= m THEN s[i] ELSE t[i - m]
  <2>1. PICK u : u = s \o t
    OBVIOUS
  <2>2. /\ u \in Seq(Names) /\ Len(u) = m + n
        /\ \A i \in 1..(m + n) : u[i] = IF i <= m THEN s[i] ELSE t[i - m]
    BY <1>1, <1>2, <2>1, ConcatProperties
  <2>3. DOMAIN u = 1..(m + n)
    BY <2>2, LenProperties
  <2>4. QED
    BY <2>1, <2>2, <2>3
<1>4. \A i \in 1..m : i \in 1..(m + n) /\ u[i] = s[i]
  BY <1>3
<1>5. \A j \in 1..n : m + j \in 1..(m + n) /\ u[m + j] = t[j]
  <2>1. ASSUME NEW j \in 1..n PROVE m + j \in 1..(m + n) /\ u[m + j] = t[j]
    <3>1. m + j \in 1..(m + n) /\ ~ (m + j <= m) /\ (m + j) - m = j
      OBVIOUS
    <3>2. QED
      BY <1>3, <3>1
  <2>2. QED
    BY <2>1
<1>6. ASSUME NEW i \in 1..(m + n) PROVE i \in 1..m \/ \E j \in 1..n : i = m + j
  <2>1. CASE i <= m
    BY <2>1
  <2>2. CASE ~ i <= m
    <3>1. i - m \in 1..n /\ i = m + (i - m)
      BY <2>2
    <3>2. QED
      BY <3>1
  <2>3. QED
    BY <2>1, <2>2
<1>7. Elements(u) = Elements(s) \cup Elements(t)
  <2>1. ASSUME NEW e \in Elements(u) PROVE e \in Elements(s) \cup Elements(t)
    <3>1. PICK i \in 1..(m + n) : u[i] = e
      BY <2>1, <1>3 DEF Elements
    <3>2. CASE i \in 1..m
      BY <3>1, <3>2, <1>1, <1>4 DEF Elements
    <3>3. ASSUME NEW j \in 1..n, i = m + j PROVE e \in Elements(t)
      BY <3>1, <3>3, <1>2, <1>5 DEF Elements
    <3>4. QED
      BY <3>2, <3>3, <1>6
  <2>2. ASSUME NEW e \in Elements(s) \cup Elements(t) PROVE e \in Elements(u)
    <3>1. \A i \in 1..m : s[i] \in Elements(u)
      BY <1>3, <1>4 DEF Elements
    <3>2. \A j \in 1..n : t[j] \in Elements(u)
      <4>1. ASSUME NEW j \in 1..n PROVE t[j] \in Elements(u)
        <5>1. m + j \in DOMAIN u /\ u[m + j] = t[j]
          BY <1>3, <1>5
        <5>2. QED
          BY <5>1 DEF Elements
      <4>2. QED
        BY <4>1
    <3>3. QED
      BY <2>2, <3>1, <3>2, <1>1, <1>2 DEF Elements
  <2>3. QED
    BY <2>1, <2>2
<1>8. ASSUME NEW i \in 1..m, NEW j \in 1..n PROVE s[i] # t[j]
  BY <1>1, <1>2 DEF Elements
<1>9. ASSUME NEW i \in 1..(m + n), NEW j \in 1..(m + n), u[i] = u[j] PROVE i = j
  <2>1. CASE i \in 1..m /\ j \in 1..m
    BY <2>1, <1>1, <1>4, <1>9 DEF OneEach
  <2>2. ASSUME NEW a \in 1..m, NEW b \in 1..n PROVE u[a] # u[m + b]
    BY <1>4, <1>5, <1>8
  <2>3. ASSUME NEW a \in 1..n, NEW b \in 1..n, u[m + a] = u[m + b] PROVE a = b
    BY <2>3, <1>2, <1>5 DEF OneEach
  <2>4. QED
    BY <2>1, <2>2, <2>3, <1>6, <1>9
<1>10. OneEach(u)
  BY <1>3, <1>9 DEF OneEach
<1>11. QED
  BY <1>3, <1>7, <1>10

\* The fields that are copied: keys of the value that are neither omitted nor written.
LEMMA CopyableIs ==
  ASSUME HeapInv, NEW v \in DOMAIN heap, NEW reading
  PROVE  /\ Copyable(v, reading) \in Seq(Names) /\ OneEach(Copyable(v, reading))
         /\ Elements(Copyable(v, reading)) \subseteq KeysOf(v)
         /\ \A k \in Elements(Copyable(v, reading)) :
              /\ ~OmitsOwnField(v, k, reading[k])
              /\ k \notin DERIVED_ERROR_FIELDS /\ k \notin DOMAIN Built.field
<1>1. PICK keys \in Seq(Names) : keys = heap[v].keys /\ OneEach(keys) /\ Elements(keys) = KeysOf(v)
  BY ObjectsAre
<1>2. PICK ks : ks = {k \in KeysOf(v) : OmitsOwnField(v, k, reading[k])}
                          \cup DERIVED_ERROR_FIELDS \cup DOMAIN Built.field
  OBVIOUS
<1>3. Copyable(v, reading) = Without(keys, ks)
  BY <1>1, <1>2 DEF Copyable
<1>4. /\ Without(keys, ks) \in Seq(Names) /\ OneEach(Without(keys, ks))
      /\ Elements(Without(keys, ks)) = KeysOf(v) \ ks
  BY <1>1, WithoutProperties
<1>5. QED
  BY <1>2, <1>3, <1>4

\* The node with the fields copied.
WithFields(node, v, copied, reading) ==
  LET new == Elements(copied) IN
  [node EXCEPT
     !.keys = @ \o copied,
     !.field = Over(@, [k \in new |-> {OwnFieldForLog(k, reading[k])}]),
     !.via  = IF "toJSON" \in new THEN "method" ELSE @,
     !.form = IF "toJSON" \in new THEN heap[v].form ELSE @]

LEMMA OwnFieldIs ==
  ASSUME NEW k, NEW a \in AppValues, a # Throws
  PROVE  OwnFieldForLog(k, a) \in Values \ {Throws} /\ OwnFieldForLog(k, a) \notin NodeIds
<1>1. /\ CommandName \in Values /\ CommandName # Throws /\ CommandName \notin NodeIds
      /\ Text \in Values /\ Text # Throws /\ Text \notin NodeIds
      /\ a \in Values /\ a \notin NodeIds
  BY ValuesApart DEF Values, Objects, Primitives
<1>2. QED
  BY <1>1 DEF OwnFieldForLog, WithBinaryAsSize

LEMMA WithFieldsIs ==
  ASSUME HeapInv, NEW node, LibraryNode(node), NEW base, OwnNodes(node, base),
         NEW v \in DOMAIN heap, NEW copied \in Seq(Names), OneEach(copied), NEW reading,
         \A k \in Elements(copied) :
           k \notin DOMAIN node.field /\ reading[k] \in AppValues /\ reading[k] # Throws
  PROVE  LET w == WithFields(node, v, copied, reading) IN
         /\ LibraryNode(w) /\ OwnNodes(w, base) /\ w.kind = node.kind /\ w.size = node.size
         /\ \A k : k \in DOMAIN w.field <=> (k \in DOMAIN node.field \/ k \in Elements(copied))
         /\ \A k \in DOMAIN node.field : w.field[k] = node.field[k]
         /\ \A k \in Elements(copied) : w.field[k] = {OwnFieldForLog(k, reading[k])}
<1>1. PICK w : w = WithFields(node, v, copied, reading)
  OBVIOUS
<1>2. /\ DOMAIN node = NodeFields /\ node.keys \in Seq(Names) /\ OneEach(node.keys)
      /\ node.kind \in Kinds /\ node.via \in Vias /\ node.size \in Nat /\ node.sqlState \in BOOLEAN
      /\ DOMAIN node.field \subseteq Names
      /\ \A x \in DOMAIN node.field : node.field[x] \subseteq Values
      /\ node.form \subseteq Values
  BY WellFormedIs DEF LibraryNode
<1>3. PICK new : new = Elements(copied) /\ new \subseteq Names
  <2>1. Elements(copied) \subseteq Names
    BY ElementOfSeq, LenProperties DEF Elements
  <2>2. QED
    BY <2>1
<1>4. PICK f : f = node.field
  OBVIOUS
<1>5. PICK g : g = [k \in new |-> {OwnFieldForLog(k, reading[k])}]
  OBVIOUS
<1>6. PICK h : h = Over(f, g)
  OBVIOUS
<1>7. /\ DOMAIN w = NodeFields /\ w.kind = node.kind /\ w.size = node.size
      /\ w.sqlState = node.sqlState /\ w.keys = node.keys \o copied /\ w.field = h
      /\ w.via = IF "toJSON" \in new THEN "method" ELSE node.via
      /\ w.form = IF "toJSON" \in new THEN heap[v].form ELSE node.form
  <2>1. w = [node EXCEPT
               !.keys = @ \o copied,
               !.field = h,
               !.via  = IF "toJSON" \in new THEN "method" ELSE @,
               !.form = IF "toJSON" \in new THEN heap[v].form ELSE @]
    BY <1>1, <1>3, <1>4, <1>5, <1>6 DEF WithFields
  <2>2. QED
    BY <1>2, <2>1 DEF NodeFields
<1>8. /\ \A x : x \in DOMAIN h <=> (x \in DOMAIN f \/ x \in new)
      /\ \A x \in DOMAIN f : h[x] = f[x]
      /\ \A x \in new : x \notin DOMAIN f => h[x] = g[x]
  <2>1. /\ \A x : x \in DOMAIN h <=> (x \in DOMAIN f \/ x \in DOMAIN g)
        /\ \A x \in DOMAIN f : h[x] = f[x]
        /\ \A x \in DOMAIN g : x \notin DOMAIN f => h[x] = g[x]
    BY <1>6, Overlaid
  <2>2. DOMAIN g = new
    BY <1>5
  <2>3. QED
    BY <2>1, <2>2
<1>9. \A x \in new : h[x] = {OwnFieldForLog(x, reading[x])}
  BY <1>3, <1>4, <1>5, <1>8
<1>10. ASSUME NEW x \in DOMAIN h
       PROVE  /\ h[x] \subseteq Values /\ Throws \notin h[x]
              /\ \A a \in h[x] : a \in NodeIds => a.base = base
  <2>1. CASE x \in DOMAIN f
    BY <2>1, <1>2, <1>4, <1>8 DEF LibraryNode, OwnNodes
  <2>2. CASE x \in new
    <3>1. OwnFieldForLog(x, reading[x]) \in Values \ {Throws}
          /\ OwnFieldForLog(x, reading[x]) \notin NodeIds
      BY <2>2, <1>3, OwnFieldIs
    <3>2. QED
      BY <2>2, <1>9, <3>1
  <2>3. QED
    BY <2>1, <2>2, <1>8
<1>11. PICK s \in Seq(Names) : s = node.keys /\ OneEach(s) /\ Elements(s) = DOMAIN f
  BY <1>2, <1>4 DEF LibraryNode
<1>12. /\ w.keys \in Seq(Names) /\ OneEach(w.keys) /\ Elements(w.keys) = DOMAIN f \cup new
  <2>1. Elements(s) \cap Elements(copied) = {}
    BY <1>3, <1>4, <1>11
  <2>2. /\ s \o copied \in Seq(Names) /\ OneEach(s \o copied)
        /\ Elements(s \o copied) = Elements(s) \cup Elements(copied)
    BY <1>11, <2>1, Joined
  <2>3. QED
    BY <1>3, <1>7, <1>11, <2>2
<1>13. w.via \in {"none", "method"} /\ w.via \in Vias /\ w.form \subseteq AppValues
  <2>1. heap[v].form \subseteq AppValues
    BY ObjectsAre
  <2>2. node.via \in {"none", "method"} /\ node.form \subseteq AppValues
    BY DEF LibraryNode
  <2>3. QED
    BY <1>7, <2>1, <2>2 DEF Vias
<1>14. WellFormed(w, Values)
  <2>1. DOMAIN w.field \subseteq Names
    BY <1>2, <1>3, <1>4, <1>7, <1>8
  <2>2. \A x \in DOMAIN w.field : w.field[x] \subseteq Values
    BY <1>7, <1>10
  <2>3. w.form \subseteq Values
    BY <1>13, ValuesApart
  <2>4. QED
    BY <1>2, <1>7, <1>12, <1>13, <2>1, <2>2, <2>3, WellFormedIs
<1>15. LibraryNode(w)
  <2>1. Elements(w.keys) = DOMAIN w.field
    BY <1>7, <1>8, <1>12
  <2>2. w.kind \in {"object", "array"}
    BY <1>7 DEF LibraryNode
  <2>3. QED
    BY <1>7, <1>10, <1>13, <1>14, <2>1, <2>2 DEF LibraryNode
<1>16. OwnNodes(w, base)
  BY <1>7, <1>10 DEF OwnNodes
<1>17. QED
  BY <1>1, <1>3, <1>4, <1>7, <1>8, <1>9, <1>15, <1>16

Copies(v, ks) ==
  \E reading \in Readings(v, ks) :
    LET copied == IF ks = {} THEN <<>> ELSE Copyable(v, reading) IN
    IF Fails(reading)
    THEN Lose /\ Store(Marked)
    ELSE /\ Store(WithFields(Built, v, copied, reading))
         /\ UNCHANGED made

\* What the last step of the call makes of the node: all of the fields that may be copied,
\* or the mark that they could not be read.
LEMMA CopyIs ==
  ASSUME Sane, CopyOwnFields
  PROVE  /\ Top.step = "own" /\ Leave /\ seen' = seen
         /\ \/ Lose /\ Store(Marked)
            \/ \E copied, reading :
                 /\ copied \in Seq(Names)
                 /\ OneEach(copied) /\ Elements(copied) \subseteq KeysOf(Top.from)
                 /\ \A k \in Elements(copied) :
                      /\ ~OmitsOwnField(Top.from, k, reading[k])
                      /\ k \notin DERIVED_ERROR_FIELDS /\ k \notin DOMAIN Built.field
                      /\ reading[k] \in AppValues /\ reading[k] # Throws
                 /\ Store(WithFields(Built, Top.from, copied, reading))
                 /\ made' = made
<1>1. /\ Top.step = "own" /\ Leave /\ seen' = seen
  BY DEF CopyOwnFields
<1>2. PICK v : v = Top.from /\ v \in DOMAIN heap /\ v \notin NodeIds
  BY <1>1, BuiltIs DEF Sane, SanitizerInv
<1>3. PICK ks : ks = IF IsArray(v) THEN {} ELSE KeysOf(v)
  OBVIOUS
<1>4. PICK reading \in Readings(v, ks) :
        LET copied == IF ks = {} THEN <<>> ELSE Copyable(v, reading) IN
        \/ Lose /\ Store(Marked)
        \/ /\ ~Fails(reading)
           /\ Store(WithFields(Built, v, copied, reading))
           /\ made' = made
  <2>1. Copies(Top.from, IF IsArray(Top.from) THEN {} ELSE KeysOf(Top.from))
    BY Zenon DEF CopyOwnFields, Copies, WithFields, Elements
  <2>2. Copies(v, ks)
    BY <1>2, <1>3, <2>1
  <2>3. QED
    BY <2>2 DEF Copies
<1>5. CASE Lose /\ Store(Marked)
  BY <1>1, <1>5
<1>6. CASE ~(Lose /\ Store(Marked))
  <2>1. PICK copied : copied = IF ks = {} THEN <<>> ELSE Copyable(v, reading)
    OBVIOUS
  <2>2. Store(WithFields(Built, v, copied, reading)) /\ made' = made /\ ~Fails(reading)
    BY <1>4, <1>6, <2>1
  <2>3. DOMAIN reading = ks /\ \A k \in ks : reading[k] \in AppValues
    BY <1>2, ReadingIs DEF Sane, SanitizerInv
  <2>4. CASE ks = {}
    <3>1. copied \in Seq(Names) /\ OneEach(copied) /\ Elements(copied) = {}
      BY <2>1, <2>4 DEF Elements, OneEach
    <3>2. QED
      BY <1>1, <1>2, <2>2, <3>1
  <2>5. CASE ks # {}
    <3>1. ks = KeysOf(v) /\ copied = Copyable(v, reading)
      BY <1>3, <2>1, <2>5
    <3>2. /\ copied \in Seq(Names) /\ OneEach(copied) /\ Elements(copied) \subseteq KeysOf(v)
          /\ \A k \in Elements(copied) :
              /\ ~OmitsOwnField(v, k, reading[k])
              /\ k \notin DERIVED_ERROR_FIELDS /\ k \notin DOMAIN Built.field
      BY <1>2, <3>1, CopyableIs DEF Sane, SanitizerInv
    <3>3. \A k \in ks : reading[k] # Throws
      BY <2>2, <2>3 DEF Fails
    <3>4. QED
      BY <1>1, <1>2, <2>2, <2>3, <3>1, <3>2, <3>3
  <2>6. QED
    BY <2>4, <2>5
<1>7. QED
  BY <1>5, <1>6

LEMMA CopyOwnFieldsTypes ==
  ASSUME Sane, CopyOwnFields
  PROVE  SanitizerInv' /\ Touches
<1>1. Top.step = "own" /\ Leave /\ seen' = seen
  BY CopyIs
<1>2. LibraryNode(Built) /\ OwnNodes(Built, Top.id.base) /\ Top.from \in DOMAIN heap
  BY <1>1, BuiltIs DEF Sane, SanitizerInv
<1>3. PICK node : LibraryNode(node) /\ OwnNodes(node, Top.id.base) /\ Store(node) /\ MadeInv'
  <2>1. CASE Lose /\ Store(Marked)
    <3>1. LibraryNode(Marked) /\ OwnNodes(Marked, Top.id.base)
      BY <1>1, MarkedIs DEF Sane, SanitizerInv
    <3>2. QED
      BY <2>1, <3>1, LoseIs DEF Sane, SanitizerInv
  <2>2. ASSUME NEW copied \in Seq(Names), NEW reading, OneEach(copied),
               \A k \in Elements(copied) :
                      /\ ~OmitsOwnField(Top.from, k, reading[k])
                      /\ k \notin DERIVED_ERROR_FIELDS /\ k \notin DOMAIN Built.field
                      /\ reading[k] \in AppValues /\ reading[k] # Throws,
               Store(WithFields(Built, Top.from, copied, reading)),
               made' = made
        PROVE  \E node : LibraryNode(node) /\ OwnNodes(node, Top.id.base) /\ Store(node) /\ MadeInv'
    <3>1. PICK node : node = WithFields(Built, Top.from, copied, reading)
      OBVIOUS
    <3>2. LibraryNode(node) /\ OwnNodes(node, Top.id.base)
      BY <1>2, <2>2, <3>1, WithFieldsIs DEF Sane, SanitizerInv
    <3>3. MadeInv'
      BY <2>2 DEF MadeInv, Sane, SanitizerInv
    <3>4. QED
      BY <2>2, <3>1, <3>2, <3>3
  <2>3. QED
    BY <2>1, <2>2, CopyIs
<1>4. HeapInv' /\ Touches
  BY <1>3, Stored DEF Sane, SanitizerInv
<1>5. TasksInv'
  BY <1>1, <1>4, TaskLeaves DEF Sane, SanitizerInv
<1>6. QED
  BY <1>1, <1>3, <1>4, <1>5 DEF Sane, SanitizerInv

(***************************************************************************)
(* The sanitizer keeps the types.                                          *)
(***************************************************************************)

LEMMA SanitizeTypes ==
  ASSUME Types, Sanitize
  PROVE  Types' /\ Touches
<1>1. Sane
  BY DEF Sane, SanitizerInv, Types, ScalarsInv, Sanitize, SanitizerStep,
         Identify, ReadStack, ReadCause, ReadErrors, VisitMember, MembersDone, CopyOwnFields
<1>2. SanitizerInv' /\ Touches
  BY <1>1, IdentifyTypes, ReadStackTypes, ReadCauseTypes, ReadErrorsTypes, VisitMemberTypes,
     MembersDoneTypes, CopyOwnFieldsTypes DEF Sanitize, SanitizerStep
<1>3. UNCHANGED <<policy, stack, out, phase, raised, visits, admitted, thrower, links>>
  BY DEF Sanitize, SanitizerStep, walkVars,
         Identify, ReadStack, ReadCause, ReadErrors, VisitMember, MembersDone, CopyOwnFields
<1>4. DOMAIN heap \subseteq DOMAIN heap'
  BY <1>2 DEF Touches
<1>5. StackInv'
  <2>1. stack' = stack
    BY <1>3
  <2>2. \A i \in DOMAIN stack : FrameOK(stack[i], i, DOMAIN heap')
    BY <1>4 DEF Types, StackInv, FrameOK
  <2>3. QED
    BY <2>1, <2>2 DEF Types, StackInv
<1>6. OutInv' /\ ScalarsInv'
  BY <1>2, <1>3 DEF Types, OutInv, ScalarsInv, SanitizerInv
<1>7. QED
  BY <1>2, <1>5, <1>6 DEF Types, SanitizerInv

-----------------------------------------------------------------------------
(***************************************************************************)
(* The calls of walk.                                                      *)
(***************************************************************************)

LEMMA FIs ==
  ASSUME StackInv, stack # <<>>
  PROVE  /\ Len(stack) \in Nat \ {0} /\ DOMAIN stack = 1..Len(stack)
         /\ F \in Frames /\ FrameOK(F, Len(stack), DOMAIN heap) /\ F = stack[Len(stack)]
         /\ Rest \in Seq(Frames) /\ Len(Rest) = Len(stack) - 1
         /\ DOMAIN Rest = 1..(Len(stack) - 1)
         /\ \A i \in 1..(Len(stack) - 1) :
              /\ i \in DOMAIN stack /\ i # Len(stack) /\ Rest[i] = stack[i] /\ stack[i] \in Frames
              /\ stack[i].step \in Waiting
<1>1. stack \in Seq(Frames)
  BY DEF StackInv
<1>2. PICK n \in Nat \ {0} : n = Len(stack) /\ DOMAIN stack = 1..n
  BY <1>1, EmptySeq, LenProperties
<1>3. ASSUME NEW i \in 1..n PROVE stack[i] \in Frames
  BY <1>1, <1>2, <1>3, ElementOfSeq
<1>4. F \in Frames /\ FrameOK(F, n, DOMAIN heap) /\ F = stack[n]
  BY <1>2, <1>3 DEF StackInv, F
<1>5. \A i \in 1..(n - 1) : i \in 1..n /\ i # n /\ stack[i] \in Frames
  BY <1>2, <1>3
<1>6. /\ Rest \in Seq(Frames) /\ Len(Rest) = IF 1 <= n - 1 THEN n - 1 - 1 + 1 ELSE 0
      /\ \A i \in 1..(n - 1 - 1 + 1) : Rest[i] = stack[1 + i - 1]
  <2>1. 1 \in Int /\ n - 1 \in Int
    OBVIOUS
  <2>2. Rest = SubSeq(stack, 1, n - 1)
    BY <1>2 DEF Rest
  <2>3. QED
    BY <1>5, <2>1, <2>2, SubSeqProperties
<1>7. Len(Rest) = n - 1 /\ \A i \in 1..(n - 1) : Rest[i] = stack[i]
  BY <1>6
<1>8. DOMAIN Rest = 1..(n - 1)
  BY <1>6, <1>7, LenProperties
<1>9. \A i \in 1..(n - 1) : stack[i].step \in Waiting
  BY <1>2, <1>5 DEF StackInv
<1>10. QED
  BY <1>2, <1>4, <1>5, <1>6, <1>7, <1>8, <1>9

\* The calls around the innermost keep their values.
OuterKept == \A i \in DOMAIN stack : i # Len(stack) => FrameOK(stack[i], i, DOMAIN heap')

LEMMA StackEnds ==
  ASSUME StackInv, stack # <<>>, OuterKept, Ends
  PROVE  StackInv'
<1>1. PICK n \in Nat \ {0} : n = Len(stack)
  BY FIs
<1>2. /\ stack' \in Seq(Frames) /\ Len(stack') = n - 1 /\ DOMAIN stack' = 1..(n - 1)
      /\ \A i \in 1..(n - 1) :
           /\ i \in DOMAIN stack /\ i # n /\ stack'[i] = stack[i]
           /\ stack[i].step \in Waiting
  BY <1>1, FIs DEF Ends
<1>3. \A i \in DOMAIN stack' : FrameOK(stack'[i], i, DOMAIN heap')
  BY <1>1, <1>2 DEF OuterKept
<1>4. \A i \in DOMAIN stack' : i # Len(stack') => stack'[i].step \in Waiting
  BY <1>2
<1>5. QED
  BY <1>2, <1>3, <1>4 DEF StackInv

LEMMA StackTurns ==
  ASSUME StackInv, stack # <<>>, OuterKept, NEW f \in Frames,
         FrameOK(f, Len(stack), DOMAIN heap'), Turns(f)
  PROVE  /\ StackInv' /\ stack' # <<>> /\ Len(stack') = Len(stack) /\ F' = f
         /\ DOMAIN stack' = 1..Len(stack)
         /\ \A i \in 1..(Len(stack) - 1) : stack'[i] = stack[i]
<1>1. PICK n \in Nat \ {0} : n = Len(stack)
  BY FIs
<1>2. /\ Rest \in Seq(Frames) /\ Len(Rest) = n - 1
      /\ \A i \in 1..(n - 1) :
           /\ i \in DOMAIN stack /\ i # n /\ Rest[i] = stack[i]
           /\ stack[i].step \in Waiting
  BY <1>1, FIs
<1>3. /\ stack' \in Seq(Frames) /\ Len(stack') = n /\ stack'[n] = f
      /\ \A i \in 1..(n - 1) : stack'[i] = stack[i]
  <2>1. stack' = Append(Rest, f)
    BY DEF Turns
  <2>2. /\ Append(Rest, f) \in Seq(Frames) /\ Len(Append(Rest, f)) = n - 1 + 1
        /\ Append(Rest, f)[n - 1 + 1] = f
        /\ \A i \in 1..(n - 1) : Append(Rest, f)[i] = Rest[i]
    BY <1>2, AppendProperties
  <2>3. QED
    BY <1>2, <2>1, <2>2
<1>4. DOMAIN stack' = 1..n
  BY <1>3, LenProperties
<1>5. \A i \in 1..n : i = n \/ i \in 1..(n - 1)
  OBVIOUS
<1>6. \A i \in DOMAIN stack' : FrameOK(stack'[i], i, DOMAIN heap')
  BY <1>1, <1>2, <1>3, <1>4, <1>5 DEF OuterKept
<1>7. \A i \in DOMAIN stack' : i # Len(stack') => stack'[i].step \in Waiting
  BY <1>2, <1>3, <1>4, <1>5
<1>8. stack' # <<>>
  BY <1>3
<1>9. StackInv'
  BY <1>3, <1>6, <1>7 DEF StackInv
<1>10. QED
  BY <1>1, <1>3, <1>4, <1>8, <1>9 DEF F

LEMMA StackCalls ==
  ASSUME StackInv, stack # <<>>, OuterKept, NEW f \in Frames, NEW g \in Frames,
         FrameOK(f, Len(stack), DOMAIN heap'), FrameOK(g, Len(stack) + 1, DOMAIN heap'),
         f.step \in Waiting, Calls2(f, g)
  PROVE  /\ StackInv' /\ stack' # <<>> /\ Len(stack') = Len(stack) + 1 /\ F' = g
         /\ DOMAIN stack' = 1..(Len(stack) + 1) /\ stack'[Len(stack)] = f
         /\ \A i \in 1..(Len(stack) - 1) : stack'[i] = stack[i]
<1>1. PICK n \in Nat \ {0} : n = Len(stack)
  BY FIs
<1>2. /\ Rest \in Seq(Frames) /\ Len(Rest) = n - 1
      /\ \A i \in 1..(n - 1) :
           /\ i \in DOMAIN stack /\ i # n /\ Rest[i] = stack[i]
           /\ stack[i].step \in Waiting
  BY <1>1, FIs
<1>3. /\ stack' \in Seq(Frames) /\ Len(stack') = n + 1 /\ stack'[n] = f /\ stack'[n + 1] = g
      /\ \A i \in 1..(n - 1) : stack'[i] = stack[i]
  <2>1. PICK t \in Seq(Frames) : t = <<f, g>> /\ Len(t) = 2 /\ t[1] = f /\ t[2] = g
    <3>1. <<f, g>> \in Seq(Frames) /\ Len(<<f, g>>) = 2
      BY TwoAre
    <3>2. QED
      BY <3>1
  <2>2. stack' = Rest \o t
    BY <2>1 DEF Calls2
  <2>3. /\ Rest \o t \in Seq(Frames) /\ Len(Rest \o t) = n - 1 + 2
        /\ \A i \in 1..(n - 1 + 2) :
             (Rest \o t)[i] = IF i <= n - 1 THEN Rest[i] ELSE t[i - (n - 1)]
    BY <1>2, <2>1, ConcatProperties
  <2>4. n \in 1..(n - 1 + 2) /\ n + 1 \in 1..(n - 1 + 2) /\ n - (n - 1) = 1 /\ n + 1 - (n - 1) = 2
    OBVIOUS
  <2>5. (Rest \o t)[n] = f /\ (Rest \o t)[n + 1] = g
    BY <2>1, <2>3, <2>4
  <2>6. \A i \in 1..(n - 1) : (Rest \o t)[i] = Rest[i]
    BY <2>3
  <2>7. QED
    BY <1>2, <2>2, <2>3, <2>5, <2>6
<1>4. DOMAIN stack' = 1..(n + 1)
  BY <1>3, LenProperties
<1>5. \A i \in 1..(n + 1) : i = n + 1 \/ i = n \/ i \in 1..(n - 1)
  OBVIOUS
<1>6. \A i \in DOMAIN stack' : FrameOK(stack'[i], i, DOMAIN heap')
  BY <1>1, <1>2, <1>3, <1>4, <1>5 DEF OuterKept
<1>7. \A i \in DOMAIN stack' : i # Len(stack') => stack'[i].step \in Waiting
  BY <1>2, <1>3, <1>4, <1>5
<1>8. stack' # <<>>
  BY <1>3
<1>9. StackInv'
  BY <1>3, <1>6, <1>7 DEF StackInv
<1>10. QED
  BY <1>1, <1>3, <1>4, <1>8, <1>9 DEF F

LEMMA FrameFits ==
  ASSUME NEW f, NEW i \in Nat, NEW objects, f.step = "enter", f.linked = Undefined,
         f.value \in NodeIds => f.value.base <= i
  PROVE  FrameOK(f, i, objects)
<1>1. f.linked \notin NodeIds
  BY ValuesApart DEF Primitives
<1>2. f.step \in {"enter", "degraded"} /\ f.step \notin {"parts", "link", "linked", "degraded"}
  OBVIOUS
<1>3. QED
  BY <1>1, <1>2 DEF FrameOK

\* What a call begins with.
LEMMA BeginningIs ==
  /\ "enter" \in Steps /\ <<>> \in Seq(Names) /\ {} \in SUBSET Names /\ FALSE \in BOOLEAN
  /\ None \in Names /\ Undefined \in Values /\ <<>> \in Befores
<1>1. /\ "enter" \in Steps /\ <<>> \in Seq(Names) /\ {} \in SUBSET Names /\ FALSE \in BOOLEAN
      /\ None \in Names /\ Undefined \in Values
  BY RedactionAssumption, ValuesApart DEF Steps, Values, Primitives
<1>2. <<>> \in Befores
  <2>1. <<>> \in [{} -> Nat] /\ {} \in SUBSET Values
    OBVIOUS
  <2>2. QED
    BY <2>1 DEF Befores
<1>3. QED
  BY <1>1, <1>2

-----------------------------------------------------------------------------
(***************************************************************************)
(* The walk keeps the types.                                               *)
(***************************************************************************)

\* The parts of a frame, and a frame with some of them changed.
LEMMA FrameParts ==
  ASSUME NEW f \in Frames
  PROVE  /\ f.value \in Values /\ f.path \in Seq(Names) /\ f.depth \in Nat
         /\ f.honor \in BOOLEAN /\ f.ser \in BOOLEAN /\ f.owner \in Values /\ f.step \in Steps
         /\ f.todo \in Seq(Names) /\ f.written \subseteq Names /\ f.part \in Names
         /\ f.linked \in Values /\ f.before \in Befores /\ f.incomplete \in BOOLEAN
BY DEF Frames

LEMMA WithStep ==
  ASSUME NEW f \in Frames, NEW step \in Steps
  PROVE  LET g == [f EXCEPT !.step = step] IN
         /\ g \in Frames /\ g.step = step /\ g.value = f.value /\ g.linked = f.linked
         /\ g.path = f.path /\ g.todo = f.todo /\ g.before = f.before /\ g.owner = f.owner
         /\ g.ser = f.ser /\ g.honor = f.honor /\ g.depth = f.depth /\ g.part = f.part
         /\ g.written = f.written /\ g.incomplete = f.incomplete
BY DEF Frames

LEMMA OriginIs ==
  ASSUME MadeInv, NEW v \in Values
  PROVE  Origin(v) \in Values
BY ValuesApart DEF Origin, MadeInv

LEMMA PutIs ==
  ASSUME OutInv, NEW path \in Seq(Names), NEW what \in Whats, NEW v \in Values,
         NEW owner \in Values, Put(path, what, v, owner)
  PROVE  OutInv'
<1>1. PICK e : e = Entry(what, v, owner)
  OBVIOUS
<1>2. e \in Entries
  BY <1>1 DEF Entry, Entries
<1>3. out' = Assign(out, path, e)
  BY <1>1 DEF Put
<1>4. /\ \A x : x \in DOMAIN out' <=> (x \in DOMAIN out \/ x = path)
      /\ out'[path] = e
      /\ \A x \in DOMAIN out : x # path => out'[x] = out[x]
  BY <1>3, Assigned
<1>5. QED
  BY <1>2, <1>4 DEF OutInv

LEMMA WritesIs ==
  ASSUME OutInv, StackInv, stack # <<>>, NEW what \in Whats, Writes(what)
  PROVE  OutInv'
<1>1. F.path \in Seq(Names) /\ F.value \in Values /\ F.owner \in Values
  BY FIs, FrameParts
<1>2. QED
  BY <1>1, PutIs DEF Writes

\* A step of walk, or one of its throws.
Walking == Types /\ stack # <<>> /\ ~Sanitizing

LEMMA WalkingIs ==
  ASSUME Walking
  PROVE  /\ tasks = <<>> /\ phase \in {"record", "redact"}
         /\ HeapInv /\ StackInv /\ MadeInv /\ OutInv /\ ScalarsInv
         /\ F \in Frames /\ FrameOK(F, Len(stack), DOMAIN heap)
         /\ Len(stack) \in Nat \ {0}
<1>1. tasks = <<>> /\ phase \in {"record", "redact"}
  BY DEF Walking, Types, TasksInv, ScalarsInv, Sanitizing
<1>2. QED
  BY <1>1, FIs DEF Walking, Types

\* What a step that leaves the heap and the nodes alone has to keep.
LEMMA WalkKeeps ==
  ASSUME Walking, UNCHANGED <<heap, policy, tasks, seen, made, phase>>,
         StackInv', OutInv', raised' \in BOOLEAN, visits' \in Int, admitted' \in Nat,
         thrower' \in Values, links' \in Befores
  PROVE  Types'
<1>1. tasks' = <<>> /\ phase' \in {"record", "redact"}
  BY WalkingIs
<1>2. HeapInv' /\ MadeInv'
  BY WalkingIs DEF HeapInv, MadeInv
<1>3. ~Sanitizing' /\ DOMAIN tasks' = {} /\ tasks' \in Seq(Tasks)
  BY <1>1 DEF Sanitizing
<1>4. TasksInv'
  BY <1>1, <1>3 DEF TasksInv
<1>5. ScalarsInv'
  BY <1>1, WalkingIs DEF ScalarsInv
<1>6. QED
  BY <1>2, <1>4, <1>5 DEF Types

LEMMA OuterIsKept ==
  ASSUME StackInv, DOMAIN heap \subseteq DOMAIN heap'
  PROVE  OuterKept
BY DEF StackInv, OuterKept, FrameOK

LEMMA ScalarsAre ==
  ASSUME Walking
  PROVE  /\ raised \in BOOLEAN /\ visits \in Int /\ admitted \in Nat /\ thrower \in Values
         /\ links \in Befores /\ TRUE \in BOOLEAN /\ FALSE \in BOOLEAN
         /\ visits + 1 \in Int /\ visits - 1 \in Int /\ admitted + 1 \in Nat
BY WalkingIs DEF ScalarsInv

LEMMA RaiseIs ==
  ASSUME Walking, Raise, UNCHANGED heap
  PROVE  StackInv' /\ raised' \in BOOLEAN /\ thrower' \in Values /\ stack' = stack
<1>1. StackInv'
  BY WalkingIs DEF Raise, StackInv
<1>2. thrower' \in Values
  BY WalkingIs, OriginIs, FrameParts DEF Raise
<1>3. QED
  BY <1>1, <1>2 DEF Raise

\* The step that ends the innermost call.
LEMMA EndTypes ==
  ASSUME Walking, UNCHANGED <<heap, policy, tasks, seen, made, phase>>, Ends, OutInv',
         raised' \in BOOLEAN, visits' \in Int, admitted' \in Nat, thrower' \in Values,
         links' \in Befores
  PROVE  Types'
<1>1. OuterKept
  BY OuterIsKept, WalkingIs
<1>2. StackInv'
  BY <1>1, StackEnds, WalkingIs DEF Walking
<1>3. QED
  BY <1>2, WalkKeeps

LEMMA TurnTypes ==
  ASSUME Walking, UNCHANGED <<heap, policy, tasks, seen, made, phase>>, OutInv',
         NEW f \in Frames, FrameOK(f, Len(stack), DOMAIN heap), Turns(f),
         raised' \in BOOLEAN, visits' \in Int, admitted' \in Nat, thrower' \in Values,
         links' \in Befores
  PROVE  Types'
<1>1. OuterKept
  BY OuterIsKept, WalkingIs
<1>2. StackInv'
  BY <1>1, StackTurns, WalkingIs DEF Walking
<1>3. QED
  BY <1>2, WalkKeeps

LEMMA CallTypes ==
  ASSUME Walking, UNCHANGED <<heap, policy, tasks, seen, made, phase>>, OutInv',
         NEW f \in Frames, FrameOK(f, Len(stack), DOMAIN heap), f.step \in Waiting,
         NEW g \in Frames, FrameOK(g, Len(stack) + 1, DOMAIN heap), Calls2(f, g),
         raised' \in BOOLEAN, visits' \in Int, admitted' \in Nat, thrower' \in Values,
         links' \in Befores
  PROVE  Types'
<1>1. OuterKept
  BY OuterIsKept, WalkingIs
<1>2. StackInv'
  BY <1>1, StackCalls, WalkingIs DEF Walking
<1>3. QED
  BY <1>2, WalkKeeps

LEMMA Silent ==
  ASSUME Walking, UNCHANGED out
  PROVE  OutInv'
BY WalkingIs DEF OutInv

LEMMA WhatsAre ==
  /\ "leaf" \in Whats /\ "depth" \in Whats /\ "budget" \in Whats /\ "circular" \in Whats
  /\ "size" \in Whats /\ "reference" \in Whats /\ "censor" \in Whats /\ "array" \in Whats
  /\ "instance" \in Whats /\ "object" \in Whats /\ "envelope" \in Whats /\ "markers" \in Whats
<1>1. "leaf" \in Whats /\ "depth" \in Whats /\ "budget" \in Whats
  BY DEF Whats
<1>2. "circular" \in Whats /\ "size" \in Whats /\ "reference" \in Whats /\ "censor" \in Whats
  BY DEF Whats
<1>3. "array" \in Whats /\ "instance" \in Whats /\ "object" \in Whats
  BY DEF Whats
<1>4. "envelope" \in Whats /\ "markers" \in Whats
  BY DEF Whats
<1>5. QED
  BY <1>1, <1>2, <1>3, <1>4

LEMMA EnterTypes ==
  ASSUME Types, EnterPrimitive \/ EnterTooDeep \/ EnterOverBudget \/ Enter
  PROVE  Types'
<1>1. Walking /\ F.step = "enter"
  BY DEF Walking, At, EnterPrimitive, EnterTooDeep, EnterOverBudget, Enter
<1>2. UNCHANGED <<heap, policy, tasks, seen, made, phase>>
  BY DEF EnterPrimitive, EnterTooDeep, EnterOverBudget, Enter, sanitizerVars
<1>3. CASE EnterPrimitive
  <2>1. OutInv'
    BY <1>1, <1>3, Silent, WritesIs, WhatsAre, WalkingIs DEF EnterPrimitive, Walking
  <2>2. QED
    BY <1>1, <1>2, <1>3, <2>1, EndTypes, ScalarsAre DEF EnterPrimitive
<1>4. CASE EnterTooDeep
  <2>1. OutInv'
    BY <1>1, <1>4, WritesIs, WhatsAre, WalkingIs DEF EnterTooDeep, Walking
  <2>2. QED
    BY <1>1, <1>2, <1>4, <2>1, EndTypes, ScalarsAre DEF EnterTooDeep
<1>5. CASE EnterOverBudget
  <2>1. OutInv'
    BY <1>1, <1>5, WritesIs, WhatsAre, WalkingIs DEF EnterOverBudget, Walking
  <2>2. QED
    BY <1>1, <1>2, <1>5, <2>1, EndTypes, ScalarsAre DEF EnterOverBudget
<1>6. CASE Enter
  <2>1. /\ visits' = visits + 1 /\ UNCHANGED <<raised, links, thrower>>
        /\ IsObject(F.value)
        /\ \/ Writes("circular") /\ Ends /\ UNCHANGED admitted
           \/ Turns([F EXCEPT !.step = "inspect"]) /\ admitted' = admitted + 1 /\ UNCHANGED out
    BY <1>6 DEF Enter
  <2>2. CASE Writes("circular") /\ Ends /\ UNCHANGED admitted
    <3>1. OutInv'
      BY <1>1, <2>2, WritesIs, WhatsAre, WalkingIs DEF Walking
    <3>2. QED
      BY <1>1, <1>2, <2>1, <2>2, <3>1, EndTypes, ScalarsAre
  <2>3. CASE Turns([F EXCEPT !.step = "inspect"]) /\ admitted' = admitted + 1 /\ UNCHANGED out
    <3>1. PICK f \in Frames : /\ f = [F EXCEPT !.step = "inspect"] /\ f.step = "inspect"
                              /\ f.value = F.value /\ f.linked = F.linked
      <4>1. "inspect" \in Steps
        BY DEF Steps
      <4>2. QED
        BY <1>1, <4>1, WithStep, WalkingIs
    <3>2. FrameOK(f, Len(stack), DOMAIN heap)
      BY <1>1, <2>1, <3>1, WalkingIs DEF FrameOK, IsObject
    <3>3. OutInv'
      BY <1>1, <2>3, Silent
    <3>4. QED
      BY <1>1, <1>2, <2>1, <2>3, <3>1, <3>2, <3>3, TurnTypes, ScalarsAre
  <2>4. QED
    BY <2>1, <2>2, <2>3
<1>7. QED
  BY <1>3, <1>4, <1>5, <1>6

LEMMA InspectTypes ==
  ASSUME Types, InspectBinary \/ InspectRefused \/ InspectBuffer \/ Followed \/ InspectFunction
  PROVE  Types'
<1>1. Walking
  BY DEF Walking, At, Inspecting, InspectBinary, InspectRefused, InspectBuffer, Followed,
         InspectFunction
<1>2. UNCHANGED <<heap, policy, tasks, seen, made, phase, visits, links, admitted>>
  BY DEF InspectBinary, InspectRefused, InspectBuffer, Followed, InspectFunction, sanitizerVars
<1>3. CASE InspectBinary
  <2>1. OutInv'
    BY <1>1, <1>3, WritesIs, WhatsAre, WalkingIs DEF InspectBinary, Walking
  <2>2. QED
    BY <1>1, <1>2, <1>3, <2>1, EndTypes, ScalarsAre DEF InspectBinary
<1>4. CASE InspectRefused
  <2>1. OutInv' /\ Raise /\ UNCHANGED heap
    BY <1>1, <1>2, <1>4, Silent DEF InspectRefused
  <2>2. StackInv' /\ raised' \in BOOLEAN /\ thrower' \in Values
    BY <1>1, <2>1, RaiseIs
  <2>3. QED
    BY <1>1, <1>2, <2>1, <2>2, WalkKeeps, ScalarsAre
<1>5. CASE InspectBuffer
  <2>1. OutInv'
    BY <1>1, <1>5, WritesIs, WhatsAre, WalkingIs DEF InspectBuffer, Walking
  <2>2. QED
    BY <1>1, <1>2, <1>5, <2>1, EndTypes, ScalarsAre DEF InspectBuffer
<1>6. CASE Followed
  <2>1. OutInv'
    BY <1>1, <1>6, Silent DEF Followed
  <2>2. QED
    BY <1>1, <1>2, <1>6, <2>1, EndTypes, ScalarsAre DEF Followed
<1>7. CASE InspectFunction
  <2>1. OutInv'
    BY <1>1, <1>7, Silent, WritesIs, WhatsAre, WalkingIs DEF InspectFunction, Walking
  <2>2. QED
    BY <1>1, <1>2, <1>7, <2>1, EndTypes, ScalarsAre DEF InspectFunction
<1>8. QED
  BY <1>3, <1>4, <1>5, <1>6, <1>7

\* A step that throws and writes nothing.
LEMMA RaiseTypes ==
  ASSUME Walking, UNCHANGED <<heap, policy, tasks, seen, made, phase, visits, links, admitted>>,
         Raise, UNCHANGED out
  PROVE  Types'
<1>1. StackInv' /\ raised' \in BOOLEAN /\ thrower' \in Values /\ OutInv'
  BY RaiseIs, Silent
<1>2. QED
  BY <1>1, WalkKeeps, ScalarsAre

LEMMA FollowToJsonTypes ==
  ASSUME Types, FollowToJson
  PROVE  Types'
<1>1. Walking /\ F.step = "inspect"
  BY DEF Walking, At, Inspecting, FollowToJson
<1>2. UNCHANGED <<heap, policy, tasks, seen, made, phase, visits, links, admitted>>
  BY DEF FollowToJson, sanitizerVars
<1>3. F.value \in DOMAIN heap
  BY <1>1, WalkingIs DEF FrameOK
<1>4. CASE Writes("censor") /\ Ends /\ UNCHANGED <<raised, thrower>>
  <2>1. OutInv'
    BY <1>1, <1>4, WritesIs, WhatsAre, WalkingIs DEF Walking
  <2>2. QED
    BY <1>1, <1>2, <1>4, <2>1, EndTypes, ScalarsAre
<1>5. CASE Raise /\ UNCHANGED out
  BY <1>1, <1>2, <1>5, RaiseTypes
<1>6. ASSUME NEW result \in heap[F.value].form, UNCHANGED <<out, raised, thrower>>,
             Calls2([F EXCEPT !.step = "follow"],
                    Frame(result, F.path, F.depth + 1, TRUE, F.ser, F.owner))
      PROVE  Types'
  <2>1. result \in Values /\ result \notin NodeIds
    BY <1>1, <1>3, ObjectsAre, WalkingIs, ValuesApart
  <2>2. PICK g \in Frames : /\ g = Frame(result, F.path, F.depth + 1, TRUE, F.ser, F.owner)
                            /\ FrameOK(g, Len(stack) + 1, DOMAIN heap)
    <3>1. F.depth + 1 \in Nat /\ TRUE \in BOOLEAN /\ F.ser \in BOOLEAN
          /\ F.path \in Seq(Names) /\ F.owner \in Values
      BY <1>1, WalkingIs, FrameParts
    <3>2. PICK g : g = Frame(result, F.path, F.depth + 1, TRUE, F.ser, F.owner)
      OBVIOUS
    <3>3. g \in Frames
      BY <2>1, <3>1, <3>2, BeginningIs DEF Frame, Frames
    <3>4. g.value = result /\ g.step = "enter" /\ g.linked = Undefined
      BY <3>2 DEF Frame
    <3>5. Len(stack) + 1 \in Nat
      BY <1>1, WalkingIs
    <3>6. FrameOK(g, Len(stack) + 1, DOMAIN heap)
      BY <2>1, <3>4, <3>5, FrameFits
    <3>7. QED
      BY <3>2, <3>3, <3>6
  <2>3. PICK f \in Frames : /\ f = [F EXCEPT !.step = "follow"] /\ f.step = "follow"
                            /\ f.value = F.value /\ f.linked = F.linked
    <3>1. "follow" \in Steps
      BY DEF Steps
    <3>2. QED
      BY <1>1, <3>1, WithStep, WalkingIs
  <2>4. FrameOK(f, Len(stack), DOMAIN heap) /\ f.step \in Waiting
    BY <1>1, <1>3, <2>3, WalkingIs DEF FrameOK, Waiting
  <2>5. OutInv'
    BY <1>1, <1>6, Silent
  <2>6. QED
    BY <1>1, <1>2, <1>6, <2>2, <2>3, <2>4, <2>5, CallTypes, ScalarsAre
<1>7. QED
  BY <1>4, <1>5, <1>6 DEF FollowToJson

LEMMA OpenTypes ==
  ASSUME Types, Open
  PROVE  Types'
<1>1. Walking /\ F.step = "inspect"
  BY DEF Walking, At, Inspecting, Open
<1>2. UNCHANGED <<heap, policy, tasks, seen, made, phase, visits, links, admitted>>
  BY DEF Open, sanitizerVars
<1>3. F.value \in DOMAIN heap
  BY <1>1, WalkingIs DEF FrameOK
<1>4. CASE Raise /\ UNCHANGED out
  BY <1>1, <1>2, <1>4, RaiseTypes
<1>5. ASSUME NEW what \in {"array", "instance", "object"}, Writes(what),
             Turns([F EXCEPT !.step = "fields", !.todo = heap[F.value].keys]),
             UNCHANGED <<raised, thrower>>
      PROVE  Types'
  <2>1. OutInv'
    BY <1>1, <1>5, WritesIs, WhatsAre, WalkingIs DEF Walking
  <2>2. PICK keys \in Seq(Names) : keys = heap[F.value].keys
    BY <1>1, <1>3, ObjectsAre, WalkingIs
  <2>3. PICK f : f = [F EXCEPT !.step = "fields", !.todo = keys]
    OBVIOUS
  <2>4. /\ f \in Frames /\ f.step = "fields" /\ f.value = F.value /\ f.linked = F.linked
    BY <1>1, <2>3, WalkingIs DEF Frames, Steps
  <2>5. FrameOK(f, Len(stack), DOMAIN heap)
    BY <1>1, <1>3, <2>4, WalkingIs DEF FrameOK
  <2>6. QED
    BY <1>1, <1>2, <1>5, <2>1, <2>2, <2>3, <2>4, <2>5, TurnTypes, ScalarsAre
<1>6. QED
  BY <1>4, <1>5 DEF Open

\* A call made for what a field of the value holds.
LEMMA FieldFrame ==
  ASSUME Walking, NEW v \in Values, v \in NodeIds => v.base <= Len(stack), NEW k \in Names,
         NEW ser \in BOOLEAN
  PROVE  LET g == Frame(v, Append(F.path, k), F.depth + 1, TRUE, ser, Origin(F.value)) IN
         g \in Frames /\ FrameOK(g, Len(stack) + 1, DOMAIN heap)
<1>1. PICK path \in Seq(Names) : path = Append(F.path, k)
  <2>1. F.path \in Seq(Names)
    BY WalkingIs, FrameParts
  <2>2. Append(F.path, k) \in Seq(Names)
    BY <2>1, AppendProperties
  <2>3. QED
    BY <2>2
<1>2. F.depth + 1 \in Nat /\ TRUE \in BOOLEAN /\ Origin(F.value) \in Values
  BY WalkingIs, FrameParts, OriginIs
<1>3. v \in NodeIds => v.base <= Len(stack) + 1
  BY WalkingIs DEF NodeIds
<1>4. PICK g : g = Frame(v, path, F.depth + 1, TRUE, ser, Origin(F.value))
  OBVIOUS
<1>5. g \in Frames
  BY <1>1, <1>2, <1>4, BeginningIs DEF Frame, Frames
<1>6. g.value = v /\ g.step = "enter" /\ g.linked = Undefined
  BY <1>4 DEF Frame
<1>7. Len(stack) + 1 \in Nat
  BY WalkingIs
<1>8. FrameOK(g, Len(stack) + 1, DOMAIN heap)
  BY <1>3, <1>6, <1>7, FrameFits
<1>9. QED
  BY <1>1, <1>4, <1>5, <1>8

LEMMA NextTodo ==
  ASSUME Walking, F.todo # <<>>
  PROVE  Head(F.todo) \in Names /\ Tail(F.todo) \in Seq(Names)
<1>1. F.todo \in Seq(Names)
  BY WalkingIs, FrameParts
<1>2. QED
  BY <1>1, HeadTailProperties

\* What the fields of the value answer.
LEMMA FieldReads ==
  ASSUME Walking, F.step \in {"inspect", "fields", "parts", "link"}, NEW k, NEW v \in Read(F.value, k)
  PROVE  /\ F.value \in DOMAIN heap /\ v \in Values /\ (v \in NodeIds => v.base <= Len(stack))
         /\ F.value \in Graph => v \in AppValues
<1>1. F.value \in DOMAIN heap /\ (F.value \in NodeIds => F.value.base <= Len(stack))
  BY WalkingIs DEF FrameOK
<1>2. QED
  BY <1>1, ReadsAre, WalkingIs, ValuesApart

LEMMA ElementTypes ==
  ASSUME Types, Element
  PROVE  Types'
<1>1. Walking /\ F.step = "fields" /\ F.todo # <<>>
  BY DEF Walking, At, Element
<1>2. UNCHANGED <<heap, policy, tasks, seen, made, phase, visits, links, admitted, out>>
  BY DEF Element, sanitizerVars
<1>3. PICK k \in Names : k = Head(F.todo) /\ Tail(F.todo) \in Seq(Names)
  BY <1>1, NextTodo
<1>4. PICK v \in Read(F.value, k) :
        \/ Raise
        \/ /\ Calls2([F EXCEPT !.todo = Tail(@)],
                     Frame(v, Append(F.path, k), F.depth + 1, TRUE, F.ser, Origin(F.value)))
           /\ UNCHANGED <<raised, thrower>>
  BY <1>3 DEF Element
<1>5. CASE Raise
  BY <1>1, <1>2, <1>5, RaiseTypes
<1>6. CASE /\ Calls2([F EXCEPT !.todo = Tail(@)],
                     Frame(v, Append(F.path, k), F.depth + 1, TRUE, F.ser, Origin(F.value)))
           /\ UNCHANGED <<raised, thrower>>
  <2>1. F.value \in DOMAIN heap /\ v \in Values /\ (v \in NodeIds => v.base <= Len(stack))
    BY <1>1, <1>4, FieldReads
  <2>2. PICK g \in Frames :
          /\ g = Frame(v, Append(F.path, k), F.depth + 1, TRUE, F.ser, Origin(F.value))
          /\ FrameOK(g, Len(stack) + 1, DOMAIN heap)
    BY <1>1, <2>1, FieldFrame, WalkingIs, FrameParts
  <2>3. PICK f : f = [F EXCEPT !.todo = Tail(F.todo)]
    OBVIOUS
  <2>4. /\ f \in Frames /\ f.step = "fields" /\ f.value = F.value /\ f.linked = F.linked
    BY <1>1, <1>3, <2>3, WalkingIs DEF Frames
  <2>5. FrameOK(f, Len(stack), DOMAIN heap) /\ f.step \in Waiting
    BY <1>1, <2>1, <2>4, WalkingIs DEF FrameOK, Waiting
  <2>6. Calls2(f, g) /\ OutInv'
    BY <1>1, <1>2, <1>6, <2>2, <2>3, Silent
  <2>7. QED
    BY <1>1, <1>2, <1>6, <2>4, <2>5, <2>6, <2>2, CallTypes, ScalarsAre
<1>7. QED
  BY <1>4, <1>5, <1>6

LEMMA FieldTypes ==
  ASSUME Types, Field
  PROVE  Types'
<1>1. Walking /\ F.step = "fields" /\ F.todo # <<>>
  BY DEF Walking, At, Field
<1>2. UNCHANGED <<heap, policy, tasks, seen, made, phase, visits, links, admitted>>
  BY DEF Field, sanitizerVars
<1>3. PICK k \in Names : k = Head(F.todo) /\ Tail(F.todo) \in Seq(Names)
  BY <1>1, NextTodo
<1>4. PICK f : f = [F EXCEPT !.todo = Tail(@)]
  OBVIOUS
<1>5. PICK g : g = [f EXCEPT !.written = @ \cup {k}]
  OBVIOUS
<1>6. /\ f \in Frames /\ f.step = "fields" /\ f.value = F.value /\ f.linked = F.linked
      /\ f.written \subseteq Names
  BY <1>1, <1>3, <1>4, WalkingIs DEF Frames
<1>7. /\ g \in Frames /\ g.step = "fields" /\ g.value = F.value /\ g.linked = F.linked
  BY <1>3, <1>5, <1>6 DEF Frames
<1>8. PICK p \in Seq(Names) : p = Append(F.path, k)
  <2>1. F.path \in Seq(Names)
    BY <1>1, WalkingIs, FrameParts
  <2>2. Append(F.path, k) \in Seq(Names)
    BY <2>1, AppendProperties
  <2>3. QED
    BY <2>2
<1>9. PICK v \in Read(F.value, k) :
       \/ Raise /\ UNCHANGED out
       \/ Turns(f) /\ UNCHANGED <<raised, out, thrower>>
       \/ Put(p, "censor", Text, Origin(F.value)) /\ Turns(g) /\ UNCHANGED <<raised, thrower>>
       \/ /\ Calls2(g, Frame(IF Scrubbed(F) THEN OwnFieldForLog(k, v)
                             ELSE IF IsError(F.value) THEN WithBinaryAsSize(v) ELSE v,
                             p, F.depth + 1, TRUE, F.ser \/ (~F.honor /\ k \in SerializedKeys),
                             Origin(F.value)))
          /\ UNCHANGED <<raised, out, thrower>>
  BY <1>3, <1>4, <1>5, <1>8, Zenon DEF Field
<1>10. PICK held : held = IF Scrubbed(F) THEN OwnFieldForLog(k, v)
                          ELSE IF IsError(F.value) THEN WithBinaryAsSize(v) ELSE v
  OBVIOUS
<1>11. PICK ser \in BOOLEAN : ser = (F.ser \/ (~F.honor /\ k \in SerializedKeys))
  <2>1. (F.ser \/ (~F.honor /\ k \in SerializedKeys)) \in BOOLEAN
    OBVIOUS
  <2>2. QED
    BY <2>1
<1>12. \/ Raise /\ UNCHANGED out
       \/ Turns(f) /\ UNCHANGED <<raised, out, thrower>>
       \/ Put(p, "censor", Text, Origin(F.value)) /\ Turns(g) /\ UNCHANGED <<raised, thrower>>
       \/ /\ Calls2(g, Frame(held, p, F.depth + 1, TRUE, ser, Origin(F.value)))
          /\ UNCHANGED <<raised, out, thrower>>
  BY <1>9, <1>10, <1>11, Zenon
<1>13. held \in {v, CommandName, Text}
  BY <1>10 DEF OwnFieldForLog, WithBinaryAsSize
<1>14. F.value \in DOMAIN heap /\ v \in Values /\ (v \in NodeIds => v.base <= Len(stack))
  BY <1>1, <1>9, FieldReads
<1>15. FrameOK(f, Len(stack), DOMAIN heap) /\ FrameOK(g, Len(stack), DOMAIN heap)
       /\ g.step \in Waiting
  BY <1>1, <1>6, <1>7, <1>14, WalkingIs DEF FrameOK, Waiting
<1>16. CASE Raise /\ UNCHANGED out
  BY <1>1, <1>2, <1>16, RaiseTypes
<1>17. CASE Turns(f) /\ UNCHANGED <<raised, out, thrower>>
  BY <1>1, <1>2, <1>6, <1>15, <1>17, Silent, TurnTypes, ScalarsAre
<1>18. CASE Put(p, "censor", Text, Origin(F.value)) /\ Turns(g) /\ UNCHANGED <<raised, thrower>>
  <2>1. Text \in Values /\ Origin(F.value) \in Values
    BY <1>1, WalkingIs, FrameParts, OriginIs DEF Values, Primitives
  <2>2. OutInv'
    BY <1>1, <1>18, <2>1, PutIs, WhatsAre, WalkingIs
  <2>3. QED
    BY <1>1, <1>2, <1>7, <1>15, <1>18, <2>2, TurnTypes, ScalarsAre
<1>19. CASE /\ Calls2(g, Frame(held, p, F.depth + 1, TRUE, ser, Origin(F.value)))
            /\ UNCHANGED <<raised, out, thrower>>
  <2>1. held \in Values /\ (held \in NodeIds => held.base <= Len(stack))
    BY <1>14, <1>13, ValuesApart DEF Values, Objects, Primitives
  <2>2. PICK c \in Frames : /\ c = Frame(held, p, F.depth + 1, TRUE, ser, Origin(F.value))
                            /\ FrameOK(c, Len(stack) + 1, DOMAIN heap)
    BY <1>1, <1>8, <1>11, <2>1, FieldFrame
  <2>3. Calls2(g, c)
    BY <1>19, <2>2
  <2>4. OutInv'
    BY <1>1, <1>19, Silent
  <2>5. QED
    BY <1>1, <1>2, <1>7, <1>15, <1>19, <2>2, <2>3, <2>4, CallTypes, ScalarsAre
<1>20. QED
  BY <1>12, <1>16, <1>17, <1>18, <1>19

LEMMA FieldsDoneTypes ==
  ASSUME Types, FieldsDone
  PROVE  Types'
<1>1. Walking /\ F.step = "fields"
  BY DEF Walking, At, FieldsDone
<1>2. UNCHANGED <<heap, policy, tasks, seen, made, phase, visits, links, admitted, out, raised,
                  thrower>>
  BY DEF FieldsDone, sanitizerVars
<1>3. OutInv'
  BY <1>1, <1>2, Silent
<1>4. CASE Ends
  BY <1>1, <1>2, <1>3, <1>4, EndTypes, ScalarsAre
<1>5. CASE /\ AsData(F)
           /\ Turns([F EXCEPT !.step = "parts",
                !.todo = Without(<<NameKey(F), "message", "stack", "cause", "errors">>, F.written)])
  <2>1. F.value \in Graph /\ F.value \in DOMAIN heap
    BY <1>1, <1>5, ErrorsAreOfTheGraph, WalkingIs DEF AsData, IsError
  <2>2. PICK todo \in Seq(Names) :
          todo = Without(<<NameKey(F), "message", "stack", "cause", "errors">>, F.written)
    <3>1. NameKey(F) \in Names
      BY NamesAre DEF NameKey
    <3>2. <<NameKey(F), "message", "stack", "cause", "errors">> \in Seq(Names)
      BY <3>1, NamesAre
    <3>3. QED
      BY <3>2, WithoutProperties
  <2>3. PICK f : f = [F EXCEPT !.step = "parts", !.todo = todo]
    OBVIOUS
  <2>4. f \in Frames /\ f.step = "parts" /\ f.value = F.value /\ f.linked = F.linked
    BY <1>1, <2>3, WalkingIs DEF Frames, Steps
  <2>5. FrameOK(f, Len(stack), DOMAIN heap)
    BY <1>1, <2>1, <2>4, WalkingIs DEF FrameOK
  <2>6. Turns(f)
    BY <1>5, <2>2, <2>3
  <2>7. QED
    BY <1>1, <1>2, <1>3, <2>4, <2>5, <2>6, TurnTypes, ScalarsAre
<1>6. QED
  BY <1>4, <1>5 DEF FieldsDone

LEMMA PartPathIs ==
  ASSUME NEW f \in Frames
  PROVE  PartPath(f) \in Seq(Names)
<1>1. f.path \in Seq(Names) /\ f.part \in Names
  BY FrameParts
<1>2. QED
  BY <1>1, AppendProperties DEF PartPath

\* The frame that goes on to its next part.
LEMMA NextPartIs ==
  ASSUME NEW f \in Frames
  PROVE  /\ NextPart(f) \in Frames /\ LostPart(f) \in Frames
         /\ NextPart(f).value = f.value /\ LostPart(f).value = f.value
         /\ NextPart(f).step = "parts" /\ LostPart(f).step = "parts"
         /\ NextPart(f).linked = Undefined /\ LostPart(f).linked = Undefined
<1>1. "parts" \in Steps /\ None \in Names /\ Undefined \in Values /\ <<>> \in Befores /\ TRUE \in BOOLEAN
  BY BeginningIs DEF Steps
<1>2. PICK g : g = NextPart(f)
  OBVIOUS
<1>3. g = [f EXCEPT !.step = "parts", !.part = None, !.linked = Undefined, !.before = <<>>]
  BY <1>2 DEF NextPart
<1>4. g \in Frames /\ g.value = f.value /\ g.step = "parts" /\ g.linked = Undefined
  BY <1>1, <1>3 DEF Frames
<1>5. PICK h : h = LostPart(f)
  OBVIOUS
<1>6. h = [g EXCEPT !.incomplete = TRUE]
  BY <1>2, <1>5 DEF LostPart
<1>7. h \in Frames /\ h.value = f.value /\ h.step = "parts" /\ h.linked = Undefined
  BY <1>1, <1>4, <1>6 DEF Frames
<1>8. QED
  BY <1>2, <1>4, <1>5, <1>7

LEMMA PartFits ==
  ASSUME Walking, NEW g, g.value = F.value, F.value \in Graph, F.value \in DOMAIN heap,
         g.linked \notin NodeIds \/ g.linked.base <= Len(stack),
         NEW objects, DOMAIN heap \subseteq objects
  PROVE  FrameOK(g, Len(stack), objects)
BY ValuesApart DEF FrameOK

SizedIs(n, size, list) ==
  /\ DOMAIN list = NodeFields
  /\ list.kind = n.kind /\ list.keys = n.keys /\ list.field = n.field /\ list.via = n.via
  /\ list.form = n.form /\ list.sqlState = n.sqlState /\ list.size = size

\* The capped list is one of the library's.
LEMMA CappedListIs ==
  ASSUME HeapInv, NEW v \in DOMAIN heap, v \notin NodeIds, Capped(v),
         NEW reading \in Readings(v, FirstIndexes), ~Fails(reading), NEW base
  PROVE  LibraryNode(CappedList(v, reading)) /\ OwnNodes(CappedList(v, reading), base)
<1>1. PICK m \in Nat \ {0} : m = MaxAggregate
  BY IndexesAre
<1>2. PICK n \in Nat : /\ n = Len(heap[v].keys) /\ n > m /\ n <= Len(Indexes)
                       /\ n - m \in 1..MaxOmitted
  <2>1. heap[v].kind = "array" /\ Len(heap[v].keys) > MaxAggregate
    BY DEF Capped, IsArray, IsKind
  <2>2. PICK n \in Nat : n = Len(heap[v].keys) /\ n <= Len(Indexes)
    BY <2>1, ListsAreIndexed, IndexesAre
  <2>3. QED
    BY <1>1, <2>1, <2>2, IndexesAre
<1>3. \A i \in 1..(m + 1) : i \in DOMAIN Indexes /\ Indexes[i] \in Names
  BY <1>1, IndexesAre
<1>4. PICK keys \in Seq(Names) :
        /\ keys = SubSeq(Indexes, 1, m + 1) /\ DOMAIN keys = 1..(m + 1)
        /\ \A i \in 1..(m + 1) : keys[i] = Indexes[i]
  <2>1. PICK keys : keys = SubSeq(Indexes, 1, m + 1)
    OBVIOUS
  <2>2. /\ keys \in Seq(Names) /\ Len(keys) = IF 1 <= m + 1 THEN m + 1 - 1 + 1 ELSE 0
        /\ \A i \in 1..(m + 1 - 1 + 1) : keys[i] = Indexes[1 + i - 1]
    BY <1>3, <2>1, SubSeqProperties
  <2>3. Len(keys) = m + 1 /\ \A i \in 1..(m + 1) : keys[i] = Indexes[i]
    BY <2>2
  <2>4. DOMAIN keys = 1..(m + 1)
    BY <2>2, <2>3, LenProperties
  <2>5. QED
    BY <2>1, <2>2, <2>3, <2>4
<1>5. OneEach(keys)
  BY <1>3, <1>4, IndexesAre DEF OneEach
<1>6. PICK last : last = Indexes[m + 1]
  OBVIOUS
<1>7. Elements(keys) = FirstIndexes \cup {last}
  <2>1. 1..(m + 1) = (1..m) \cup {m + 1}
    BY OneMore
  <2>2. ASSUME NEW x
        PROVE  x \in Elements(keys) <=> x \in FirstIndexes \cup {last}
    <3>1. x \in Elements(keys) <=> \E i \in 1..(m + 1) : x = Indexes[i]
      BY <1>4 DEF Elements
    <3>2. x \in FirstIndexes <=> \E i \in 1..m : x = Indexes[i]
      BY <1>1 DEF FirstIndexes
    <3>3. QED
      BY <1>6, <2>1, <3>1, <3>2
  <2>3. QED
    BY <2>2
<1>8. PICK f : f = [k \in FirstIndexes |-> {reading[k]}]
  OBVIOUS
<1>9. PICK field : field = Assign(f, last, {WidthMarker(n - m)})
  OBVIOUS
<1>10. /\ \A x : x \in DOMAIN field <=> (x \in FirstIndexes \/ x = last)
       /\ field[last] = {WidthMarker(n - m)}
       /\ \A x \in FirstIndexes : x # last => field[x] = {reading[x]}
  <2>1. /\ \A x : x \in DOMAIN field <=> (x \in DOMAIN f \/ x = last)
        /\ field[last] = {WidthMarker(n - m)}
        /\ \A x \in DOMAIN f : x # last => field[x] = f[x]
    BY <1>9, Assigned
  <2>2. DOMAIN f = FirstIndexes /\ \A x \in FirstIndexes : f[x] = {reading[x]}
    BY <1>8
  <2>3. QED
    BY <2>1, <2>2
<1>11. ASSUME NEW k \in DOMAIN field
       PROVE  /\ field[k] \subseteq Values \ {Throws}
              /\ \A a \in field[k] : a \in NodeIds => a.base = base
  <2>1. WidthMarker(n - m) \in Values \ {Throws} /\ WidthMarker(n - m) \notin NodeIds
    <3>1. WidthMarker(n - m) \in Markers
      BY <1>2, MarkersAre
    <3>2. QED
      BY <3>1, ValuesApart DEF Values, Objects, Primitives
  <2>2. ASSUME k \in FirstIndexes
        PROVE  reading[k] \in Values \ {Throws} /\ reading[k] \notin NodeIds
    <3>1. DOMAIN reading = FirstIndexes /\ reading[k] \in AppValues
      BY <2>2, ReadingIs
    <3>2. reading[k] # Throws
      BY <2>2, <3>1 DEF Fails
    <3>3. QED
      BY <3>1, <3>2, ValuesApart
  <2>3. QED
    BY <1>10, <2>1, <2>2
<1>12. PICK node : node = Node("array", keys, field)
  OBVIOUS
<1>13. LibraryNode(node) /\ OwnNodes(node, base)
  <2>1. Elements(keys) = DOMAIN field /\ "array" \in {"object", "array"}
    BY <1>7, <1>10
  <2>2. QED
    BY <1>5, <1>11, <1>12, <2>1, NodeIs
<1>14. PICK size \in Nat : size = heap[v].size
  BY ObjectsAre
<1>15. PICK list : list = CappedList(v, reading)
  OBVIOUS
<1>16. list = [node EXCEPT !.size = size]
  BY <1>1, <1>2, <1>4, <1>6, <1>8, <1>9, <1>12, <1>14, <1>15 DEF CappedList
<1>17. SizedIs(node, size, list)
  <2>1. DOMAIN node = NodeFields
    BY <1>13, WellFormedIs DEF LibraryNode
  <2>2. QED
    BY <1>16, <2>1 DEF SizedIs, NodeFields
<1>18. WellFormed(list, Values)
  <2>1. WellFormed(node, Values)
    BY <1>13 DEF LibraryNode
  <2>2. QED
    BY <1>14, <1>17, <2>1, WellFormedIs DEF SizedIs
<1>19. LibraryNode(list) /\ OwnNodes(list, base)
  BY <1>13, <1>17, <1>18 DEF LibraryNode, OwnNodes, SizedIs
<1>20. QED
  BY <1>15, <1>19

\* A step that writes a node of the heap.
LEMMA BuildTypes ==
  ASSUME Walking, UNCHANGED <<policy, tasks, seen, made, phase, out, raised, visits, links,
                              admitted, thrower>>,
         HeapInv', DOMAIN heap \subseteq DOMAIN heap',
         NEW f \in Frames, FrameOK(f, Len(stack), DOMAIN heap'), Turns(f)
  PROVE  Types'
<1>1. OuterKept
  BY OuterIsKept, WalkingIs
<1>2. StackInv'
  BY <1>1, StackTurns, WalkingIs DEF Walking
<1>3. tasks' = <<>> /\ phase' \in {"record", "redact"} /\ ~Sanitizing' /\ tasks' \in Seq(Tasks)
  BY WalkingIs DEF Sanitizing
<1>4. TasksInv'
  BY <1>3 DEF TasksInv
<1>5. MadeInv' /\ OutInv' /\ ScalarsInv'
  BY WalkingIs DEF MadeInv, OutInv, ScalarsInv
<1>6. QED
  BY <1>2, <1>4, <1>5 DEF Types

LEMMA CappedIdIs ==
  ASSUME Walking
  PROVE  CappedId \in NodeIds /\ CappedId.base = Len(stack)
<1>1. PICK n \in Nat : n = Len(stack)
  BY WalkingIs
<1>2. CAPPED \in Names
  BY RedactionAssumption
<1>3. <<CAPPED>> \in Seq(Names)
  BY <1>2, OneIs
<1>4. QED
  BY <1>1, <1>3 DEF CappedId, Id, NodeIds

LEMMA ReadPartTypes ==
  ASSUME Types, ReadPart
  PROVE  Types'
<1>1. Walking /\ F.step = "parts" /\ F.todo # <<>>
  BY DEF Walking, At, ReadPart
<1>2. UNCHANGED <<policy, tasks, seen, made, phase, raised, visits, links, admitted, thrower>>
  BY DEF ReadPart
<1>3. PICK p \in Names : p = Head(F.todo) /\ Tail(F.todo) \in Seq(Names)
  BY <1>1, NextTodo
<1>4. PICK f : f = [F EXCEPT !.todo = Tail(@), !.part = p]
  OBVIOUS
<1>5. F.value \in Graph /\ F.value \in DOMAIN heap
  BY <1>1, WalkingIs DEF FrameOK
<1>6. /\ f \in Frames /\ f.step = "parts" /\ f.value = F.value /\ f.linked = F.linked
  BY <1>1, <1>3, <1>4, WalkingIs DEF Frames
<1>7. PICK k : k = IF p = "type" THEN "name" ELSE p
  OBVIOUS
<1>8. PICK v \in Read(F.value, k) :
       \/ Turns(LostPart(f)) /\ UNCHANGED <<heap, out>>
       \/ Turns(NextPart(f)) /\ UNCHANGED <<heap, out>>
       \/ /\ Put(PartPath(f), IF Covered(p) THEN "censor" ELSE "leaf", Text, Origin(F.value))
          /\ Turns(NextPart(f)) /\ UNCHANGED heap
       \/ /\ Turns([f EXCEPT !.step = "link", !.linked = v])
          /\ UNCHANGED <<heap, out>>
       \/ /\ IsObject(v) /\ Capped(v)
          /\ \E reading \in Readings(v, FirstIndexes) :
               IF Fails(reading) \/ (~Safe /\ heap[v].via = "throwing")
               THEN Turns(LostPart(f)) /\ UNCHANGED heap
               ELSE /\ heap' = Assign(heap, CappedId, CappedList(v, reading))
                    /\ Turns([f EXCEPT !.step = "link", !.linked = CappedId])
          /\ UNCHANGED out
  BY <1>3, <1>4, <1>7, Zenon DEF ReadPart
<1>9. v \in AppValues /\ v \in Values /\ v \notin NodeIds
  BY <1>1, <1>5, <1>8, FieldReads, ValuesApart
<1>10. /\ NextPart(f) \in Frames /\ FrameOK(NextPart(f), Len(stack), DOMAIN heap)
       /\ LostPart(f) \in Frames /\ FrameOK(LostPart(f), Len(stack), DOMAIN heap)
  <2>1. Undefined \notin NodeIds
    BY ValuesApart DEF Primitives
  <2>2. QED
    BY <1>1, <1>5, <1>6, <2>1, NextPartIs, PartFits
<1>11. ASSUME Turns(LostPart(f)), UNCHANGED <<heap, out>>
       PROVE  Types'
  BY <1>1, <1>2, <1>10, <1>11, Silent, TurnTypes, ScalarsAre
<1>12. CASE Turns(NextPart(f)) /\ UNCHANGED <<heap, out>>
  BY <1>1, <1>2, <1>10, <1>12, Silent, TurnTypes, ScalarsAre
<1>13. CASE /\ Put(PartPath(f), IF Covered(p) THEN "censor" ELSE "leaf", Text, Origin(F.value))
            /\ Turns(NextPart(f)) /\ UNCHANGED heap
  <2>1. Text \in Values /\ Origin(F.value) \in Values /\ PartPath(f) \in Seq(Names)
    BY <1>1, <1>6, WalkingIs, FrameParts, OriginIs, PartPathIs DEF Values, Primitives
  <2>2. PICK what \in Whats : what = IF Covered(p) THEN "censor" ELSE "leaf"
    BY WhatsAre
  <2>3. OutInv'
    BY <1>1, <1>13, <2>1, <2>2, PutIs, WalkingIs
  <2>4. QED
    BY <1>1, <1>2, <1>10, <1>13, <2>3, TurnTypes, ScalarsAre
<1>14. ASSUME NEW w \in Values
       PROVE  /\ [f EXCEPT !.step = "link", !.linked = w] \in Frames
              /\ [f EXCEPT !.step = "link", !.linked = w].value = F.value
              /\ [f EXCEPT !.step = "link", !.linked = w].linked = w
  <2>1. PICK g : g = [f EXCEPT !.step = "link", !.linked = w]
    OBVIOUS
  <2>2. g \in Frames /\ g.value = F.value /\ g.linked = w
    BY <1>6, <2>1 DEF Frames, Steps
  <2>3. QED
    BY <2>1, <2>2
<1>15. CASE /\ Turns([f EXCEPT !.step = "link", !.linked = v])
            /\ UNCHANGED <<heap, out>>
  <2>1. PICK g \in Frames : /\ g = [f EXCEPT !.step = "link", !.linked = v]
                            /\ g.value = F.value /\ g.linked = v
    BY <1>9, <1>14
  <2>2. FrameOK(g, Len(stack), DOMAIN heap)
    BY <1>1, <1>5, <1>9, <2>1, PartFits
  <2>3. QED
    BY <1>1, <1>2, <1>15, <2>1, <2>2, Silent, TurnTypes, ScalarsAre
<1>16. ASSUME IsObject(v), Capped(v), NEW reading \in Readings(v, FirstIndexes), ~Fails(reading),
              heap' = Assign(heap, CappedId, CappedList(v, reading)),
              Turns([f EXCEPT !.step = "link", !.linked = CappedId]), UNCHANGED out
       PROVE  Types'
  <2>1. PICK id \in NodeIds : id = CappedId /\ id.base = Len(stack)
    BY <1>1, CappedIdIs
  <2>2. PICK list : list = CappedList(v, reading)
    OBVIOUS
  <2>3. LibraryNode(list) /\ OwnNodes(list, id.base)
    BY <1>1, <1>9, <1>16, <2>2, CappedListIs, WalkingIs DEF IsObject
  <2>4. heap' = Assign(heap, id, list)
    BY <1>16, <2>1, <2>2
  <2>5. HeapInv' /\ DOMAIN heap \subseteq DOMAIN heap'
    BY <1>1, <2>3, <2>4, Storing, WalkingIs
  <2>6. id \in Values
    BY DEF Values, Objects
  <2>7. PICK g \in Frames : /\ g = [f EXCEPT !.step = "link", !.linked = id]
                            /\ g.value = F.value /\ g.linked = id
    BY <1>14, <2>6
  <2>8. g.linked.base <= Len(stack)
    <3>1. PICK n \in Nat : n = Len(stack)
      BY <1>1, WalkingIs
    <3>2. QED
      BY <2>1, <2>7, <3>1
  <2>9. FrameOK(g, Len(stack), DOMAIN heap')
    <3>1. PICK objects : objects = DOMAIN heap'
      OBVIOUS
    <3>2. FrameOK(g, Len(stack), objects)
      BY <1>1, <1>5, <2>5, <2>7, <2>8, <3>1, PartFits
    <3>3. QED
      BY <3>1, <3>2
  <2>10. Turns(g)
    BY <1>16, <2>1, <2>7
  <2>11. QED
    BY <1>1, <1>2, <1>16, <2>5, <2>7, <2>9, <2>10, BuildTypes
<1>17. CASE /\ IsObject(v) /\ Capped(v)
            /\ \E reading \in Readings(v, FirstIndexes) :
                 IF Fails(reading) \/ (~Safe /\ heap[v].via = "throwing")
                 THEN Turns(LostPart(f)) /\ UNCHANGED heap
                 ELSE /\ heap' = Assign(heap, CappedId, CappedList(v, reading))
                      /\ Turns([f EXCEPT !.step = "link", !.linked = CappedId])
            /\ UNCHANGED out
  BY <1>11, <1>16, <1>17
<1>18. QED
  BY <1>8, <1>11, <1>12, <1>13, <1>15, <1>17

\* Chain levels.
LEMMA BeforesAre ==
  ASSUME NEW D, D \subseteq Values, NEW f, f \in [D -> Nat]
  PROVE  f \in Befores
BY DEF Befores

LEMMA LinksAre ==
  ASSUME NEW l \in Befores
  PROVE  DOMAIN l \subseteq Values /\ l \in [DOMAIN l -> Nat] /\ \A v \in DOMAIN l : l[v] \in Nat
BY DEF Befores

LEMMA LevelsAre ==
  ASSUME links \in Befores
  PROVE  \A v : LevelOf(v) \in Nat
BY LinksAre DEF LevelOf

\* The levels with some more of them.
LEMMA LevelsGrow ==
  ASSUME links \in Befores, NEW targets, targets \subseteq Values, NEW level \in Nat,
         links' = Over([v \in targets |-> level], links)
  PROVE  links' \in Befores
<1>1. PICK f : f = [v \in targets |-> level]
  OBVIOUS
<1>2. PICK l : l = Over(f, links)
  OBVIOUS
<1>3. /\ \A x : x \in DOMAIN l <=> (x \in DOMAIN f \/ x \in DOMAIN links)
      /\ \A x \in DOMAIN f : l[x] = f[x]
      /\ \A x \in DOMAIN links : x \notin DOMAIN f => l[x] = links[x]
  BY <1>2, Overlaid
<1>4. DOMAIN f = targets /\ \A x \in targets : f[x] = level
  BY <1>1
<1>5. DOMAIN l \subseteq Values
  BY <1>3, <1>4, LinksAre
<1>6. \A x \in DOMAIN l : l[x] \in Nat
  BY <1>3, <1>4, LinksAre
<1>7. l = [x \in DOMAIN l |-> l[x]]
  BY <1>2 DEF Over
<1>8. l \in [DOMAIN l -> Nat]
  BY <1>6, <1>7
<1>9. QED
  BY <1>1, <1>2, <1>5, <1>8, BeforesAre

\* The levels as they were.
LEMMA RestoredIs ==
  ASSUME links \in Befores, NEW f, f.before \in Befores
  PROVE  /\ Restored(f) \in Befores
         /\ \A v : v \in DOMAIN Restored(f) <=>
              v \in DOMAIN links /\ ~ (v \in DOMAIN f.before /\ f.before[v] = 0)
<1>1. PICK gone : gone = {v \in DOMAIN f.before : f.before[v] = 0}
  OBVIOUS
<1>2. PICK kept : kept = DOMAIN f.before \ gone
  OBVIOUS
<1>3. PICK l : l = [v \in (DOMAIN links \ gone) |-> IF v \in kept THEN f.before[v] ELSE links[v]]
  OBVIOUS
<1>4. l = Restored(f)
  BY <1>1, <1>2, <1>3, Zenon DEF Restored
<1>5. DOMAIN l = DOMAIN links \ gone
  BY <1>3
<1>6. \A v \in DOMAIN l : l[v] \in Nat
  BY <1>2, <1>3, LinksAre
<1>7. l \in [DOMAIN l -> Nat] /\ DOMAIN l \subseteq Values
  BY <1>3, <1>5, <1>6, LinksAre
<1>8. l \in Befores
  BY <1>7, BeforesAre
<1>9. QED
  BY <1>1, <1>4, <1>5, <1>8

\* What is written of a part, and what of it is dropped.
LEMMA EntryIs ==
  ASSUME NEW what \in Whats, NEW v \in Values, NEW owner \in Values
  PROVE  Entry(what, v, owner) \in Entries
BY DEF Entry, Entries

LEMMA DroppedIs ==
  ASSUME OutInv, NEW path
  PROVE  /\ \A q \in DOMAIN Dropped(path) : /\ q \in DOMAIN out /\ Dropped(path)[q] = out[q]
                                           /\ q \in Seq(Names) /\ out[q] \in Entries
         /\ \A q \in DOMAIN out : ~Under(path, q) => q \in DOMAIN Dropped(path)
BY DEF Dropped, OutInv

LEMMA DropKeeps ==
  ASSUME OutInv, NEW path, out' = Dropped(path)
  PROVE  OutInv'
BY DroppedIs DEF OutInv

\* One entry is written over what was there.
LEMMA AssignKeeps ==
  ASSUME NEW o, \A q \in DOMAIN o : q \in Seq(Names) /\ o[q] \in Entries,
         NEW path \in Seq(Names), NEW e \in Entries, out' = Assign(o, path, e)
  PROVE  OutInv'
<1>1. PICK g : g = Assign(o, path, e)
  OBVIOUS
<1>2. /\ \A x : x \in DOMAIN g <=> (x \in DOMAIN o \/ x = path)
      /\ g[path] = e /\ \A x \in DOMAIN o : x # path => g[x] = o[x]
  BY <1>1, Assigned
<1>3. QED
  BY <1>1, <1>2 DEF OutInv

\* What stands for links past the budget.
LEMMA LevelMarkersAre ==
  ASSUME HeapInv, MadeInv, NEW f \in Frames, NEW reading,
         IsArray(f.linked) => DOMAIN reading \subseteq Names,
         \A k \in DOMAIN reading : reading[k] \in Values
  PROVE  \A q \in DOMAIN LevelMarkers(f, reading) :
           q \in Seq(Names) /\ LevelMarkers(f, reading)[q] \in Entries
<1>1. PICK p \in Seq(Names) : p = PartPath(f)
  BY PartPathIs
<1>2. PICK o \in Values : o = Origin(f.value)
  BY FrameParts, OriginIs
<1>3. f.linked \in Values /\ DepthMarker \in Values
  BY FrameParts, MarkersAre, ValuesApart DEF Values, Objects
<1>4. "markers" \in Whats /\ "object" \in Whats
  BY WhatsAre
<1>5. PICK alone : alone = [q \in {p} |-> Entry("object", DepthMarker, o)]
  OBVIOUS
<1>6. \A q \in DOMAIN alone : q \in Seq(Names) /\ alone[q] \in Entries
  BY <1>1, <1>2, <1>3, <1>4, <1>5, EntryIs
<1>7. PICK each : each =
        [q \in {p} \cup {Append(p, k) : k \in DOMAIN reading} |->
           IF q = p THEN Entry("markers", f.linked, o)
           ELSE Entry("object", IF reading[q[Len(q)]] \in Markers \ {DepthMarker}
                                THEN reading[q[Len(q)]] ELSE DepthMarker, f.linked)]
  OBVIOUS
<1>8. ASSUME IsArray(f.linked), NEW q \in DOMAIN each
      PROVE  q \in Seq(Names) /\ each[q] \in Entries
  <2>1. CASE q = p
    BY <1>1, <1>2, <1>3, <1>4, <1>7, <2>1, EntryIs
  <2>2. CASE q # p
    <3>1. PICK k \in DOMAIN reading : q = Append(p, k)
      BY <1>7, <2>2
    <3>2. PICK r : r = reading[q[Len(q)]]
      OBVIOUS
    <3>3. PICK m : m = IF r \in Markers \ {DepthMarker} THEN r ELSE DepthMarker
      OBVIOUS
    <3>4. m \in Values
      BY <1>3, <3>3, ValuesApart DEF Values, Objects
    <3>5. each[q] = Entry("object", m, f.linked)
      BY <1>7, <2>2, <3>1, <3>2, <3>3
    <3>6. q \in Seq(Names)
      BY <1>1, <1>8, <3>1, Appending
    <3>7. QED
      BY <1>3, <1>4, <3>4, <3>5, <3>6, EntryIs
  <2>3. QED
    BY <2>1, <2>2
<1>9. \/ LevelMarkers(f, reading) = alone
      \/ IsArray(f.linked) /\ LevelMarkers(f, reading) = each
  BY <1>1, <1>2, <1>5, <1>7 DEF LevelMarkers
<1>10. QED
  BY <1>6, <1>8, <1>9

\* Two maps of entries, one over the other.
LEMMA OverKeeps ==
  ASSUME OutInv, NEW o, \A q \in DOMAIN o : q \in Seq(Names) /\ o[q] \in Entries,
         out' = Over(o, out)
  PROVE  OutInv'
<1>1. PICK g : g = Over(o, out)
  OBVIOUS
<1>2. /\ \A x : x \in DOMAIN g <=> (x \in DOMAIN o \/ x \in DOMAIN out)
      /\ \A x \in DOMAIN o : g[x] = o[x]
      /\ \A x \in DOMAIN out : x \notin DOMAIN o => g[x] = out[x]
  BY <1>1, Overlaid
<1>3. QED
  BY <1>1, <1>2 DEF OutInv

\* How the value a part links to, or its members, may be read.
LinkReadings ==
  IF IsArray(F.linked) THEN Readings(F.linked, KeysOf(F.linked)) ELSE {[k \in {"0"} |-> F.linked]}

LEMMA LinkReadingIs ==
  ASSUME Walking, NEW reading \in LinkReadings
  PROVE  /\ IsArray(F.linked) => DOMAIN reading \subseteq Names
         /\ \A k \in DOMAIN reading : reading[k] \in Values
<1>1. F.linked \in Values
  BY WalkingIs, FrameParts
<1>2. CASE IsArray(F.linked)
  <2>1. F.linked \in DOMAIN heap
    BY <1>2 DEF IsArray, IsKind, IsObject
  <2>2. DOMAIN reading = KeysOf(F.linked) /\ \A k \in KeysOf(F.linked) : reading[k] \in Read(F.linked, k)
    BY <1>2 DEF LinkReadings, Readings
  <2>3. KeysOf(F.linked) \subseteq Names
    BY <2>1, ObjectsAre, WalkingIs
  <2>4. \A k \in KeysOf(F.linked) : reading[k] \in Values
    BY <2>1, <2>2, ReadsAre, WalkingIs
  <2>5. QED
    BY <2>2, <2>3, <2>4
<1>3. CASE ~ IsArray(F.linked)
  BY <1>1, <1>3 DEF LinkReadings
<1>4. QED
  BY <1>2, <1>3

Targets(reading) == {v \in {reading[k] : k \in DOMAIN reading} : IsRecord(v)}

LEMMA LinkTypes ==
  ASSUME Types, Link
  PROVE  Types'
<1>1. Walking /\ F.step = "link"
  BY DEF Walking, At, Link
<1>2. UNCHANGED <<heap, policy, tasks, seen, made, phase, raised, visits, admitted, thrower>>
  BY DEF Link, sanitizerVars
<1>3. PICK level : level = LevelOf(F.value) + 1
  OBVIOUS
<1>4. PICK reading \in LinkReadings :
       \/ Turns(LostPart(F)) /\ UNCHANGED <<out, links>>
       \/ /\ out' = IF Covered(F.part)
                    THEN Assign(out, PartPath(F), Entry("censor", Text, Origin(F.value)))
                    ELSE Over(LevelMarkers(F, reading), out)
          /\ Turns(NextPart(F)) /\ UNCHANGED links
       \/ /\ links' = Over([v \in Targets(reading) |-> level], links)
          /\ Calls2([F EXCEPT !.step = "linked",
                              !.before = [v \in Targets(reading) |-> LevelOf(v)]],
                    Frame(F.linked, PartPath(F), F.depth + 1, TRUE, F.ser, Origin(F.value)))
          /\ UNCHANGED out
  BY <1>3, Zenon DEF Link, LinkReadings, Targets
<1>5. /\ IsArray(F.linked) => DOMAIN reading \subseteq Names
      /\ \A k \in DOMAIN reading : reading[k] \in Values
  BY <1>1, <1>4, LinkReadingIs
<1>6. F.value \in Graph /\ F.value \in DOMAIN heap
  BY <1>1, WalkingIs DEF FrameOK
<1>7. /\ NextPart(F) \in Frames /\ FrameOK(NextPart(F), Len(stack), DOMAIN heap)
      /\ LostPart(F) \in Frames /\ FrameOK(LostPart(F), Len(stack), DOMAIN heap)
  <2>1. Undefined \notin NodeIds
    BY ValuesApart DEF Primitives
  <2>2. QED
    BY <1>1, <1>6, <2>1, NextPartIs, PartFits, WalkingIs
<1>8. level \in Nat /\ links \in Befores /\ \A v : LevelOf(v) \in Nat
  <2>1. links \in Befores
    BY <1>1, ScalarsAre
  <2>2. QED
    BY <1>3, <2>1, LevelsAre
<1>9. CASE Turns(LostPart(F)) /\ UNCHANGED <<out, links>>
  BY <1>1, <1>2, <1>7, <1>9, Silent, TurnTypes, ScalarsAre
<1>10. CASE /\ out' = IF Covered(F.part)
                      THEN Assign(out, PartPath(F), Entry("censor", Text, Origin(F.value)))
                      ELSE Over(LevelMarkers(F, reading), out)
            /\ Turns(NextPart(F)) /\ UNCHANGED links
  <2>1. Text \in Values /\ Origin(F.value) \in Values /\ PartPath(F) \in Seq(Names)
    BY <1>1, WalkingIs, FrameParts, OriginIs, PartPathIs DEF Values, Primitives
  <2>2. PICK e \in Entries : e = Entry("censor", Text, Origin(F.value))
    BY <2>1, EntryIs, WhatsAre
  <2>3. \A q \in DOMAIN out : q \in Seq(Names) /\ out[q] \in Entries
    BY <1>1, WalkingIs DEF OutInv
  <2>4. PICK o : /\ o = LevelMarkers(F, reading)
                 /\ \A q \in DOMAIN o : q \in Seq(Names) /\ o[q] \in Entries
    BY <1>1, <1>5, LevelMarkersAre, WalkingIs
  <2>5. \/ out' = Assign(out, PartPath(F), e)
        \/ out' = Over(o, out)
    BY <1>10, <2>2, <2>4
  <2>6. OutInv'
    BY <1>1, <2>1, <2>3, <2>4, <2>5, AssignKeeps, OverKeeps, WalkingIs
  <2>7. QED
    BY <1>1, <1>2, <1>7, <1>10, <2>6, TurnTypes, ScalarsAre
<1>11. CASE /\ links' = Over([v \in Targets(reading) |-> level], links)
            /\ Calls2([F EXCEPT !.step = "linked",
                                !.before = [v \in Targets(reading) |-> LevelOf(v)]],
                      Frame(F.linked, PartPath(F), F.depth + 1, TRUE, F.ser, Origin(F.value)))
            /\ UNCHANGED out
  <2>1. Targets(reading) \subseteq Values
    BY <1>5 DEF Targets
  <2>2. links' \in Befores
    BY <1>8, <1>11, <2>1, LevelsGrow
  <2>3. PICK before : before = [v \in Targets(reading) |-> LevelOf(v)]
    OBVIOUS
  <2>4. before \in Befores
    BY <1>8, <2>1, <2>3, BeforesAre
  <2>5. PICK f : f = [F EXCEPT !.step = "linked", !.before = before]
    OBVIOUS
  <2>6. f \in Frames /\ f.step = "linked" /\ f.value = F.value /\ f.linked = F.linked
    BY <1>1, <2>4, <2>5, WalkingIs DEF Frames, Steps
  <2>7. FrameOK(f, Len(stack), DOMAIN heap) /\ f.step \in Waiting
    BY <1>1, <1>6, <2>6, WalkingIs DEF FrameOK, Waiting
  <2>8. F.linked \in Values /\ (F.linked \in NodeIds => F.linked.base <= Len(stack))
    BY <1>1, WalkingIs, FrameParts DEF FrameOK
  <2>9. F.part \in Names /\ F.ser \in BOOLEAN
    BY <1>1, WalkingIs, FrameParts
  <2>10. PICK g \in Frames :
           /\ g = Frame(F.linked, Append(F.path, F.part), F.depth + 1, TRUE, F.ser, Origin(F.value))
           /\ FrameOK(g, Len(stack) + 1, DOMAIN heap)
    BY <1>1, <2>8, <2>9, FieldFrame
  <2>11. Calls2(f, g) /\ OutInv'
    BY <1>1, <1>11, <2>3, <2>5, <2>10, Silent DEF PartPath
  <2>12. QED
    BY <1>1, <1>2, <2>2, <2>6, <2>7, <2>10, <2>11, CallTypes, ScalarsAre
<1>12. QED
  BY <1>4, <1>9, <1>10, <1>11

LEMMA LinkedTypes ==
  ASSUME Types, Linked
  PROVE  Types'
<1>1. Walking /\ F.step = "linked"
  BY DEF Walking, At, Linked
<1>2. UNCHANGED <<heap, policy, tasks, seen, made, phase, raised, visits, admitted, thrower>>
  BY DEF Linked, sanitizerVars
<1>3. F.value \in Graph /\ F.value \in DOMAIN heap
  BY <1>1, WalkingIs DEF FrameOK
<1>4. NextPart(F) \in Frames /\ FrameOK(NextPart(F), Len(stack), DOMAIN heap)
  <2>1. Undefined \notin NodeIds
    BY ValuesApart DEF Primitives
  <2>2. QED
    BY <1>1, <1>3, <2>1, NextPartIs, PartFits, WalkingIs
<1>5. links' \in Befores
  <2>1. links \in Befores /\ F.before \in Befores
    BY <1>1, ScalarsAre, WalkingIs, FrameParts
  <2>2. QED
    BY <2>1, RestoredIs DEF Linked
<1>6. OutInv'
  <2>1. PICK e \in Entries : e = Entry("censor", Text, Origin(F.value))
    <3>1. Text \in Values /\ Origin(F.value) \in Values
      BY <1>1, WalkingIs, FrameParts, OriginIs DEF Values, Primitives
    <3>2. QED
      BY <3>1, EntryIs, WhatsAre
  <2>2. PICK o : o = Dropped(PartPath(F)) /\ \A q \in DOMAIN o : q \in Seq(Names) /\ o[q] \in Entries
    BY <1>1, DroppedIs, WalkingIs
  <2>3. out' = Assign(o, PartPath(F), e) \/ out' = out
    BY <2>1, <2>2 DEF Linked
  <2>4. PartPath(F) \in Seq(Names)
    BY <1>1, PartPathIs, WalkingIs
  <2>5. QED
    BY <1>1, <2>2, <2>3, <2>4, AssignKeeps, Silent
<1>7. Turns(NextPart(F))
  BY DEF Linked
<1>8. QED
  BY <1>1, <1>2, <1>4, <1>5, <1>6, <1>7, TurnTypes, ScalarsAre

LEMMA PartsDoneTypes ==
  ASSUME Types, PartsDone
  PROVE  Types'
<1>1. Walking
  BY DEF Walking, At, PartsDone
<1>2. UNCHANGED <<heap, policy, tasks, seen, made, phase, raised, visits, links, admitted, thrower>>
  BY DEF PartsDone, sanitizerVars
<1>3. OutInv'
  <2>1. Text \in Values /\ Origin(F.value) \in Values
    BY <1>1, WalkingIs, FrameParts, OriginIs DEF Values, Primitives
  <2>2. Append(F.path, INCOMPLETE_KEY) \in Seq(Names)
    <3>1. F.path \in Seq(Names)
      BY <1>1, WalkingIs, FrameParts
    <3>2. QED
      BY <3>1, NamesAre, AppendProperties
  <2>3. CASE UNCHANGED out
    BY <1>1, <2>3, Silent
  <2>4. CASE Put(Append(F.path, INCOMPLETE_KEY), "leaf", Text, Origin(F.value))
    BY <1>1, <2>1, <2>2, <2>4, PutIs, WhatsAre, WalkingIs
  <2>5. QED
    BY <2>3, <2>4 DEF PartsDone
<1>4. Ends
  BY DEF PartsDone
<1>5. QED
  BY <1>1, <1>2, <1>3, <1>4, EndTypes, ScalarsAre

LEMMA CatchPartTypes ==
  ASSUME Types, CatchPart
  PROVE  Types'
<1>1. Walking /\ F.step = "linked"
  BY DEF Walking, Unwinding, CatchPart, Types, TasksInv
<1>2. UNCHANGED <<heap, policy, tasks, seen, made, phase, visits, admitted, thrower>> /\ raised' = FALSE
  BY DEF CatchPart, sanitizerVars
<1>3. F.value \in Graph /\ F.value \in DOMAIN heap
  BY <1>1, WalkingIs DEF FrameOK
<1>4. LostPart(F) \in Frames /\ FrameOK(LostPart(F), Len(stack), DOMAIN heap)
  <2>1. Undefined \notin NodeIds
    BY ValuesApart DEF Primitives
  <2>2. QED
    BY <1>1, <1>3, <2>1, NextPartIs, PartFits, WalkingIs
<1>5. links' \in Befores
  <2>1. links \in Befores /\ F.before \in Befores
    BY <1>1, ScalarsAre, WalkingIs, FrameParts
  <2>2. QED
    BY <2>1, RestoredIs DEF CatchPart
<1>6. OutInv'
  BY <1>1, DropKeeps, WalkingIs DEF CatchPart
<1>7. Turns(LostPart(F))
  BY DEF CatchPart
<1>8. QED
  BY <1>1, <1>2, <1>4, <1>5, <1>6, <1>7, TurnTypes, ScalarsAre

LEMMA IdsAre ==
  ASSUME NEW n \in Nat, NEW r \in Seq(Names)
  PROVE  Id(n, r) \in NodeIds /\ Id(n, r).base = n /\ Id(n, r).route = r
BY DEF Id, NodeIds

\* The frame in which the error's node is walked.
LEMMA WalkDegradedTypes ==
  ASSUME Types, WalkDegraded
  PROVE  Types'
<1>1. Walking
  BY DEF Walking, At, WalkDegraded
<1>2. UNCHANGED <<heap, policy, tasks, seen, made, phase, raised, out, visits, links, admitted, thrower>>
  BY DEF WalkDegraded, sanitizerVars
<1>3. PICK n \in Nat : n = Len(stack)
  BY <1>1, WalkingIs
<1>4. PICK id \in NodeIds : id = Id(n, <<>>) /\ id.base = n
  BY <1>3, IdsAre, BeginningIs
<1>5. PICK f : f = Frame(id, F.path, F.depth, F.honor, F.ser, F.owner)
  OBVIOUS
<1>6. id \in Values
  BY DEF Values, Objects
<1>7. f \in Frames
  <2>1. /\ F.depth \in Nat /\ F.honor \in BOOLEAN /\ F.ser \in BOOLEAN
        /\ F.path \in Seq(Names) /\ F.owner \in Values
    BY <1>1, WalkingIs, FrameParts
  <2>2. QED
    BY <1>5, <1>6, <2>1, BeginningIs DEF Frame, Frames
<1>8. f.value = id /\ f.step = "enter" /\ f.linked = Undefined
  BY <1>5 DEF Frame
<1>9. FrameOK(f, Len(stack), DOMAIN heap)
  BY <1>3, <1>4, <1>8, FrameFits
<1>10. Turns(f)
  BY <1>3, <1>4, <1>5 DEF WalkDegraded
<1>11. QED
  BY <1>1, <1>2, <1>7, <1>9, <1>10, Silent, TurnTypes, ScalarsAre

LEMMA UnwindTypes ==
  ASSUME Types, Unwind
  PROVE  Types'
<1>1. Walking
  BY DEF Walking, Unwinding, Unwind, Types, TasksInv
<1>2. UNCHANGED <<heap, policy, tasks, seen, made, phase, visits, links, admitted, thrower>> /\ Ends
  BY DEF Unwind, sanitizerVars
<1>3. raised' \in BOOLEAN
  BY <1>1, ScalarsAre DEF Unwind
<1>4. OutInv'
  <2>1. CASE UNCHANGED out
    BY <1>1, <2>1, Silent
  <2>2. CASE out' = [q \in {<<>>} |-> Entry("envelope", Record, Record)]
    <3>1. Record \in Values
      BY <1>1, WalkingIs DEF HeapInv, Values
    <3>2. Entry("envelope", Record, Record) \in Entries
      BY <3>1, EntryIs, WhatsAre
    <3>3. QED
      BY <2>2, <3>2, BeginningIs DEF OutInv
  <2>3. QED
    BY <2>1, <2>2 DEF Unwind
<1>5. QED
  BY <1>1, <1>2, <1>3, <1>4, EndTypes, ScalarsAre

\* The one call with which a sanitization begins.
LEMMA TaskIs ==
  ASSUME NEW v \in AppValues, NEW base \in Nat, NEW h
  PROVE  /\ Task(v, Id(base, <<>>), 0) \in Tasks
         /\ TaskOK(Task(v, Id(base, <<>>), 0), h, base)
         /\ Task(v, Id(base, <<>>), 0).step = "identify"
<1>1. PICK id \in NodeIds : id = Id(base, <<>>) /\ id.base = base
  BY IdsAre, BeginningIs
<1>2. <<>> \in Seq(AppValues) /\ "identify" \in TaskSteps
  BY DEF TaskSteps
<1>3. PICK t : t = Task(v, id, 0)
  OBVIOUS
<1>4. t \in Tasks
  BY <1>2, <1>3 DEF Task, Tasks
<1>5. t.id = id /\ t.level = 0 /\ t.step = "identify"
  BY <1>3 DEF Task
<1>6. TaskOK(t, h, base)
  BY <1>1, <1>5, IndexesAre DEF TaskOK
<1>7. QED
  BY <1>1, <1>3, <1>4, <1>5, <1>6

LEMMA OneTask ==
  ASSUME NEW t \in Tasks, t.step = "identify", tasks' = <<t>>, TaskOK(t, heap', Len(stack')),
         ~ raised', stack' # <<>> => F'.step = "degraded" /\ phase' # "serialize",
         stack' = <<>> => phase' = "serialize"
  PROVE  TasksInv'
<1>1. /\ tasks' \in Seq(Tasks) /\ DOMAIN tasks' = {1} /\ Len(tasks') = 1 /\ tasks'[1] = t
      /\ tasks' # <<>>
  OBVIOUS
<1>2. \A i \in DOMAIN tasks' : TaskOK(tasks'[i], heap', Len(stack'))
  BY <1>1
<1>3. \A i, j \in DOMAIN tasks' : ~ i < j
  BY <1>1
<1>4. \A i \in DOMAIN tasks' : i = Len(tasks')
  BY <1>1
<1>5. QED
  BY <1>1, <1>2, <1>3, <1>4 DEF TasksInv, Sanitizing

\* What a sanitization leaves of the heap when it starts.
LEMMA StartIs ==
  ASSUME HeapInv, MadeInv, NEW v, NEW base \in Nat, StartSanitizing(v, base)
  PROVE  /\ tasks' = <<Task(v, Id(base, <<>>), 0)>> /\ seen' = {}
         /\ HeapInv' /\ MadeInv'
         /\ \A o \in DOMAIN heap : o \notin NodeIds \/ o.base # base => o \in DOMAIN heap'
         /\ \A i : i \in DOMAIN made' <=> i \in DOMAIN made /\ i.base # base
         /\ \A i \in DOMAIN made' : made'[i] = made[i]
         /\ \A o \in DOMAIN heap' : o \in DOMAIN heap /\ heap'[o] = heap[o]
<1>1. PICK kept : kept = {i \in DOMAIN made : i.base # base}
  OBVIOUS
<1>2. PICK live : live = {o \in DOMAIN heap : o \in kept \/ o \notin DOMAIN made}
  OBVIOUS
<1>3. /\ tasks' = <<Task(v, Id(base, <<>>), 0)>> /\ seen' = {}
      /\ made' = [i \in kept |-> made[i]]
      /\ heap' = [o \in live |-> heap[o]]
  BY <1>1, <1>2, Zenon DEF StartSanitizing
<1>4. DOMAIN made' = kept /\ \A i \in kept : made'[i] = made[i]
  BY <1>3
<1>5. DOMAIN heap' = live /\ \A o \in live : heap'[o] = heap[o]
  BY <1>3
<1>6. MadeInv'
  BY <1>1, <1>4 DEF MadeInv
<1>7. \A o \in DOMAIN heap : o \notin NodeIds \/ o.base # base => o \in live
  BY <1>1, <1>2 DEF MadeInv
<1>8. Library \cup {Record, Thrown} \subseteq live
  <2>1. {Record, Thrown} \cap NodeIds = {}
    BY ValuesApart DEF HeapInv
  <2>2. QED
    BY <1>7, <2>1, ValuesApart DEF HeapInv
<1>9. HeapInv'
  <2>1. \A o \in DOMAIN heap' : o \in DOMAIN heap /\ heap'[o] = heap[o]
    BY <1>2, <1>5
  <2>2. DOMAIN heap' \subseteq Objects /\ Library \cup {Record, Thrown} \subseteq DOMAIN heap'
    BY <1>5, <1>8, <2>1 DEF HeapInv
  <2>3. \A o \in DOMAIN heap' \ NodeIds : AppObject(heap'[o])
    BY <2>1 DEF HeapInv
  <2>4. \A o \in DOMAIN heap' : o \in NodeIds \cup Library => LibraryNode(heap'[o])
    BY <2>1 DEF HeapInv
  <2>5. \A o \in DOMAIN heap' : o \in NodeIds => OwnNodes(heap'[o], o.base)
    BY <2>1 DEF HeapInv
  <2>6. QED
    BY <2>2, <2>3, <2>4, <2>5 DEF HeapInv
<1>10. \A i : i \in DOMAIN made' <=> i \in DOMAIN made /\ i.base # base
  BY <1>1, <1>4
<1>11. \A o \in DOMAIN heap' : o \in DOMAIN heap /\ heap'[o] = heap[o]
  BY <1>2, <1>5
<1>12. QED
  BY <1>3, <1>4, <1>5, <1>6, <1>7, <1>9, <1>10, <1>11

LEMMA CatchErrorTypes ==
  ASSUME Types, CatchError
  PROVE  Types'
<1>1. Walking /\ F.step # "linked" /\ IsError(F.value)
  BY DEF Walking, Unwinding, CatchError, Types, TasksInv, Catches
<1>2. UNCHANGED <<policy, phase, links, admitted, thrower>> /\ raised' = FALSE /\ visits' = visits - 1
      /\ out' = Dropped(F.path) /\ StartSanitizing(F.value, Len(stack))
      /\ Turns([F EXCEPT !.step = "degraded"])
  BY DEF CatchError
<1>3. F.value \in Graph /\ F.value \in DOMAIN heap
  BY <1>1, ErrorsAreOfTheGraph, WalkingIs DEF IsError
<1>4. PICK n \in Nat \ {0} : n = Len(stack)
  BY <1>1, WalkingIs
<1>5. /\ tasks' = <<Task(F.value, Id(n, <<>>), 0)>> /\ seen' = {}
      /\ HeapInv' /\ MadeInv'
      /\ \A o \in DOMAIN heap : o \notin NodeIds \/ o.base # n => o \in DOMAIN heap'
  BY <1>1, <1>2, <1>4, StartIs, WalkingIs
<1>6. OuterKept
  <2>1. ASSUME NEW i \in DOMAIN stack, i # Len(stack)
        PROVE  FrameOK(stack[i], i, DOMAIN heap')
    <3>1. FrameOK(stack[i], i, DOMAIN heap) /\ stack[i].step \in Waiting
      BY <1>1, <2>1, WalkingIs DEF StackInv
    <3>2. i \in 1..n /\ i < n
      BY <1>1, <1>4, <2>1, FIs, WalkingIs DEF Walking
    <3>3. PICK f \in Frames : f = stack[i]
      BY <1>1, <1>4, <2>1, <3>2, FIs, WalkingIs DEF Walking
    <3>4. f.value \in DOMAIN heap
      BY <3>1, <3>3 DEF FrameOK, Waiting
    <3>5. f.value \in NodeIds => f.value.base # n
      BY <3>1, <3>2, <3>3 DEF FrameOK, NodeIds
    <3>6. f.value \in DOMAIN heap'
      BY <1>5, <3>4, <3>5
    <3>7. QED
      BY <3>1, <3>3, <3>6 DEF FrameOK
  <2>2. QED
    BY <2>1 DEF OuterKept
<1>7. PICK f \in Frames : /\ f = [F EXCEPT !.step = "degraded"] /\ f.step = "degraded"
                          /\ f.value = F.value /\ f.linked = F.linked
  <2>1. "degraded" \in Steps
    BY DEF Steps
  <2>2. QED
    BY <1>1, <2>1, WithStep, WalkingIs
<1>8. FrameOK(f, Len(stack), DOMAIN heap')
  BY <1>1, <1>3, <1>7, WalkingIs DEF FrameOK
<1>9. StackInv' /\ stack' # <<>> /\ Len(stack') = n /\ F' = f
  BY <1>1, <1>2, <1>4, <1>6, <1>7, <1>8, StackTurns, WalkingIs DEF Walking
<1>10. TasksInv'
  <2>1. PICK t \in Tasks : /\ t = Task(F.value, Id(n, <<>>), 0) /\ t.step = "identify"
                           /\ TaskOK(t, heap', n)
    <3>1. F.value \in AppValues
      BY <1>3 DEF AppValues
    <3>2. QED
      BY <3>1, TaskIs
  <2>2. tasks' = <<t>>
    BY <1>5, <2>1
  <2>3. phase' # "serialize" /\ ~ raised'
    BY <1>1, <1>2, WalkingIs
  <2>4. F'.step = "degraded"
    BY <1>7, <1>9
  <2>5. QED
    BY <1>9, <2>1, <2>2, <2>3, <2>4, OneTask
<1>11. OutInv'
  <2>1. PICK path : path = F.path
    OBVIOUS
  <2>2. OutInv /\ out' = Dropped(path)
    BY <1>1, <1>2, <2>1, WalkingIs
  <2>3. QED
    BY <2>2, DropKeeps
<1>12. ScalarsInv'
  <2>1. UNCHANGED <<policy, phase, links, admitted, thrower>> /\ raised' \in BOOLEAN
        /\ visits' \in Int /\ seen' = {}
    BY <1>1, <1>2, <1>5, ScalarsAre
  <2>2. ScalarsInv
    BY <1>1, WalkingIs
  <2>3. QED
    BY <2>1, <2>2 DEF ScalarsInv
<1>13. QED
  BY <1>5, <1>9, <1>10, <1>11, <1>12 DEF Types

\* serializeErrorValue's node is still one of the library's.
LEMMA AsSerializedIs ==
  ASSUME NEW n, LibraryNode(n), NEW base, OwnNodes(n, base)
  PROVE  /\ LibraryNode(AsSerialized(n)) /\ OwnNodes(AsSerialized(n), base)
         /\ AsSerialized(n).kind = n.kind /\ AsSerialized(n).via = n.via
         /\ Elements(AsSerialized(n).keys) = {"type"} \cup (Elements(n.keys) \ {"name", "type"})
         /\ \A k \in DOMAIN n.field : k # "name" => k \in DOMAIN AsSerialized(n).field
<1>1. /\ WellFormed(n, Values) /\ Elements(n.keys) = DOMAIN n.field
      /\ \A k \in DOMAIN n.field : Throws \notin n.field[k]
      /\ n.kind \in {"object", "array"} /\ n.via \in {"none", "method"} /\ n.form \subseteq AppValues
  BY DEF LibraryNode
<1>2. /\ DOMAIN n = NodeFields /\ n.kind \in Kinds /\ n.via \in Vias
      /\ n.keys \in Seq(Names) /\ n.size \in Nat /\ n.sqlState \in BOOLEAN /\ OneEach(n.keys)
      /\ DOMAIN n.field \subseteq Names /\ \A k \in DOMAIN n.field : n.field[k] \subseteq Values
      /\ n.form \subseteq Values
  BY <1>1, WellFormedIs
<1>3. PICK s \in Seq(Names) : /\ s = Without(n.keys, {"name", "type"}) /\ OneEach(s)
                              /\ Elements(s) = Elements(n.keys) \ {"name", "type"}
  BY <1>2, WithoutProperties
<1>4. PICK t \in Seq(Names) : t = <<"type">> /\ OneEach(t) /\ Elements(t) = {"type"}
  <2>1. PICK t : t = <<"type">>
    OBVIOUS
  <2>2. t \in Seq(Names) /\ DOMAIN t = {1} /\ t[1] = "type"
    BY <2>1, NamesAre
  <2>3. QED
    BY <2>1, <2>2 DEF OneEach, Elements
<1>5. PICK keys \in Seq(Names) : /\ keys = t \o s /\ OneEach(keys)
                                 /\ Elements(keys) = {"type"} \cup (Elements(n.keys) \ {"name", "type"})
  <2>1. Elements(t) \cap Elements(s) = {}
    BY <1>3, <1>4
  <2>2. PICK keys : keys = t \o s
    OBVIOUS
  <2>3. keys \in Seq(Names) /\ OneEach(keys) /\ Elements(keys) = Elements(t) \cup Elements(s)
    BY <1>3, <1>4, <2>1, <2>2, Joined
  <2>4. QED
    BY <1>3, <1>4, <2>2, <2>3
<1>6. PICK f : f = [k \in DOMAIN n.field \ {"name"} |-> n.field[k]]
  OBVIOUS
<1>7. PICK field : field = Assign(f, "type", {Text})
  OBVIOUS
<1>8. /\ \A k : k \in DOMAIN field <=> (k \in DOMAIN n.field /\ k # "name") \/ k = "type"
      /\ field["type"] = {Text}
      /\ \A k \in DOMAIN field : k # "type" => field[k] = n.field[k]
  <2>1. /\ \A x : x \in DOMAIN field <=> (x \in DOMAIN f \/ x = "type")
        /\ field["type"] = {Text}
        /\ \A x \in DOMAIN f : x # "type" => field[x] = f[x]
    BY <1>7, Assigned
  <2>2. DOMAIN f = DOMAIN n.field \ {"name"} /\ \A x \in DOMAIN f : f[x] = n.field[x]
    BY <1>6
  <2>3. QED
    BY <2>1, <2>2
<1>9. Elements(keys) = DOMAIN field
  BY <1>1, <1>5, <1>8
<1>10. PICK w : w = AsSerialized(n)
  OBVIOUS
<1>11. w = [n EXCEPT !.keys = keys, !.field = field]
  BY <1>3, <1>4, <1>5, <1>6, <1>7, <1>10 DEF AsSerialized
<1>12. /\ DOMAIN w = NodeFields /\ w.kind = n.kind /\ w.via = n.via /\ w.keys = keys
       /\ w.size = n.size /\ w.sqlState = n.sqlState /\ w.field = field /\ w.form = n.form
  BY <1>2, <1>11 DEF NodeFields
<1>13. Text \in Values /\ Text # Throws /\ Text \notin NodeIds
  BY ValuesApart DEF Values, Primitives
<1>14. ASSUME NEW k \in DOMAIN field
       PROVE  /\ field[k] \subseteq Values /\ Throws \notin field[k] /\ k \in Names
              /\ \A v \in field[k] : v \in NodeIds => v.base = base
  BY <1>1, <1>2, <1>8, <1>13, NamesAre DEF OwnNodes
<1>15. WellFormed(w, Values)
  BY <1>2, <1>5, <1>12, <1>14, WellFormedIs
<1>16. LibraryNode(w) /\ OwnNodes(w, base)
  BY <1>1, <1>9, <1>12, <1>14, <1>15 DEF LibraryNode, OwnNodes
<1>17. /\ w.kind = n.kind /\ w.via = n.via
       /\ Elements(w.keys) = {"type"} \cup (Elements(n.keys) \ {"name", "type"})
       /\ \A k \in DOMAIN n.field : k # "name" => k \in DOMAIN w.field
  BY <1>5, <1>8, <1>12
<1>18. QED
  BY <1>10, <1>16, <1>17

LEMMA OneOf ==
  ASSUME NEW S, NEW e \in S, NEW s, s = <<e>>
  PROVE  s \in Seq(S) /\ DOMAIN s = {1} /\ s[1] = e /\ Len(s) = 1 /\ s # <<>>
OBVIOUS

LEMMA SerializedTypes ==
  ASSUME Types, Serialized
  PROVE  Types'
<1>1. /\ HeapInv /\ StackInv /\ TasksInv /\ MadeInv /\ OutInv /\ ScalarsInv
      /\ phase = "serialize" /\ ~Sanitizing
  BY DEF Types, Serialized
<1>2. UNCHANGED <<policy, tasks, seen, made, raised, out, visits, links, admitted, thrower>>
      /\ phase' = "redact"
  BY DEF Serialized
<1>3. PICK id \in NodeIds : id = Id(0, <<>>) /\ id.base = 0
  BY IdsAre, BeginningIs
<1>4. heap' = [heap EXCEPT ![id] = AsSerialized(@)]
      /\ stack' = <<Frame(id, <<>>, 0, TRUE, FALSE, Thrown)>>
  BY <1>3, Zenon DEF Serialized
<1>5. HeapInv'
  <2>1. CASE id \in DOMAIN heap
    <3>1. PICK node : node = AsSerialized(heap[id])
      OBVIOUS
    <3>2. LibraryNode(heap[id]) /\ OwnNodes(heap[id], id.base)
      BY <1>1, <2>1 DEF HeapInv
    <3>3. LibraryNode(node) /\ OwnNodes(node, id.base)
      BY <3>1, <3>2, AsSerializedIs
    <3>4. heap' = [heap EXCEPT ![id] = node]
      BY <1>4, <3>1
    <3>5. QED
      BY <1>1, <2>1, <3>3, <3>4, Restoring
  <2>2. CASE id \notin DOMAIN heap
    <3>1. DOMAIN heap' = DOMAIN heap /\ \A v \in DOMAIN heap : heap'[v] = heap[v]
      BY <1>4, <2>2
    <3>2. QED
      BY <1>1, <3>1 DEF HeapInv
  <2>3. QED
    BY <2>1, <2>2
<1>6. StackInv' /\ stack' # <<>>
  <2>1. PICK f : f = Frame(id, <<>>, 0, TRUE, FALSE, Thrown)
    OBVIOUS
  <2>2. id \in Values /\ Thrown \in Values /\ TRUE \in BOOLEAN
    BY <1>1 DEF HeapInv, Values, Objects
  <2>3. f \in Frames /\ f.value = id /\ f.step = "enter" /\ f.linked = Undefined
    BY <2>1, <2>2, BeginningIs DEF Frame, Frames
  <2>4. FrameOK(f, 1, DOMAIN heap')
    BY <1>3, <2>3, FrameFits
  <2>5. /\ stack' = <<f>> /\ stack' \in Seq(Frames) /\ DOMAIN stack' = {1} /\ stack'[1] = f
        /\ Len(stack') = 1 /\ stack' # <<>>
    <3>1. stack' = <<f>>
      BY <1>4, <2>1
    <3>2. QED
      BY <2>3, <3>1, OneOf
  <2>6. \A i \in DOMAIN stack' : FrameOK(stack'[i], i, DOMAIN heap')
    BY <2>4, <2>5
  <2>7. \A i \in DOMAIN stack' : i # Len(stack') => stack'[i].step \in Waiting
    BY <2>5
  <2>8. QED
    BY <2>5, <2>6, <2>7 DEF StackInv
<1>7. TasksInv'
  <2>1. tasks' = <<>> /\ tasks' \in Seq(Tasks) /\ DOMAIN tasks' = {} /\ phase' # "serialize"
    BY <1>1, <1>2 DEF Sanitizing
  <2>2. QED
    BY <2>1 DEF TasksInv, Sanitizing
<1>8. MadeInv' /\ OutInv'
  BY <1>1, <1>2 DEF MadeInv, OutInv
<1>9. ScalarsInv'
  BY <1>1, <1>2 DEF ScalarsInv
<1>10. QED
  BY <1>5, <1>6, <1>7, <1>8, <1>9 DEF Types

\* The library's own objects.
LEMMA LibraryNodesAre ==
  ASSUME NEW v \in Library
  PROVE  LibraryNode(LibraryNodes[v]) /\ AppObject(LibraryNodes[v])
<1>1. PICK empty : empty = Node("object", <<>>, <<>>)
  OBVIOUS
<1>2. PICK command : command = Node("object", <<"name">>, [k \in {"name"} |-> {Text}])
  OBVIOUS
<1>3. LibraryNodes[v] \in {empty, command}
  <2>1. /\ \A x : x \in DOMAIN LibraryNodes <=> (x \in DOMAIN MarkerNodes \/ x = CommandName)
        /\ LibraryNodes[CommandName] = command
        /\ \A x \in DOMAIN MarkerNodes : x # CommandName => LibraryNodes[x] = MarkerNodes[x]
    BY <1>2, Assigned DEF LibraryNodes
  <2>2. \A x \in DOMAIN MarkerNodes : MarkerNodes[x] = empty
    BY <1>1 DEF MarkerNodes
  <2>3. QED
    BY <2>1, <2>2 DEF Library
<1>4. "object" \in {"object", "array"} /\ "object" \in Kinds /\ "object" # "array"
      /\ "none" \in Vias
  BY DEF Kinds, Vias
<1>5. /\ LibraryNode(empty) /\ WellFormed(empty, AppValues) /\ empty.kind = "object"
  <2>1. PICK keys : keys = <<>>
    OBVIOUS
  <2>2. keys \in Seq(Names) /\ OneEach(keys) /\ Elements(keys) = {} /\ DOMAIN keys = {}
    BY <2>1 DEF OneEach, Elements
  <2>3. empty = Node("object", keys, keys)
    BY <1>1, <2>1
  <2>4. LibraryNode(empty)
    BY <1>4, <2>2, <2>3, NodeIs
  <2>5. empty.kind = "object" /\ empty.form = {} /\ empty.field = keys
    BY <2>3 DEF Node
  <2>6. WellFormed(empty, AppValues)
    BY <2>2, <2>4, <2>5, WellFormedIs DEF LibraryNode
  <2>7. QED
    BY <2>4, <2>5, <2>6
<1>6. /\ LibraryNode(command) /\ WellFormed(command, AppValues) /\ command.kind = "object"
  <2>1. PICK keys : keys = <<"name">>
    OBVIOUS
  <2>2. PICK field : field = [k \in {"name"} |-> {Text}]
    OBVIOUS
  <2>3. DOMAIN field = {"name"} /\ field["name"] = {Text}
    BY <2>2
  <2>4. keys \in Seq(Names) /\ DOMAIN keys = {1} /\ keys[1] = "name"
    BY <2>1, NamesAre
  <2>5. OneEach(keys) /\ Elements(keys) = DOMAIN field
    BY <2>3, <2>4 DEF OneEach, Elements
  <2>6. command = Node("object", keys, field)
    BY <1>2, <2>1, <2>2
  <2>7. Text \in Values \ {Throws} /\ Text \notin NodeIds /\ Text \in AppValues
    BY ValuesApart DEF Values, AppValues, Primitives
  <2>8. LibraryNode(command)
    <3>1. \A k \in DOMAIN field : /\ field[k] \subseteq Values \ {Throws}
                                 /\ \A a \in field[k] : a \in NodeIds => a.base = 0
      BY <2>3, <2>7
    <3>2. LibraryNode(Node("object", keys, field))
      BY <2>4, <2>5, <3>1, NodeIs
    <3>3. QED
      BY <2>6, <3>2
  <2>9. command.kind = "object" /\ command.form = {} /\ command.field = field
    BY <2>6 DEF Node
  <2>10. WellFormed(command, AppValues)
    BY <2>3, <2>7, <2>8, <2>9, WellFormedIs DEF LibraryNode
  <2>11. QED
    BY <2>8, <2>9, <2>10
<1>7. QED
  BY <1>3, <1>4, <1>5, <1>6 DEF AppObject

LEMMA InitHeap ==
  ASSUME NEW h \in Heaps, heap = Over(h, LibraryNodes)
  PROVE  HeapInv
<1>1. /\ \A x : x \in DOMAIN heap <=> (x \in DOMAIN h \/ x \in Library)
      /\ \A x \in DOMAIN h : heap[x] = h[x]
      /\ \A x \in Library : x \notin DOMAIN h => heap[x] = LibraryNodes[x]
  BY Overlaid DEF Library
<1>2. DOMAIN h \subseteq Graph /\ {Record, Thrown} \subseteq DOMAIN h
  BY RedactionAssumption DEF Graph
<1>3. ASSUME NEW v \in DOMAIN h
      PROVE  AppObject(h[v])
  <2>1. /\ WellFormed(h[v], DOMAIN h \cup Markers \cup {Text, Undefined, Throws})
        /\ h[v].kind = "array" => Indexed(h[v])
    BY SanitizerAssumption
  <2>2. DOMAIN h \cup Markers \cup {Text, Undefined, Throws} \subseteq AppValues
    BY <1>2 DEF AppValues, Primitives
  <2>3. WellFormed(h[v], AppValues)
    <3>1. PICK n : n = h[v]
      OBVIOUS
    <3>2. PICK answers : answers = DOMAIN h \cup Markers \cup {Text, Undefined, Throws}
      OBVIOUS
    <3>3. WellFormed(n, answers) /\ answers \subseteq AppValues
      BY <2>1, <2>2, <3>1, <3>2
    <3>4. WellFormed(n, AppValues)
      BY <3>3 DEF WellFormed
    <3>5. QED
      BY <3>1, <3>4
  <2>4. QED
    BY <2>1, <2>3 DEF AppObject
<1>4. \A v \in DOMAIN heap : v \notin NodeIds
  BY <1>1, <1>2, ValuesApart
<1>5. \A v \in DOMAIN heap : v \in Library => heap[v] = LibraryNodes[v]
  BY <1>1, <1>2, ValuesApart
<1>6. DOMAIN heap \subseteq Objects /\ Library \cup {Record, Thrown} \subseteq DOMAIN heap
  BY <1>1, <1>2 DEF Objects
<1>7. \A v \in DOMAIN heap \ NodeIds : AppObject(heap[v])
  BY <1>1, <1>3, <1>5, LibraryNodesAre
<1>8. QED
  BY <1>2, <1>4, <1>5, <1>6, <1>7, LibraryNodesAre DEF HeapInv

LEMMA InitTypes == Init => Types
<1> SUFFICES ASSUME Init PROVE Types
  OBVIOUS
<1>1. PICK h \in Heaps : heap = Over(h, LibraryNodes)
  BY DEF Init
<1>2. HeapInv
  BY <1>1, InitHeap
<1>3. /\ policy \in Policies /\ seen = {} /\ made = <<>> /\ raised = FALSE
      /\ thrower = Undefined /\ out = <<>> /\ links = <<>> /\ visits = 0 /\ admitted = 0
  BY DEF Init
<1>4. MadeInv /\ OutInv
  BY <1>3 DEF MadeInv, OutInv
<1>5. ScalarsInv
  <2>1. phase \in {"record", "serialize", "redact"}
    BY DEF Init
  <2>2. links \in Befores /\ thrower \in Values
    <3>1. links = <<>> /\ thrower = Undefined
      BY <1>3
    <3>2. QED
      BY <3>1, BeginningIs, Zenon
  <2>3. raised \in BOOLEAN /\ visits \in Int /\ admitted \in Nat /\ seen \subseteq AppValues
    <3>1. raised = FALSE
      BY <1>3
    <3>2. visits = 0 /\ admitted = 0 /\ seen = {}
      BY <1>3
    <3>3. raised \in BOOLEAN
      BY <3>1, Zenon
    <3>4. visits \in Int /\ admitted \in Nat /\ seen \subseteq AppValues
      BY <3>2
    <3>5. QED
      BY <3>3, <3>4, Zenon
  <2>4. QED
    BY <1>3, <2>1, <2>2, <2>3, Zenon DEF ScalarsInv
<1>6. Record \in Values /\ Thrown \in Graph /\ Record \notin NodeIds
  BY <1>2, ValuesApart DEF HeapInv, Values
<1>7. CASE /\ phase = "record"
           /\ stack = <<Frame(Record, <<>>, 0, FALSE, FALSE, Record)>>
           /\ tasks = <<>>
  <2>1. PICK f : f = Frame(Record, <<>>, 0, FALSE, FALSE, Record)
    OBVIOUS
  <2>2. f \in Frames /\ f.value = Record /\ f.step = "enter" /\ f.linked = Undefined
    BY <1>6, <2>1, BeginningIs DEF Frame, Frames
  <2>3. FrameOK(f, 1, DOMAIN heap)
    BY <1>6, <2>2, FrameFits
  <2>4. /\ stack = <<f>> /\ stack \in Seq(Frames) /\ DOMAIN stack = {1} /\ stack[1] = f
        /\ Len(stack) = 1
    <3>1. stack = <<f>>
      BY <1>7, <2>1
    <3>2. QED
      BY <2>2, <3>1, OneOf
  <2>5. StackInv
    BY <2>3, <2>4 DEF StackInv
  <2>6. TasksInv
    BY <1>7 DEF TasksInv, Sanitizing
  <2>7. QED
    BY <1>2, <1>4, <1>5, <2>5, <2>6 DEF Types
<1>8. CASE /\ phase = "serialize" /\ stack = <<>>
           /\ tasks = <<Task(Thrown, Id(0, <<>>), 0)>>
  <2>1. PICK t \in Tasks : /\ t = Task(Thrown, Id(0, <<>>), 0) /\ t.step = "identify"
                           /\ TaskOK(t, heap, 0)
    <3>1. Thrown \in AppValues
      BY <1>6 DEF AppValues
    <3>2. QED
      BY <3>1, TaskIs
  <2>2. /\ tasks = <<t>> /\ tasks \in Seq(Tasks) /\ DOMAIN tasks = {1} /\ Len(tasks) = 1
        /\ tasks[1] = t
    BY <1>8, <2>1
  <2>3. Len(stack) = 0 /\ DOMAIN stack = {} /\ stack \in Seq(Frames)
    BY <1>8
  <2>4. StackInv
    BY <2>3 DEF StackInv
  <2>5. TasksInv
    BY <1>3, <1>8, <2>1, <2>2, <2>3 DEF TasksInv
  <2>6. QED
    BY <1>2, <1>4, <1>5, <2>4, <2>5 DEF Types
<1>9. QED
  BY <1>7, <1>8 DEF Init

LEMMA StutterTypes ==
  ASSUME Types, UNCHANGED vars
  PROVE  Types'
<1>1. UNCHANGED <<heap, policy, tasks, seen, made, phase, stack, raised, out, visits, links,
                  admitted, thrower>>
  BY DEF vars, sanitizerVars, walkVars
<1>2. HeapInv' /\ StackInv' /\ MadeInv' /\ OutInv' /\ ScalarsInv'
  BY <1>1 DEF Types, HeapInv, StackInv, MadeInv, OutInv, ScalarsInv
<1>3. TasksInv'
  BY <1>1 DEF Types, TasksInv, Sanitizing, F
<1>4. QED
  BY <1>2, <1>3 DEF Types

LEMMA NextTypes ==
  ASSUME Types, [Next]_vars
  PROVE  Types'
<1>1. CASE Walk
  BY <1>1, EnterTypes, InspectTypes, FollowToJsonTypes, OpenTypes, ElementTypes, FieldTypes,
     FieldsDoneTypes, ReadPartTypes, LinkTypes, LinkedTypes, PartsDoneTypes, CatchPartTypes,
     CatchErrorTypes, WalkDegradedTypes, UnwindTypes DEF Walk
<1>2. CASE Sanitize
  BY <1>2, SanitizeTypes
<1>3. CASE Serialized
  BY <1>3, SerializedTypes
<1>4. CASE UNCHANGED vars
  BY <1>4, StutterTypes
<1>5. QED
  BY <1>1, <1>2, <1>3, <1>4 DEF Next

\* The types: what the graph, the library and a sanitization may put in the heap, what the
\* calls of the walk and of toSanitizedError may hold, and how the two depend on each other.
THEOREM WalkTypes == Spec => []Types
<1>1. QED
  BY InitTypes, NextTypes, PTL DEF Spec

-----------------------------------------------------------------------------
(***************************************************************************)
(* What a step leaves alone.                                               *)
(***************************************************************************)

\* The application's objects, and the library's own, are never written.
GraphKept ==
  \A v : v \notin NodeIds =>
    /\ v \in DOMAIN heap' <=> v \in DOMAIN heap
    /\ v \in DOMAIN heap => heap'[v] = heap[v]

\* What a sanitization writes: the node of its innermost call, and its list.
Writings ==
  \/ heap' = heap
  \/ \E n : Store(n)
  \/ \E n, m : heap' = Assign(Assign(heap, Top.id, n), ListId, m)
  \/ \E m : heap' = [heap EXCEPT ![ListId] = m]

LEMMA SanitizeWrites ==
  ASSUME Sanitize
  PROVE  Writings
<1>1. CASE Identify
  BY <1>1, Zenon DEF Identify, Degrade, Writings
<1>2. CASE ReadStack
  BY <1>2, Zenon DEF ReadStack, Degrade, Writings
<1>3. CASE ReadCause
  BY <1>3, Zenon DEF ReadCause, Writings
<1>4. CASE ReadErrors
  BY <1>4, Zenon DEF ReadErrors, Degrade, Writings
<1>5. CASE VisitMember
  BY <1>5, Zenon DEF VisitMember, Writings
<1>6. CASE MembersDone
  BY <1>6, Zenon DEF MembersDone, Writings
<1>7. CASE CopyOwnFields
  BY <1>7, Zenon DEF CopyOwnFields, Writings
<1>8. QED
  BY <1>1, <1>2, <1>3, <1>4, <1>5, <1>6, <1>7 DEF Sanitize, SanitizerStep

\* Only nodes of its own depth.
NodesKept(base) ==
  \A v : v \notin NodeIds \/ v.base # base =>
    /\ v \in DOMAIN heap' <=> v \in DOMAIN heap
    /\ v \in DOMAIN heap => heap'[v] = heap[v]

LEMMA NodesAndGraph ==
  ASSUME NEW base
  PROVE  /\ NodesKept(base) => GraphKept
         /\ UNCHANGED heap => NodesKept(base)
<1>1. NodesKept(base) => GraphKept
  BY DEF NodesKept, GraphKept
<1>2. UNCHANGED heap => NodesKept(base)
  BY DEF NodesKept
<1>3. QED
  BY <1>1, <1>2

LEMMA AssignedKeeps ==
  ASSUME NEW h, NEW id \in NodeIds, NEW n, NEW g, g = Assign(h, id, n)
  PROVE  \A v : v \notin NodeIds \/ v.base # id.base =>
           /\ v \in DOMAIN g <=> v \in DOMAIN h
           /\ v \in DOMAIN h => g[v] = h[v]
BY Assigned

LEMMA SanitizeKeepsNodes ==
  ASSUME Types, Sanitize
  PROVE  NodesKept(Len(stack))
<1>1. Writings /\ Sanitizing /\ TasksInv
  BY SanitizeWrites DEF Types, Sanitize, SanitizerStep, Identify, ReadStack, ReadCause,
     ReadErrors, VisitMember, MembersDone, CopyOwnFields
<1>2. PICK id \in NodeIds : id = Top.id /\ id.base = Len(stack)
  BY <1>1, TopIs DEF TaskOK
<1>3. PICK list \in NodeIds : list = ListId /\ list.base = Len(stack)
  BY <1>2, ListOfIs DEF ListId, ListOf
<1>4. CASE heap' = heap
  BY <1>4 DEF NodesKept
<1>5. ASSUME NEW n, Store(n)
      PROVE  NodesKept(Len(stack))
  BY <1>2, <1>5, AssignedKeeps DEF Store, NodesKept
<1>6. ASSUME NEW n, NEW m, heap' = Assign(Assign(heap, Top.id, n), ListId, m)
      PROVE  NodesKept(Len(stack))
  <2>1. PICK g : g = Assign(heap, id, n)
    OBVIOUS
  <2>2. heap' = Assign(g, list, m)
    BY <1>2, <1>3, <1>6, <2>1
  <2>3. ASSUME NEW v, v \notin NodeIds \/ v.base # Len(stack)
        PROVE  /\ v \in DOMAIN heap' <=> v \in DOMAIN heap
               /\ v \in DOMAIN heap => heap'[v] = heap[v]
    <3>1. /\ v \in DOMAIN g <=> v \in DOMAIN heap
          /\ v \in DOMAIN heap => g[v] = heap[v]
      BY <1>2, <2>1, <2>3, AssignedKeeps
    <3>2. /\ v \in DOMAIN heap' <=> v \in DOMAIN g
          /\ v \in DOMAIN g => heap'[v] = g[v]
      BY <1>3, <2>2, <2>3, AssignedKeeps
    <3>3. QED
      BY <3>1, <3>2
  <2>4. QED
    BY <2>3 DEF NodesKept
<1>7. ASSUME NEW m, heap' = [heap EXCEPT ![ListId] = m]
      PROVE  NodesKept(Len(stack))
  BY <1>3, <1>7 DEF NodesKept
<1>8. QED
  BY <1>1, <1>4, <1>5, <1>6, <1>7 DEF Writings

\* A step writes no node but those of the innermost call.
LEMMA StepKeepsNodes ==
  ASSUME Types, [Next]_vars
  PROVE  /\ stack # <<>> => NodesKept(Len(stack))
         /\ GraphKept
<1>1. CASE Sanitize
  BY <1>1, SanitizeKeepsNodes, NodesAndGraph
<1>2. CASE ReadPart
  <2>1. Walking
    BY <1>2 DEF Walking, At, ReadPart
  <2>2. heap' = heap \/ \E n : heap' = Assign(heap, CappedId, n)
    BY <1>2, Zenon DEF ReadPart
  <2>3. PICK id \in NodeIds : id = CappedId /\ id.base = Len(stack)
    BY <2>1, CappedIdIs
  <2>4. NodesKept(Len(stack))
    BY <2>2, <2>3, AssignedKeeps DEF NodesKept
  <2>5. QED
    BY <2>4, NodesAndGraph
<1>3. CASE CatchError
  <2>1. Walking /\ StartSanitizing(F.value, Len(stack))
    BY <1>3 DEF Walking, Unwinding, CatchError, Types, TasksInv
  <2>2. PICK n \in Nat : n = Len(stack)
    BY <2>1, WalkingIs
  <2>3. NodesKept(n)
    BY <2>1, <2>2, StartIs, WalkingIs DEF NodesKept
  <2>4. QED
    BY <2>2, <2>3, NodesAndGraph
<1>4. CASE Serialized
  <2>1. stack = <<>>
    BY <1>4 DEF Serialized, Types, TasksInv
  <2>2. PICK id \in NodeIds : id = Id(0, <<>>)
    BY IdsAre, BeginningIs
  <2>3. heap' = [heap EXCEPT ![id] = AsSerialized(@)]
    BY <1>4, <2>2, Zenon DEF Serialized
  <2>4. GraphKept
    BY <2>3 DEF GraphKept
  <2>5. QED
    BY <2>1, <2>4, Zenon
<1>5. CASE Walk /\ ~ReadPart /\ ~CatchError
  <2>1. UNCHANGED heap
    BY <1>5, Zenon DEF Walk, sanitizerVars, EnterPrimitive, EnterTooDeep, EnterOverBudget, Enter,
       InspectBinary, InspectRefused, InspectBuffer, FollowToJson, Followed, InspectFunction,
       Open, Element, Field, FieldsDone, Link, Linked, PartsDone, CatchPart, WalkDegraded, Unwind
  <2>2. QED
    BY <2>1, NodesAndGraph
<1>6. CASE UNCHANGED vars
  <2>1. UNCHANGED heap
    BY <1>6 DEF vars, sanitizerVars
  <2>2. QED
    BY <2>1, NodesAndGraph
<1>7. QED
  BY <1>1, <1>2, <1>3, <1>4, <1>5, <1>6 DEF Next

\* How a step leaves the calls of walk.
LEMMA EndsShape ==
  ASSUME StackInv, stack # <<>>, Ends
  PROVE  /\ Len(stack) \in Nat \ {0} /\ Len(stack') = Len(stack) - 1
         /\ DOMAIN stack = 1..Len(stack) /\ DOMAIN stack' = 1..(Len(stack) - 1)
         /\ \A i \in 1..(Len(stack) - 1) : stack'[i] = stack[i]
BY FIs DEF Ends

LEMMA TurnsShape ==
  ASSUME StackInv, stack # <<>>, NEW f, Turns(f)
  PROVE  /\ Len(stack) \in Nat \ {0} /\ Len(stack') = Len(stack)
         /\ DOMAIN stack = 1..Len(stack) /\ DOMAIN stack' = 1..Len(stack)
         /\ stack'[Len(stack)] = f /\ F' = f
         /\ \A i \in 1..(Len(stack) - 1) : stack'[i] = stack[i]
<1>1. PICK n \in Nat \ {0} : n = Len(stack) /\ DOMAIN stack = 1..n
  BY FIs
<1>2. PICK s \in Seq(Frames \cup {f}) : s = Rest /\ Len(s) = n - 1 /\ \A i \in 1..(n - 1) : s[i] = stack[i]
  <2>1. PICK s \in Seq(Frames) : s = Rest /\ Len(s) = n - 1 /\ \A i \in 1..(n - 1) : s[i] = stack[i]
    BY <1>1, FIs
  <2>2. s \in Seq(Frames \cup {f})
    OBVIOUS
  <2>3. QED
    BY <2>1, <2>2
<1>3. stack' = Append(s, f)
  BY <1>2 DEF Turns
<1>4. /\ Len(stack') = n /\ DOMAIN stack' = 1..n /\ stack'[n] = f
      /\ \A i \in 1..(n - 1) : stack'[i] = s[i]
  <2>1. /\ Append(s, f) \in Seq(Frames \cup {f}) /\ Append(s, f)[Len(s) + 1] = f
        /\ \A i \in DOMAIN s : Append(s, f)[i] = s[i]
        /\ DOMAIN s = 1..Len(s) /\ Len(Append(s, f)) = Len(s) + 1
    BY Appending, AppendProperties
  <2>2. DOMAIN Append(s, f) = 1..Len(Append(s, f))
    BY <2>1, LenProperties
  <2>3. QED
    BY <1>1, <1>2, <1>3, <2>1, <2>2
<1>5. QED
  BY <1>1, <1>2, <1>4 DEF F

LEMMA PairOf ==
  ASSUME NEW S, NEW f \in S, NEW g \in S
  PROVE  \E t \in Seq(S) : t = <<f, g>> /\ Len(t) = 2 /\ t[1] = f /\ t[2] = g
<1>1. PICK t \in S \X S : t = <<f, g>>
  OBVIOUS
<1>2. t[1] = f /\ t[2] = g
  BY <1>1
<1>3. t \in Seq(S) /\ Len(t) = 2
  BY <1>1, TwoAre
<1>4. QED
  BY <1>1, <1>2, <1>3

LEMMA CallsShape ==
  ASSUME StackInv, stack # <<>>, NEW f, NEW g, Calls2(f, g)
  PROVE  /\ Len(stack) \in Nat \ {0} /\ Len(stack') = Len(stack) + 1
         /\ DOMAIN stack = 1..Len(stack) /\ DOMAIN stack' = 1..(Len(stack) + 1)
         /\ stack'[Len(stack)] = f /\ stack'[Len(stack) + 1] = g /\ F' = g
         /\ \A i \in 1..(Len(stack) - 1) : stack'[i] = stack[i]
<1>1. PICK n \in Nat \ {0} : n = Len(stack) /\ DOMAIN stack = 1..n
  BY FIs
<1> DEFINE S == Frames \cup {f, g}
<1>2. PICK s \in Seq(S) : s = Rest /\ Len(s) = n - 1 /\ \A i \in 1..(n - 1) : s[i] = stack[i]
  <2>1. PICK s \in Seq(Frames) : s = Rest /\ Len(s) = n - 1 /\ \A i \in 1..(n - 1) : s[i] = stack[i]
    BY <1>1, FIs
  <2>2. s \in Seq(S)
    OBVIOUS
  <2>3. QED
    BY <2>1, <2>2
<1>3. PICK t \in Seq(S) : t = <<f, g>> /\ Len(t) = 2 /\ t[1] = f /\ t[2] = g
  <2>1. f \in S /\ g \in S
    OBVIOUS
  <2> HIDE DEF S
  <2>2. QED
    BY <2>1, PairOf
<1>4. stack' = s \o t
  BY <1>2, <1>3 DEF Calls2
<1>5. /\ s \o t \in Seq(S) /\ Len(s \o t) = Len(s) + Len(t)
      /\ \A i \in 1..(Len(s) + Len(t)) : (s \o t)[i] = IF i <= Len(s) THEN s[i] ELSE t[i - Len(s)]
  <2> HIDE DEF S
  <2>1. QED
    BY ConcatProperties
<1>6. /\ Len(stack') = n + 1 /\ stack'[n] = f /\ stack'[n + 1] = g
      /\ \A i \in 1..(n - 1) : stack'[i] = s[i]
  <2>1. \A i \in 1..(n + 1) : stack'[i] = IF i <= n - 1 THEN s[i] ELSE t[i - (n - 1)]
    BY <1>2, <1>3, <1>4, <1>5
  <2>2. stack'[n] = t[1] /\ stack'[n + 1] = t[2]
    BY <2>1
  <2>3. QED
    BY <1>2, <1>3, <1>4, <1>5, <2>1, <2>2
<1>7. DOMAIN stack' = 1..(n + 1)
  BY <1>4, <1>5, <1>6, LenProperties
<1>8. QED
  BY <1>1, <1>2, <1>6, <1>7 DEF F

\* What a step writes.
Kept(q) == q \in DOMAIN out /\ out'[q] = out[q]

LEMMA EntryParts ==
  \A what, v, owner : /\ Entry(what, v, owner).what = what /\ Entry(what, v, owner).of = v
                      /\ Entry(what, v, owner).owner = owner
BY DEF Entry

LEMMA AssignShape ==
  ASSUME NEW o, NEW path, NEW e, out' = Assign(o, path, e), NEW q \in DOMAIN out'
  PROVE  (q = path /\ out'[q] = e) \/ (q \in DOMAIN o /\ out'[q] = o[q])
<1>1. PICK g : g = Assign(o, path, e)
  OBVIOUS
<1>2. /\ \A x : x \in DOMAIN g <=> (x \in DOMAIN o \/ x = path)
      /\ g[path] = e /\ \A x \in DOMAIN o : x # path => g[x] = o[x]
  BY <1>1, Assigned
<1>3. out' = g
  BY <1>1
<1>4. q \in DOMAIN g /\ out'[q] = g[q]
  BY <1>3
<1>5. CASE q = path
  BY <1>2, <1>4, <1>5
<1>6. CASE q # path
  <2>1. q \in DOMAIN o
    BY <1>2, <1>4, <1>6
  <2>2. g[q] = o[q]
    BY <1>2, <1>6, <2>1
  <2>3. QED
    BY <1>4, <2>1, <2>2
<1>7. QED
  BY <1>5, <1>6

LEMMA PutShape ==
  ASSUME NEW path, NEW what, NEW v, NEW owner, Put(path, what, v, owner), NEW q \in DOMAIN out'
  PROVE  (q = path /\ out'[q] = Entry(what, v, owner)) \/ Kept(q)
BY AssignShape DEF Put, Kept

LEMMA DropShape ==
  ASSUME NEW path, NEW q \in DOMAIN Dropped(path)
  PROVE  q \in DOMAIN out /\ ~Under(path, q) /\ Dropped(path)[q] = out[q]
BY DEF Dropped

\* What walkChainPart writes of links past the budget.
LEMMA LevelMarkersShape ==
  ASSUME NEW f, NEW reading, NEW q \in DOMAIN LevelMarkers(f, reading)
  PROVE  \/ /\ q = PartPath(f)
            /\ LevelMarkers(f, reading)[q].what \in {"markers", "object"}
            /\ LevelMarkers(f, reading)[q].owner = Origin(f.value)
            /\ LevelMarkers(f, reading)[q].what = "markers" => IsArray(f.linked) /\ f.ser
            /\ LevelMarkers(f, reading)[q].what = "object" =>
                 LevelMarkers(f, reading)[q].of \in Markers
         \/ /\ IsArray(f.linked) /\ f.ser /\ LevelMarkers(f, reading)[q].what = "object"
            /\ LevelMarkers(f, reading)[q].of \in Markers
            /\ LevelMarkers(f, reading)[q].owner = f.linked
            /\ \E k \in DOMAIN reading : q = Append(PartPath(f), k)
<1>1. PICK p : p = PartPath(f)
  OBVIOUS
<1>2. PICK o : o = Origin(f.value)
  OBVIOUS
<1>3. PICK alone : alone = [r \in {p} |-> Entry("object", DepthMarker, o)]
  OBVIOUS
<1>4. PICK each : each =
        [r \in {p} \cup {Append(p, k) : k \in DOMAIN reading} |->
           IF r = p THEN Entry("markers", f.linked, o)
           ELSE Entry("object", IF reading[r[Len(r)]] \in Markers \ {DepthMarker}
                                THEN reading[r[Len(r)]] ELSE DepthMarker, f.linked)]
  OBVIOUS
<1>5. \/ LevelMarkers(f, reading) = alone
      \/ IsArray(f.linked) /\ f.ser /\ LevelMarkers(f, reading) = each
  BY <1>1, <1>2, <1>3, <1>4 DEF LevelMarkers
<1>6. CASE LevelMarkers(f, reading) = alone
  BY <1>1, <1>2, <1>3, <1>6, EntryParts, MarkersAre
<1>7. CASE IsArray(f.linked) /\ f.ser /\ LevelMarkers(f, reading) = each
  <2>1. q = p \/ (q # p /\ \E k \in DOMAIN reading : q = Append(p, k))
    <3>1. DOMAIN each = {p} \cup {Append(p, k) : k \in DOMAIN reading}
      BY <1>4
    <3>2. q \in DOMAIN each
      BY <1>7
    <3>3. q \in {p} \cup {Append(p, k) : k \in DOMAIN reading}
      BY <3>1, <3>2, Zenon
    <3>4. QED
      BY <3>3, Zenon
  <2>2. CASE q = p
    BY <1>1, <1>2, <1>4, <1>7, <2>2, EntryParts
  <2>3. CASE q # p /\ \E k \in DOMAIN reading : q = Append(p, k)
    <3>1. PICK m \in Markers : each[q] = Entry("object", m, f.linked)
      BY <1>4, <1>7, <2>3, MarkersAre
    <3>2. QED
      BY <1>1, <1>7, <2>3, <3>1, EntryParts
  <2>4. QED
    BY <2>1, <2>2, <2>3
<1>8. QED
  BY <1>5, <1>6, <1>7

\* What a call is about stays the same while it goes on.
SameCall(f) ==
  /\ f.value = F.value /\ f.path = F.path /\ f.depth = F.depth /\ f.honor = F.honor
  /\ f.ser = F.ser /\ f.owner = F.owner
Began(g) == g.step = "enter" /\ g.honor = TRUE

LEMMA SameCalls ==
  ASSUME F \in Frames, NEW f, SameCall(f), DOMAIN f = DOMAIN F
  PROVE  /\ \A x : SameCall([f EXCEPT !.step = x]) /\ SameCall([f EXCEPT !.todo = x])
                   /\ SameCall([f EXCEPT !.written = x])
         /\ \A x, y : SameCall([f EXCEPT !.step = x, !.todo = y])
                      /\ SameCall([f EXCEPT !.todo = x, !.part = y])
                      /\ SameCall([f EXCEPT !.step = x, !.linked = y])
                      /\ SameCall([f EXCEPT !.step = x, !.before = y])
         /\ SameCall(NextPart(f)) /\ SameCall(LostPart(f))
<1>1. \A x : SameCall([f EXCEPT !.step = x]) /\ SameCall([f EXCEPT !.todo = x])
                   /\ SameCall([f EXCEPT !.written = x])
  BY DEF SameCall
<1>2. \A x, y : SameCall([f EXCEPT !.step = x, !.todo = y])
                      /\ SameCall([f EXCEPT !.todo = x, !.part = y])
                      /\ SameCall([f EXCEPT !.step = x, !.linked = y])
                      /\ SameCall([f EXCEPT !.step = x, !.before = y])
  BY DEF SameCall
<1>3. PICK g : g = NextPart(f)
  OBVIOUS
<1>4. SameCall(g)
  BY <1>3 DEF SameCall, NextPart
<1>5. SameCall([g EXCEPT !.incomplete = TRUE])
  BY <1>4 DEF SameCall
<1>6. QED
  BY <1>1, <1>2, <1>3, <1>4, <1>5 DEF LostPart

LEMMA FIsSame ==
  SameCall(F)
BY DEF SameCall

LEMMA FramesBegin ==
  ASSUME NEW v, NEW path, NEW depth, NEW ser, NEW owner, NEW g,
         g = Frame(v, path, depth, TRUE, ser, owner)
  PROVE  /\ Began(g) /\ g.value = v /\ g.path = path /\ g.depth = depth /\ g.ser = ser
         /\ g.owner = owner /\ g.todo = <<>> /\ g.linked = Undefined /\ g.part = None
         /\ g.before = <<>> /\ g.incomplete = FALSE
BY DEF Frame, Began

\* How a step of walk leaves the calls.
Walked ==
  \/ Ends
  \/ Raise /\ UNCHANGED out
  \/ \E f : SameCall(f) /\ Turns(f)
  \/ \E f, g : SameCall(f) /\ f.step \in Waiting /\ Began(g) /\ Calls2(f, g)

LEMMA WalkShape ==
  ASSUME Types, Walk, ~WalkDegraded
  PROVE  Walked /\ Walking
<1>1. Walking
  BY Zenon DEF Types, TasksInv, Walking, Walk, At, Unwinding, Inspecting, EnterPrimitive, EnterTooDeep,
     EnterOverBudget, Enter, InspectBinary, InspectRefused, InspectBuffer, FollowToJson, Followed,
     InspectFunction, Open, Element, Field, FieldsDone, ReadPart, Link, Linked, PartsDone,
     CatchPart, CatchError, Unwind
<1>2. F \in Frames
  BY <1>1, WalkingIs
<1>3. CASE EnterPrimitive \/ EnterTooDeep \/ EnterOverBudget \/ InspectBinary \/ InspectRefused
           \/ InspectBuffer \/ Followed \/ InspectFunction \/ PartsDone \/ Unwind
  <2>1. Ends \/ (Raise /\ UNCHANGED out)
    BY <1>3, Zenon DEF EnterPrimitive, EnterTooDeep, EnterOverBudget, InspectBinary,
       InspectRefused, InspectBuffer, Followed, InspectFunction, PartsDone, Unwind
  <2>2. QED
    BY <1>1, <2>1 DEF Walked
<1>4. CASE Enter
  <2>1. Ends \/ Turns([F EXCEPT !.step = "inspect"])
    BY <1>4, Zenon DEF Enter
  <2>2. SameCall([F EXCEPT !.step = "inspect"])
    BY <1>2, FIsSame, SameCalls
  <2>3. QED
    BY <1>1, <2>1, <2>2, Zenon DEF Walked
<1>5. CASE FollowToJson
  <2>1. \/ Ends
        \/ Raise /\ UNCHANGED out
        \/ \E result : Calls2([F EXCEPT !.step = "follow"],
                           Frame(result, F.path, F.depth + 1, TRUE, F.ser, F.owner))
    BY <1>5, Zenon DEF FollowToJson
  <2>2. ASSUME NEW result, Calls2([F EXCEPT !.step = "follow"],
                           Frame(result, F.path, F.depth + 1, TRUE, F.ser, F.owner))
        PROVE  Walked
    <3>1. PICK f : f = [F EXCEPT !.step = "follow"]
      OBVIOUS
    <3>2. SameCall(f) /\ f.step \in Waiting
      BY <1>2, <3>1, FIsSame, SameCalls DEF Frames, Waiting
    <3>3. PICK g : g = Frame(result, F.path, F.depth + 1, TRUE, F.ser, F.owner)
      OBVIOUS
    <3>4. Began(g)
      BY <3>3 DEF Frame, Began
    <3>5. Calls2(f, g)
      BY <2>2, <3>1, <3>3, Zenon
    <3>6. QED
      BY <3>2, <3>4, <3>5, Zenon DEF Walked
  <2>3. QED
    BY <1>1, <2>1, <2>2, Zenon DEF Walked
<1>6. CASE Open
  <2>1. (Raise /\ UNCHANGED out) \/ Turns([F EXCEPT !.step = "fields", !.todo = heap[F.value].keys])
    BY <1>6, Zenon DEF Open
  <2>2. SameCall([F EXCEPT !.step = "fields", !.todo = heap[F.value].keys])
    BY <1>2, FIsSame, SameCalls
  <2>3. QED
    BY <1>1, <2>1, <2>2, Zenon DEF Walked
<1>7. CASE Element
  <2>1. PICK k : k = Head(F.todo)
    OBVIOUS
  <2>2. \/ Raise /\ UNCHANGED out
        \/ \E v : Calls2([F EXCEPT !.todo = Tail(@)],
                      Frame(v, Append(F.path, k), F.depth + 1, TRUE, F.ser, Origin(F.value)))
    BY <1>7, <2>1, Zenon DEF Element
  <2>3. ASSUME NEW v, Calls2([F EXCEPT !.todo = Tail(@)],
                      Frame(v, Append(F.path, k), F.depth + 1, TRUE, F.ser, Origin(F.value)))
        PROVE  Walked
    <3>1. PICK f : f = [F EXCEPT !.todo = Tail(@)]
      OBVIOUS
    <3>2. SameCall(f) /\ f.step = F.step
      BY <1>2, <3>1, FIsSame, SameCalls DEF Frames
    <3>3. f.step \in Waiting
      BY <1>7, <3>2 DEF Element, At, Waiting
    <3>4. PICK g : g = Frame(v, Append(F.path, k), F.depth + 1, TRUE, F.ser, Origin(F.value))
      OBVIOUS
    <3>5. Began(g)
      BY <3>4 DEF Frame, Began
    <3>6. Calls2(f, g)
      BY <2>3, <3>1, <3>4, Zenon
    <3>7. QED
      BY <3>2, <3>3, <3>5, <3>6, Zenon DEF Walked
  <2>4. QED
    BY <1>1, <2>2, <2>3, Zenon DEF Walked
<1>8. CASE Field
  <2>1. PICK k, f, g, ser : /\ k = Head(F.todo) /\ f = [F EXCEPT !.todo = Tail(@)]
                            /\ g = [f EXCEPT !.written = @ \cup {k}]
                            /\ ser = (F.ser \/ (~F.honor /\ k \in SerializedKeys))
    OBVIOUS
  <2>2. \/ Raise /\ UNCHANGED out
        \/ Turns(f) \/ Turns(g)
        \/ \E v : Calls2(g, Frame(v, Append(F.path, k), F.depth + 1, TRUE, ser, Origin(F.value)))
    BY <1>8, <2>1, Zenon DEF Field
  <2>3. SameCall(f) /\ SameCall(g) /\ g.step = F.step
    BY <1>2, <2>1 DEF SameCall, Frames
  <2>4. g.step \in Waiting
    BY <1>8, <2>3 DEF Field, At, Waiting
  <2>5. ASSUME NEW v, Calls2(g, Frame(v, Append(F.path, k), F.depth + 1, TRUE, ser, Origin(F.value)))
        PROVE  Walked
    <3>1. PICK h : h = Frame(v, Append(F.path, k), F.depth + 1, TRUE, ser, Origin(F.value))
      OBVIOUS
    <3>2. Began(h)
      BY <3>1 DEF Frame, Began
    <3>3. QED
      BY <2>3, <2>4, <2>5, <3>1, <3>2, Zenon DEF Walked
  <2>6. QED
    BY <1>1, <2>2, <2>3, <2>5, Zenon DEF Walked
<1>9. CASE FieldsDone
  <2>1. PICK x : x = Without(<<NameKey(F), "message", "stack", "cause", "errors">>, F.written)
    OBVIOUS
  <2>2. Ends \/ Turns([F EXCEPT !.step = "parts", !.todo = x])
    BY <1>9, <2>1, Zenon DEF FieldsDone
  <2>3. SameCall([F EXCEPT !.step = "parts", !.todo = x])
    BY <1>2, FIsSame, SameCalls
  <2>4. QED
    BY <1>1, <2>2, <2>3, Zenon DEF Walked
<1>10. CASE ReadPart
  <2>1. PICK f : f = [F EXCEPT !.todo = Tail(@), !.part = Head(F.todo)]
    OBVIOUS
  <2>2. SameCall(f) /\ DOMAIN f = DOMAIN F
    BY <1>2, <2>1, FIsSame, SameCalls DEF Frames
  <2>3. \/ Turns(LostPart(f)) \/ Turns(NextPart(f))
        \/ \E v : Turns([f EXCEPT !.step = "link", !.linked = v])
    BY <1>10, <2>1, Zenon DEF ReadPart
  <2>4. /\ SameCall(LostPart(f)) /\ SameCall(NextPart(f))
        /\ \A v : SameCall([f EXCEPT !.step = "link", !.linked = v])
    BY <1>2, <2>2, SameCalls
  <2>5. QED
    BY <1>1, <2>3, <2>4, Zenon DEF Walked
<1>11. CASE Link
  <2>1. \/ Turns(LostPart(F)) \/ Turns(NextPart(F))
        \/ \E b : Calls2([F EXCEPT !.step = "linked", !.before = b],
                    Frame(F.linked, PartPath(F), F.depth + 1, TRUE, F.ser, Origin(F.value)))
    BY <1>11, Zenon DEF Link
  <2>2. SameCall(LostPart(F)) /\ SameCall(NextPart(F))
    BY <1>2, FIsSame, SameCalls
  <2>3. ASSUME NEW b, Calls2([F EXCEPT !.step = "linked", !.before = b],
                    Frame(F.linked, PartPath(F), F.depth + 1, TRUE, F.ser, Origin(F.value)))
        PROVE  Walked
    <3>1. PICK f : f = [F EXCEPT !.step = "linked", !.before = b]
      OBVIOUS
    <3>2. SameCall(f) /\ f.step \in Waiting
      BY <1>2, <3>1, FIsSame, SameCalls DEF Frames, Waiting
    <3>3. PICK g : g = Frame(F.linked, PartPath(F), F.depth + 1, TRUE, F.ser, Origin(F.value))
      OBVIOUS
    <3>4. Began(g)
      BY <3>3 DEF Frame, Began
    <3>5. Calls2(f, g)
      BY <2>3, <3>1, <3>3, Zenon
    <3>6. QED
      BY <3>2, <3>4, <3>5, Zenon DEF Walked
  <2>4. QED
    BY <1>1, <2>1, <2>2, <2>3, Zenon DEF Walked
<1>12. CASE Linked \/ CatchPart
  <2>1. Turns(LostPart(F)) \/ Turns(NextPart(F))
    BY <1>12, Zenon DEF Linked, CatchPart
  <2>2. SameCall(LostPart(F)) /\ SameCall(NextPart(F))
    BY <1>2, FIsSame, SameCalls
  <2>3. QED
    BY <1>1, <2>1, <2>2, Zenon DEF Walked
<1>13. CASE CatchError
  <2>1. Turns([F EXCEPT !.step = "degraded"])
    BY <1>13, Zenon DEF CatchError
  <2>2. SameCall([F EXCEPT !.step = "degraded"])
    BY <1>2, FIsSame, SameCalls
  <2>3. QED
    BY <1>1, <2>1, <2>2, Zenon DEF Walked
<1>14. QED
  BY <1>3, <1>4, <1>5, <1>6, <1>7, <1>8, <1>9, <1>10, <1>11, <1>12, <1>13, Zenon DEF Walk

\* What a call may write of its own value, and when.
OwnWrite(q, e) ==
  \E what \in Whats \ {"envelope", "markers"} :
    /\ F.step \in {"enter", "inspect"} /\ q = F.path /\ e = Entry(what, F.value, F.owner)
    /\ what = "leaf" => F.step = "enter"
    /\ what = "circular" => F.step = "enter" /\ F.value \in Ancestors /\ F.value \in DOMAIN heap
    /\ what = "reference" => /\ F.step = "inspect" /\ ~Safe
                             /\ Via = "buffer" \/ (IsKind(F.value, "function") /\ ~HonoursToJson)
    /\ what \in {"object", "array", "instance"} =>
         F.step = "inspect" /\ F.value \in DOMAIN heap /\ (what = "array" <=> IsArray(F.value))

\* What it may write under it: a censored field, a part of an error, the mark of a lost one.
FieldWrite(q, e) ==
  \E k, what : /\ q = Append(F.path, k) /\ e.what = what /\ e.owner = Origin(F.value)
    /\ \/ /\ F.step = "fields" /\ ~IsArray(F.value) /\ F.todo # <<>> /\ k = Head(F.todo)
          /\ what = "censor"
          /\ Scrubbed(F) => \E v \in Read(F.value, k) : ~OmitsOwnField(F.value, k, v)
       \/ /\ F.step = "parts" /\ F.todo # <<>> /\ k = Head(F.todo)
          /\ what = (IF Covered(k) THEN "censor" ELSE "leaf")
       \/ F.step = "parts" /\ F.todo = <<>> /\ k = INCOMPLETE_KEY /\ what = "leaf"
       \/ F.step = "link" /\ k = F.part /\ what \in {"markers", "object"} /\ ~Covered(k)
          /\ (what = "markers" => IsArray(F.linked) /\ F.ser)
          /\ (what = "object" => e.of \in Markers)
       \/ F.step \in {"link", "linked"} /\ k = F.part /\ what = "censor"

\* The marks of the members of a list past the budget.
MarkerWrite(q, e) ==
  /\ F.step = "link" /\ IsArray(F.linked) /\ F.ser /\ e.what = "object" /\ e.owner = F.linked
  /\ e.of \in Markers /\ ~Covered(F.part) /\ \E k : q = Append(PartPath(F), k)

EnvelopeWrite(q, e) ==
  /\ Unwind /\ Len(stack) = 1 /\ q = <<>> /\ e = Entry("envelope", Record, Record)

Written(q) ==
  \/ Kept(q)
  \/ OwnWrite(q, out'[q]) \/ FieldWrite(q, out'[q]) \/ MarkerWrite(q, out'[q])
  \/ EnvelopeWrite(q, out'[q])

LEMMA WritesShape ==
  ASSUME NEW what, Writes(what), NEW q \in DOMAIN out'
  PROVE  Kept(q) \/ (q = F.path /\ out'[q] = Entry(what, F.value, F.owner))
BY PutShape DEF Writes

LEMMA SilentShape ==
  ASSUME UNCHANGED out, NEW q \in DOMAIN out'
  PROVE  Written(q)
BY DEF Written, Kept

LEMMA EnterWrites ==
  ASSUME Types, EnterPrimitive \/ EnterTooDeep \/ EnterOverBudget \/ Enter, NEW q \in DOMAIN out'
  PROVE  Written(q)
<1>1. /\ F.step = "enter"
      /\ \/ UNCHANGED out
         \/ Writes("leaf") \/ Writes("depth") \/ Writes("budget")
         \/ Writes("circular") /\ F.value \in Ancestors /\ F.value \in DOMAIN heap
  BY Zenon DEF EnterPrimitive, EnterTooDeep, EnterOverBudget, Enter, At, IsObject
<1>2. CASE UNCHANGED out
  BY <1>2, SilentShape
<1>3. ASSUME NEW what \in {"leaf", "depth", "budget", "circular"}, Writes(what),
             what = "circular" => F.value \in Ancestors /\ F.value \in DOMAIN heap, ~Kept(q)
      PROVE  OwnWrite(q, out'[q])
  <2>1. what \in Whats \ {"envelope", "markers"}
    BY <1>3 DEF Whats
  <2>2. q = F.path /\ out'[q] = Entry(what, F.value, F.owner)
    BY <1>3, WritesShape
  <2>3. QED
    BY <1>1, <1>3, <2>1, <2>2 DEF OwnWrite
<1>4. QED
  BY <1>1, <1>2, <1>3 DEF Written

LEMMA InspectWrites ==
  ASSUME Types, InspectBinary \/ InspectRefused \/ InspectBuffer \/ FollowToJson \/ Followed
                \/ InspectFunction \/ Open, NEW q \in DOMAIN out'
  PROVE  Written(q)
<1>1. \/ UNCHANGED out
      \/ /\ F.step = "inspect"
         /\ \/ Writes("size") \/ Writes("censor")
            \/ Writes("reference") /\ ~Safe
               /\ (Via = "buffer" \/ (IsKind(F.value, "function") /\ ~HonoursToJson))
            \/ Writes(IF IsArray(F.value) THEN "array"
                      ELSE IF IsError(F.value) /\ ~AsData(F) THEN "instance" ELSE "object")
  BY Zenon DEF InspectBinary, InspectRefused, InspectBuffer, FollowToJson, Followed,
     InspectFunction, Open, At, Inspecting, IsBufferToJson
<1>2. CASE UNCHANGED out
  BY <1>2, SilentShape
<1>3. CASE F.step = "inspect"
  <2>1. F.value \in DOMAIN heap
    <3>1. Walking
      BY <1>3, Zenon DEF Walking, At, Inspecting, InspectBinary, InspectRefused, InspectBuffer,
         FollowToJson, Followed, InspectFunction, Open, Types, TasksInv
    <3>2. QED
      BY <1>3, <3>1, WalkingIs DEF FrameOK
  <2>2. ASSUME NEW what \in {"size", "censor", "reference", "array", "instance", "object"},
               Writes(what), ~Kept(q),
               what = "reference" => ~Safe
                 /\ (Via = "buffer" \/ (IsKind(F.value, "function") /\ ~HonoursToJson)),
               what \in {"object", "array", "instance"} => (what = "array" <=> IsArray(F.value))
        PROVE  OwnWrite(q, out'[q])
    <3>1. what \in Whats \ {"envelope", "markers"}
      BY <2>2 DEF Whats
    <3>2. q = F.path /\ out'[q] = Entry(what, F.value, F.owner)
      BY <2>2, WritesShape
    <3>3. QED
      BY <1>3, <2>1, <2>2, <3>1, <3>2 DEF OwnWrite
  <2>3. CASE Writes("size") \/ Writes("censor")
    BY <2>2, <2>3 DEF Written
  <2>4. CASE Writes("reference") /\ ~Safe
               /\ (Via = "buffer" \/ (IsKind(F.value, "function") /\ ~HonoursToJson))
    BY <2>2, <2>4 DEF Written
  <2>5. CASE Writes(IF IsArray(F.value) THEN "array"
                    ELSE IF IsError(F.value) /\ ~AsData(F) THEN "instance" ELSE "object")
    <3>1. CASE IsArray(F.value)
      BY <2>2, <2>5, <3>1 DEF Written
    <3>2. CASE ~IsArray(F.value) /\ IsError(F.value) /\ ~AsData(F)
      BY <2>2, <2>5, <3>2 DEF Written
    <3>3. CASE ~IsArray(F.value) /\ ~(IsError(F.value) /\ ~AsData(F))
      BY <2>2, <2>5, <3>3 DEF Written
    <3>4. QED
      BY <3>1, <3>2, <3>3
  <2>6. QED
    BY <1>1, <1>2, <2>3, <2>4, <2>5
<1>4. QED
  BY <1>1, <1>2, <1>3

LEMMA FieldWrites ==
  ASSUME Types, Element \/ Field \/ FieldsDone, NEW q \in DOMAIN out'
  PROVE  Written(q)
<1>1. PICK k : k = Head(F.todo)
  OBVIOUS
<1>2. \/ UNCHANGED out
      \/ /\ F.step = "fields" /\ ~IsArray(F.value) /\ F.todo # <<>>
         /\ Put(Append(F.path, k), "censor", Text, Origin(F.value))
         /\ \E v \in Read(F.value, k) : ~(Scrubbed(F) /\ OmitsOwnField(F.value, k, v))
  BY <1>1, Zenon DEF Element, Field, FieldsDone, At
<1>3. CASE UNCHANGED out
  BY <1>3, SilentShape
<1>4. CASE F.step = "fields" /\ Put(Append(F.path, k), "censor", Text, Origin(F.value)) /\ ~Kept(q)
  <2>1. q = Append(F.path, k) /\ out'[q] = Entry("censor", Text, Origin(F.value))
    BY <1>4, PutShape
  <2>2. out'[q].what = "censor" /\ out'[q].owner = Origin(F.value)
    BY <2>1, EntryParts
  <2>3. FieldWrite(q, out'[q])
    BY <1>1, <1>2, <1>3, <1>4, <2>1, <2>2 DEF FieldWrite, Kept
  <2>4. QED
    BY <2>3 DEF Written
<1>5. QED
  BY <1>2, <1>3, <1>4 DEF Written

LEMMA PartWrites ==
  ASSUME Types, ReadPart, NEW q \in DOMAIN out'
  PROVE  Written(q)
<1>1. PICK k, what, f :
        k = Head(F.todo) /\ what = (IF Covered(k) THEN "censor" ELSE "leaf")
        /\ f = [F EXCEPT !.todo = Tail(@), !.part = k]
  OBVIOUS
<1>2. /\ F.step = "parts" /\ F.todo # <<>>
      /\ UNCHANGED out \/ Put(PartPath(f), what, Text, Origin(F.value))
  BY <1>1, Zenon DEF ReadPart, At
<1>3. Walking
  BY DEF ReadPart, At, Walking
<1>4. PartPath(f) = Append(F.path, k)
  BY <1>1, <1>3, WalkingIs DEF PartPath, Frames
<1>5. CASE UNCHANGED out
  BY <1>5, SilentShape
<1>6. CASE Put(Append(F.path, k), what, Text, Origin(F.value)) /\ ~Kept(q)
  <2>1. q = Append(F.path, k) /\ out'[q] = Entry(what, Text, Origin(F.value))
    BY <1>6, PutShape
  <2>2. out'[q].what = what /\ out'[q].owner = Origin(F.value)
    BY <2>1, EntryParts
  <2>3. FieldWrite(q, out'[q])
    BY <1>1, <1>2, <2>1, <2>2 DEF FieldWrite
  <2>4. QED
    BY <2>3 DEF Written
<1>7. QED
  BY <1>2, <1>4, <1>5, <1>6 DEF Written

LEMMA PartsDoneWrites ==
  ASSUME Types, PartsDone, NEW q \in DOMAIN out'
  PROVE  Written(q)
<1>1. /\ F.step = "parts" /\ F.todo = <<>>
      /\ \/ UNCHANGED out
         \/ Put(Append(F.path, INCOMPLETE_KEY), "leaf", Text, Origin(F.value))
  BY Zenon DEF PartsDone, At
<1>2. CASE UNCHANGED out
  BY <1>2, SilentShape
<1>3. CASE Put(Append(F.path, INCOMPLETE_KEY), "leaf", Text, Origin(F.value)) /\ ~Kept(q)
  <2>1. q = Append(F.path, INCOMPLETE_KEY) /\ out'[q] = Entry("leaf", Text, Origin(F.value))
    BY <1>3, PutShape
  <2>2. out'[q].what = "leaf" /\ out'[q].owner = Origin(F.value)
    BY <2>1, EntryParts
  <2>3. FieldWrite(q, out'[q])
    BY <1>1, <2>1, <2>2 DEF FieldWrite
  <2>4. QED
    BY <2>3 DEF Written
<1>4. QED
  BY <1>1, <1>2, <1>3 DEF Written

LEMMA LinkWrites ==
  ASSUME Types, Link, NEW q \in DOMAIN out'
  PROVE  Written(q)
<1>1. PICK p : p = PartPath(F)
  OBVIOUS
<1>2. p = Append(F.path, F.part)
  BY <1>1 DEF PartPath
<1>3. /\ F.step = "link"
      /\ \/ UNCHANGED out
         \/ Covered(F.part) /\ out' = Assign(out, p, Entry("censor", Text, Origin(F.value)))
         \/ ~Covered(F.part) /\ \E reading : out' = Over(LevelMarkers(F, reading), out)
  BY <1>1, Zenon DEF Link, At
<1>4. CASE UNCHANGED out
  BY <1>4, SilentShape
<1>5. CASE out' = Assign(out, p, Entry("censor", Text, Origin(F.value))) /\ ~Kept(q)
  <2>1. q = p /\ out'[q] = Entry("censor", Text, Origin(F.value))
    BY <1>5, AssignShape DEF Kept
  <2>2. out'[q].what = "censor" /\ out'[q].owner = Origin(F.value)
    BY <2>1, EntryParts
  <2>3. FieldWrite(q, out'[q])
    BY <1>2, <1>3, <2>1, <2>2 DEF FieldWrite
  <2>4. QED
    BY <2>3 DEF Written
<1>6. ASSUME ~Covered(F.part), NEW reading, out' = Over(LevelMarkers(F, reading), out), ~Kept(q)
      PROVE  Written(q)
  <2>1. PICK m : m = LevelMarkers(F, reading)
    OBVIOUS
  <2>2. q \in DOMAIN m /\ out'[q] = m[q]
    <3>1. out' = Over(m, out)
      BY <1>6, <2>1
    <3>2. /\ q \in DOMAIN m \/ q \in DOMAIN out
          /\ q \in DOMAIN m => out'[q] = m[q]
          /\ q \notin DOMAIN m => out'[q] = out[q]
      BY <3>1 DEF Over
    <3>3. QED
      BY <1>6, <3>2 DEF Kept
  <2>3. q \in DOMAIN LevelMarkers(F, reading) /\ out'[q] = LevelMarkers(F, reading)[q]
    BY <2>1, <2>2
  <2>4. \/ /\ q = PartPath(F)
           /\ out'[q].what \in {"markers", "object"}
           /\ out'[q].owner = Origin(F.value)
           /\ out'[q].what = "markers" => IsArray(F.linked) /\ F.ser
           /\ out'[q].what = "object" => out'[q].of \in Markers
        \/ /\ IsArray(F.linked) /\ F.ser /\ out'[q].what = "object"
           /\ out'[q].of \in Markers /\ out'[q].owner = F.linked
           /\ \E k \in DOMAIN reading : q = Append(PartPath(F), k)
    <3>1. PICK l : l = LevelMarkers(F, reading)
      OBVIOUS
    <3>2. q \in DOMAIN l
      BY <2>3, <3>1
    <3>3. \/ /\ q = PartPath(F) /\ l[q].what \in {"markers", "object"}
             /\ l[q].owner = Origin(F.value)
             /\ l[q].what = "markers" => IsArray(F.linked) /\ F.ser
             /\ l[q].what = "object" => l[q].of \in Markers
          \/ /\ IsArray(F.linked) /\ F.ser /\ l[q].what = "object" /\ l[q].owner = F.linked
             /\ l[q].of \in Markers
             /\ \E k \in DOMAIN reading : q = Append(PartPath(F), k)
      BY <3>1, <3>2, LevelMarkersShape
    <3>4. out'[q] = l[q]
      BY <2>3, <3>1
    <3>5. QED
      BY <3>3, <3>4
  <2>5. CASE /\ q = PartPath(F)
             /\ out'[q].what \in {"markers", "object"}
             /\ out'[q].owner = Origin(F.value)
             /\ out'[q].what = "markers" => IsArray(F.linked) /\ F.ser
             /\ out'[q].what = "object" => out'[q].of \in Markers
    <3>1. FieldWrite(q, out'[q])
      BY <1>1, <1>2, <1>3, <1>6, <2>5 DEF FieldWrite
    <3>2. QED
      BY <3>1 DEF Written
  <2>6. CASE /\ IsArray(F.linked) /\ F.ser /\ out'[q].what = "object"
             /\ out'[q].of \in Markers /\ out'[q].owner = F.linked
             /\ \E k \in DOMAIN reading : q = Append(PartPath(F), k)
    <3>1. MarkerWrite(q, out'[q])
      BY <1>3, <1>6, <2>6 DEF MarkerWrite
    <3>2. QED
      BY <3>1 DEF Written
  <2>7. QED
    BY <2>4, <2>5, <2>6
<1>7. QED
  BY <1>3, <1>4, <1>5, <1>6 DEF Written

LEMMA LinkedWrites ==
  ASSUME Types, Linked, NEW q \in DOMAIN out'
  PROVE  Written(q)
<1>1. PICK p, d, e : p = PartPath(F) /\ d = Dropped(p) /\ e = Entry("censor", Text, Origin(F.value))
  OBVIOUS
<1>2. F.step = "linked" /\ (UNCHANGED out \/ out' = Assign(d, p, e))
  BY <1>1, Zenon DEF Linked, At
<1>3. CASE UNCHANGED out
  BY <1>3, SilentShape
<1>4. CASE out' = Assign(d, p, e)
  <2>1. (q = p /\ out'[q] = e) \/ (q \in DOMAIN d /\ out'[q] = d[q])
    BY <1>4, AssignShape
  <2>2. CASE q \in DOMAIN d /\ out'[q] = d[q]
    BY <1>1, <2>2, DropShape DEF Written, Kept
  <2>3. CASE q = p /\ out'[q] = e
    <3>1. out'[q].what = "censor" /\ out'[q].owner = Origin(F.value)
      BY <1>1, <2>3, EntryParts
    <3>2. FieldWrite(q, out'[q])
      BY <1>1, <1>2, <2>3, <3>1 DEF FieldWrite, PartPath
    <3>3. QED
      BY <3>2 DEF Written
  <2>4. QED
    BY <2>1, <2>2, <2>3
<1>5. QED
  BY <1>2, <1>3, <1>4

LEMMA CatchWrites ==
  ASSUME Types, CatchPart \/ CatchError \/ WalkDegraded \/ Unwind, NEW q \in DOMAIN out'
  PROVE  Written(q)
<1>1. CASE CatchPart \/ CatchError
  <2>1. \E p : out' = Dropped(p)
    BY <1>1, Zenon DEF CatchPart, CatchError
  <2>2. QED
    BY <2>1, DropShape DEF Written, Kept
<1>2. CASE WalkDegraded
  BY <1>2, SilentShape DEF WalkDegraded
<1>3. CASE Unwind
  <2>1. CASE UNCHANGED out
    BY <2>1, SilentShape
  <2>2. CASE Len(stack) = 1 /\ out' = [r \in {<<>>} |-> Entry("envelope", Record, Record)]
    <3>1. q = <<>> /\ out'[q] = Entry("envelope", Record, Record)
      BY <2>2
    <3>2. EnvelopeWrite(q, out'[q])
      BY <1>3, <2>2, <3>1 DEF EnvelopeWrite
    <3>3. QED
      BY <3>2 DEF Written
  <2>3. QED
    BY <1>3, <2>1, <2>2, Zenon DEF Unwind
<1>4. QED
  BY <1>1, <1>2, <1>3

\* Everything a step writes.
LEMMA WalkWrites ==
  ASSUME Types, [Next]_vars, NEW q \in DOMAIN out'
  PROVE  Kept(q) \/ (Walk /\ Written(q))
<1>1. CASE Walk
  BY <1>1, EnterWrites, InspectWrites, FieldWrites, PartWrites, PartsDoneWrites, LinkWrites,
     LinkedWrites, CatchWrites DEF Walk
<1>2. CASE ~Walk
  <2>1. UNCHANGED out
    BY <1>2, Zenon DEF Next, Sanitize, Serialized, walkVars, vars
  <2>2. QED
    BY <2>1 DEF Kept
<1>3. QED
  BY <1>1, <1>2

LEMMA PolicyKept ==
  ASSUME [Next]_vars
  PROVE  policy' = policy
<1>1. CASE Walk
  BY <1>1, Zenon DEF Walk, sanitizerVars, EnterPrimitive, EnterTooDeep, EnterOverBudget, Enter,
     InspectBinary, InspectRefused, InspectBuffer, FollowToJson, Followed, InspectFunction,
     Open, Element, Field, FieldsDone, ReadPart, Link, Linked, PartsDone, CatchPart, CatchError,
     WalkDegraded, Unwind
<1>2. CASE Sanitize
  BY <1>2, Zenon DEF Sanitize, SanitizerStep, Identify, ReadStack, ReadCause, ReadErrors,
     VisitMember, MembersDone, CopyOwnFields
<1>3. QED
  BY <1>1, <1>2, Zenon DEF Next, Serialized, vars, sanitizerVars

\* What tells how a step leaves the calls around and with the innermost.
StackSteps ==
  \/ stack' = stack
  \/ Walk /\ Walking /\ ~WalkDegraded /\ Walked
  \/ WalkDegraded /\ Walking
  \/ Serialized /\ stack = <<>>

LEMMA StackStepsAre ==
  ASSUME Types, [Next]_vars
  PROVE  StackSteps
<1>1. CASE Walk /\ ~WalkDegraded
  BY <1>1, WalkShape DEF StackSteps
<1>2. CASE WalkDegraded
  BY <1>2 DEF StackSteps, Walking, WalkDegraded, At
<1>3. CASE Serialized
  BY <1>3 DEF StackSteps, Serialized, Types, TasksInv
<1>4. CASE Sanitize \/ UNCHANGED vars
  BY <1>4, Zenon DEF StackSteps, Sanitize, vars, walkVars
<1>5. QED
  BY <1>1, <1>2, <1>3, <1>4 DEF Next

\* The node an error degrades to is walked as the call goes on.
LEMMA DegradedShape ==
  ASSUME Walking, WalkDegraded
  PROVE  \E f : /\ Turns(f) /\ f = Frame(Id(Len(stack), <<>>), F.path, F.depth, F.honor, F.ser, F.owner)
                /\ f.value = Id(Len(stack), <<>>) /\ f.value \in NodeIds
                /\ f.path = F.path /\ f.depth = F.depth /\ f.honor = F.honor /\ f.ser = F.ser
                /\ f.owner = F.owner /\ f.step = "enter" /\ f.todo = <<>> /\ f.before = <<>>
<1>1. PICK f : f = Frame(Id(Len(stack), <<>>), F.path, F.depth, F.honor, F.ser, F.owner)
  OBVIOUS
<1>2. Turns(f)
  BY <1>1, Zenon DEF WalkDegraded
<1>3. /\ f.value = Id(Len(stack), <<>>) /\ f.path = F.path /\ f.depth = F.depth
      /\ f.honor = F.honor /\ f.ser = F.ser /\ f.owner = F.owner /\ f.step = "enter"
      /\ f.todo = <<>> /\ f.before = <<>>
  BY <1>1 DEF Frame
<1>4. Id(Len(stack), <<>>) \in NodeIds
  BY IdsAre, WalkingIs, BeginningIs
<1>5. QED
  BY <1>1, <1>2, <1>3, <1>4

LEMMA SerializedShape ==
  ASSUME Serialized
  PROVE  \E f : /\ stack' = <<f>> /\ f = Frame(Id(0, <<>>), <<>>, 0, TRUE, FALSE, Thrown)
                /\ f.value = Id(0, <<>>) /\ f.value \in NodeIds
                /\ f.path = <<>> /\ f.depth = 0 /\ f.honor = TRUE /\ f.ser = FALSE
                /\ f.owner = Thrown /\ f.step = "enter" /\ f.todo = <<>> /\ f.before = <<>>
<1>1. PICK f : f = Frame(Id(0, <<>>), <<>>, 0, TRUE, FALSE, Thrown)
  OBVIOUS
<1>2. stack' = <<f>>
  BY <1>1, Zenon DEF Serialized
<1>3. /\ f.value = Id(0, <<>>) /\ f.path = <<>> /\ f.depth = 0
      /\ f.honor = TRUE /\ f.ser = FALSE /\ f.owner = Thrown /\ f.step = "enter"
      /\ f.todo = <<>> /\ f.before = <<>>
  BY <1>1 DEF Frame
<1>4. Id(0, <<>>) \in NodeIds
  BY IdsAre, BeginningIs
<1>5. QED
  BY <1>1, <1>2, <1>3, <1>4
=============================================================================
