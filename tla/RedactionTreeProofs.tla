------------------------- MODULE RedactionTreeProofs -------------------------
(***************************************************************************)
(* The copy that the redaction writes is a tree, one path of which the     *)
(* calls in progress are on: what a path of the copy says of the paths     *)
(* above it, for every closed set of object graphs and every policy.       *)
(***************************************************************************)
EXTENDS RedactionCopyProofs, FiniteSetTheorems

-----------------------------------------------------------------------------
(***************************************************************************)
(* Paths.                                                                  *)
(***************************************************************************)

LEMMA PrefixIs ==
  ASSUME NEW q \in Seq(Names), NEW n \in 0..Len(q), NEW r, r = SubSeq(q, 1, n)
  PROVE  /\ r \in Seq(Names) /\ Len(r) = n
         /\ \A i \in 1..n : r[i] = q[i]
         /\ n = Len(q) => r = q
<1>1. Len(q) \in Nat /\ \A i \in 1..Len(q) : q[i] \in Names
  BY LenProperties, ElementOfSeq
<1>2. n \in Int /\ 1 \in Int /\ \A i \in 1..n : q[i] \in Names
  BY <1>1
<1>3. /\ SubSeq(q, 1, n) \in Seq(Names) /\ Len(SubSeq(q, 1, n)) = IF 1 <= n THEN n - 1 + 1 ELSE 0
      /\ \A i \in 1..(n - 1 + 1) : SubSeq(q, 1, n)[i] = q[1 + i - 1]
  BY <1>2, SubSeqProperties
<1>4. Len(r) = n /\ \A i \in 1..n : r[i] = q[i]
  BY <1>1, <1>3
<1>5. n = Len(q) => r = q
  BY <1>3, <1>4, SeqEqual
<1>6. QED
  BY <1>3, <1>4, <1>5

LEMMA UnderIs ==
  ASSUME NEW p \in Seq(Names), NEW q \in Seq(Names)
  PROVE  Under(p, q) <=> Len(p) <= Len(q) /\ \A i \in 1..Len(p) : q[i] = p[i]
<1>1. Len(p) \in Nat /\ Len(q) \in Nat
  BY LenProperties
<1>2. ASSUME Len(p) <= Len(q)
      PROVE  SubSeq(q, 1, Len(p)) = p <=> \A i \in 1..Len(p) : q[i] = p[i]
  <2>1. PICK n \in 0..Len(q) : n = Len(p)
    BY <1>1, <1>2
  <2>2. PICK r : r = SubSeq(q, 1, n)
    OBVIOUS
  <2>3. r \in Seq(Names) /\ Len(r) = n /\ \A i \in 1..n : r[i] = q[i]
    BY <2>2, PrefixIs
  <2>4. (\A i \in 1..n : q[i] = p[i]) => r = p
    BY <2>1, <2>3, SeqEqual
  <2>5. r = p => \A i \in 1..n : q[i] = p[i]
    BY <2>3
  <2>6. QED
    BY <2>1, <2>2, <2>4, <2>5
<1>3. QED
  BY <1>2 DEF Under

LEMMA UnderOrder ==
  ASSUME NEW p \in Seq(Names), NEW q \in Seq(Names), NEW r \in Seq(Names)
  PROVE  /\ Under(p, p)
         /\ Under(p, q) /\ Under(q, r) => Under(p, r)
         /\ Under(p, q) => Len(p) <= Len(q)
         /\ Under(p, q) /\ Len(p) = Len(q) => p = q
<1>1. PICK a, b, c \in Nat : a = Len(p) /\ b = Len(q) /\ c = Len(r)
  BY LenProperties
<1>2. Under(p, p)
  BY <1>1, UnderIs
<1>3. Under(p, q) /\ Under(q, r) => Under(p, r)
  <2> SUFFICES ASSUME Under(p, q), Under(q, r) PROVE Under(p, r)
    OBVIOUS
  <2>1. a <= b /\ b <= c /\ (\A i \in 1..a : q[i] = p[i]) /\ (\A i \in 1..b : r[i] = q[i])
    BY <1>1, UnderIs
  <2>2. a <= c /\ \A i \in 1..a : r[i] = p[i]
    BY <2>1
  <2>3. QED
    BY <1>1, <2>2, UnderIs
<1>4. Under(p, q) => Len(p) <= Len(q)
  BY UnderIs
<1>5. ASSUME Under(p, q), Len(p) = Len(q) PROVE p = q
  <2>1. \A i \in 1..Len(p) : p[i] = q[i]
    BY <1>5, UnderIs
  <2>2. QED
    BY <1>5, <2>1, SeqEqual
<1>6. QED
  BY <1>2, <1>3, <1>4, <1>5

LEMMA NameBelow ==
  ASSUME NEW p \in Seq(Names), NEW k \in Names, NEW c, c = Append(p, k)
  PROVE  /\ c \in Seq(Names) /\ Under(p, c) /\ ~Under(c, p) /\ c # p /\ c # <<>>
         /\ Len(c) = Len(p) + 1 /\ c[Len(c)] = k
         /\ \A r \in Seq(Names) : Under(r, c) => r = c \/ Under(r, p)
<1>1. PICK n \in Nat : n = Len(p)
  BY LenProperties
<1>2. c \in Seq(Names) /\ Len(c) = n + 1 /\ c[n + 1] = k /\ \A i \in 1..n : c[i] = p[i]
  BY <1>1, AppendProperties
<1>3. Under(p, c) /\ ~Under(c, p)
  <2>1. Under(p, c) <=> Len(p) <= Len(c) /\ \A i \in 1..Len(p) : c[i] = p[i]
    BY <1>2, UnderIs
  <2>2. Under(c, p) => Len(c) <= Len(p)
    BY <1>2, UnderIs
  <2>3. QED
    BY <1>1, <1>2, <2>1, <2>2
<1>4. c # p /\ c # <<>>
  <2>1. Len(p) # Len(c)
    BY <1>1, <1>2
  <2>2. QED
    BY <1>2, <2>1
<1>5. ASSUME NEW r \in Seq(Names), Under(r, c), r # c
      PROVE  Under(r, p)
  <2>1. PICK m \in Nat : m = Len(r)
    BY LenProperties
  <2>2. m <= n + 1 /\ \A i \in 1..m : c[i] = r[i]
    <3>1. Under(r, c) <=> Len(r) <= Len(c) /\ \A i \in 1..Len(r) : c[i] = r[i]
      BY <1>2, UnderIs
    <3>2. QED
      BY <1>2, <1>5, <2>1, <3>1
  <2>3. m # n + 1
    <3> SUFFICES ASSUME m = n + 1 PROVE FALSE
      OBVIOUS
    <3>1. Len(r) = Len(c)
      BY <1>2, <2>1
    <3>2. QED
      BY <1>2, <1>5, <3>1, UnderOrder
  <2>4. m <= n /\ \A i \in 1..m : p[i] = r[i]
    BY <1>2, <2>2, <2>3
  <2>5. Under(r, p) <=> Len(r) <= Len(p) /\ \A i \in 1..Len(r) : p[i] = r[i]
    BY UnderIs
  <2>6. QED
    BY <1>1, <2>1, <2>4, <2>5
<1>6. Len(c) = Len(p) + 1 /\ c[Len(c)] = k
  BY <1>1, <1>2
<1>7. QED
  BY <1>2, <1>3, <1>4, <1>5, <1>6

\* What is below two names of a path is below one.
LEMMA OneName ==
  ASSUME NEW p \in Seq(Names), NEW q \in Seq(Names), NEW k \in Names, NEW l \in Names,
         Under(Append(p, k), q), Under(Append(p, l), q)
  PROVE  k = l
<1>1. PICK n \in Nat : n = Len(p)
  BY LenProperties
<1>2. PICK c, d : c = Append(p, k) /\ d = Append(p, l)
  OBVIOUS
<1>3. /\ c \in Seq(Names) /\ Len(c) = n + 1 /\ c[n + 1] = k
      /\ d \in Seq(Names) /\ Len(d) = n + 1 /\ d[n + 1] = l
  BY <1>1, <1>2, AppendProperties
<1>4. \A i \in 1..Len(c) : q[i] = c[i]
  BY <1>2, <1>3, UnderIs
<1>5. \A i \in 1..Len(d) : q[i] = d[i]
  BY <1>2, <1>3, UnderIs
<1>6. n + 1 \in 1..(n + 1)
  OBVIOUS
<1>7. QED
  BY <1>3, <1>4, <1>5, <1>6

\* What is below a path, and is not that path, is below one of its names.
LEMMA NextNameIs ==
  ASSUME NEW p \in Seq(Names), NEW q \in Seq(Names), Under(p, q), q # p
  PROVE  \E k \in Names : Under(Append(p, k), q)
<1>1. PICK a, b \in Nat : a = Len(p) /\ b = Len(q)
  BY LenProperties
<1>2. a <= b /\ \A i \in 1..a : q[i] = p[i]
  <2>1. Len(p) <= Len(q) /\ \A i \in 1..Len(p) : q[i] = p[i]
    BY UnderIs
  <2>2. QED
    BY <1>1, <2>1
<1>3. a # b
  <2> SUFFICES ASSUME a = b PROVE FALSE
    OBVIOUS
  <2>1. Len(p) = Len(q)
    BY <1>1
  <2>2. QED
    BY <2>1, UnderOrder
<1>4. PICK k \in Names : k = q[a + 1]
  <2>1. a + 1 \in 1..b
    BY <1>2, <1>3
  <2>2. QED
    BY <1>1, <2>1, ElementOfSeq
<1>5. PICK c : c = Append(p, k)
  OBVIOUS
<1>6. c \in Seq(Names) /\ Len(c) = a + 1 /\ c[a + 1] = k /\ \A i \in 1..a : c[i] = p[i]
  BY <1>1, <1>5, AppendProperties
<1>7. \A i \in 1..(a + 1) : q[i] = c[i]
  <2>1. \A i \in 1..(a + 1) : i \in 1..a \/ i = a + 1
    OBVIOUS
  <2>2. QED
    BY <1>2, <1>4, <1>6, <2>1
<1>8. Under(c, q)
  <2>1. Under(c, q) <=> Len(c) <= Len(q) /\ \A i \in 1..Len(c) : q[i] = c[i]
    BY <1>6, UnderIs
  <2>2. QED
    BY <1>1, <1>2, <1>3, <1>6, <1>7, <2>1
<1>9. QED
  BY <1>5, <1>8

\* Two beginnings of a path: one is a beginning of the other.
LEMMA OneBeginsTheOther ==
  ASSUME NEW p \in Seq(Names), NEW q \in Seq(Names), NEW r \in Seq(Names),
         Under(p, r), Under(q, r)
  PROVE  Under(p, q) \/ Under(q, p)
<1>1. PICK a, b \in Nat : a = Len(p) /\ b = Len(q)
  BY LenProperties
<1>2. (\A i \in 1..a : r[i] = p[i]) /\ (\A i \in 1..b : r[i] = q[i])
  <2>1. (\A i \in 1..Len(p) : r[i] = p[i]) /\ (\A i \in 1..Len(q) : r[i] = q[i])
    BY UnderIs
  <2>2. QED
    BY <1>1, <2>1
<1>3. CASE a <= b
  <2>1. \A i \in 1..a : q[i] = p[i]
    BY <1>2, <1>3
  <2>2. Under(p, q) <=> Len(p) <= Len(q) /\ \A i \in 1..Len(p) : q[i] = p[i]
    BY UnderIs
  <2>3. QED
    BY <1>1, <1>3, <2>1, <2>2
<1>4. CASE b <= a
  <2>1. \A i \in 1..b : p[i] = q[i]
    BY <1>2, <1>4
  <2>2. Under(q, p) <=> Len(q) <= Len(p) /\ \A i \in 1..Len(q) : p[i] = q[i]
    BY UnderIs
  <2>3. QED
    BY <1>1, <1>4, <2>1, <2>2
<1>5. QED
  BY <1>3, <1>4

\* The beginnings of a path, by their length.
LEMMA PrefixUnder ==
  ASSUME NEW q \in Seq(Names)
  PROVE  /\ \A i \in DOMAIN q : \E r \in Seq(Names), k \in Names :
              /\ r = SubSeq(q, 1, i - 1) /\ k = q[i] /\ Under(Append(r, k), q)
              /\ Append(r, k) = q => i = Len(q)
         /\ \A r \in Seq(Names) : Under(r, q) /\ r # q =>
              \E n \in 0..(Len(q) - 1) : SubSeq(q, 1, n) = r
<1>1. PICK b \in Nat : b = Len(q) /\ DOMAIN q = 1..b
  BY LenProperties
<1>2. ASSUME NEW i \in DOMAIN q
      PROVE  \E r \in Seq(Names), k \in Names :
              /\ r = SubSeq(q, 1, i - 1) /\ k = q[i] /\ Under(Append(r, k), q)
              /\ Append(r, k) = q => i = Len(q)
  <2>1. i - 1 \in 0..Len(q) /\ q[i] \in Names /\ i \in 1..b
    BY <1>1, ElementOfSeq
  <2>2. PICK r, k : r = SubSeq(q, 1, i - 1) /\ k = q[i]
    OBVIOUS
  <2>3. PICK m \in 0..b : m = i - 1
    BY <1>1, <2>1
  <2>4. r \in Seq(Names) /\ Len(r) = m /\ \A j \in 1..m : r[j] = q[j]
    BY <1>1, <2>2, <2>3, PrefixIs
  <2>5. PICK c : c = Append(r, k)
    OBVIOUS
  <2>6. c \in Seq(Names) /\ Len(c) = m + 1 /\ c[m + 1] = k /\ \A j \in 1..m : c[j] = r[j]
    BY <2>1, <2>2, <2>4, <2>5, AppendProperties
  <2>7. \A j \in 1..(m + 1) : q[j] = c[j]
    <3>1. \A j \in 1..(m + 1) : j \in 1..m \/ j = m + 1
      OBVIOUS
    <3>2. q[m + 1] = k
      BY <2>1, <2>2, <2>3
    <3>3. QED
      BY <2>4, <2>6, <3>1, <3>2
  <2>8. Under(c, q)
    <3>1. Under(c, q) <=> Len(c) <= Len(q) /\ \A j \in 1..Len(c) : q[j] = c[j]
      BY <2>6, UnderIs
    <3>2. QED
      BY <1>1, <2>1, <2>3, <2>6, <2>7, <3>1
  <2>9. c = q => i = Len(q)
    BY <1>1, <2>1, <2>3, <2>6
  <2>10. QED
    BY <2>1, <2>2, <2>4, <2>5, <2>8, <2>9
<1>3. ASSUME NEW r \in Seq(Names), Under(r, q), r # q
      PROVE  \E n \in 0..(Len(q) - 1) : SubSeq(q, 1, n) = r
  <2>1. PICK n \in Nat : n = Len(r)
    BY LenProperties
  <2>2. n <= b /\ SubSeq(q, 1, n) = r
    BY <1>1, <1>3, <2>1 DEF Under
  <2>3. n # b
    <3> SUFFICES ASSUME n = b PROVE FALSE
      OBVIOUS
    <3>1. Len(r) = Len(q)
      BY <1>1, <2>1
    <3>2. QED
      BY <1>3, <3>1, UnderOrder
  <2>4. n \in 0..(Len(q) - 1)
    BY <1>1, <2>2, <2>3
  <2>5. QED
    BY <2>2, <2>4
<1>4. QED
  BY <1>2, <1>3

\* The root is above every path.
LEMMA RootIsAbove ==
  ASSUME NEW q \in Seq(Names)
  PROVE  <<>> \in Seq(Names) /\ Under(<<>>, q) /\ (Under(q, <<>>) => q = <<>>)
<1>0. <<>> \in Seq(Names)
  BY BeginningIs
<1>1. PICK e \in Seq(Names) : e = <<>>
  BY <1>0
<1>2. Len(e) = 0 /\ Len(q) \in Nat
  BY <1>1, EmptySeq, LenProperties
<1>3. Under(e, q)
  <2>1. Under(e, q) <=> Len(e) <= Len(q) /\ \A i \in 1..Len(e) : q[i] = e[i]
    BY UnderIs
  <2>2. QED
    BY <1>2, <2>1
<1>4. ASSUME Under(q, e) PROVE q = e
  <2>1. Len(q) <= Len(e)
    BY <1>4, UnderOrder
  <2>2. Len(q) = Len(e)
    BY <1>2, <2>1
  <2>3. QED
    BY <1>4, <2>2, UnderOrder
<1>5. QED
  BY <1>1, <1>3, <1>4

-----------------------------------------------------------------------------
(***************************************************************************)
(* The copy is a tree.                                                     *)
(***************************************************************************)

\* o is the copy, before or after a step.
FreshIn(o, p)    == \A q \in DOMAIN o : ~Under(p, q)
PrefixesIn(o, p) == \A r \in Seq(Names) : Under(r, p) /\ r # p => r \in DOMAIN o

\* A key under which the call has written, and will not write again.
OpenSteps == {"fields", "parts", "link", "linked"}
KeyDone(f, k) ==
  /\ k \notin Elements(f.todo)
  /\ IsArray(f.value) \/ k \in f.written \/ (f.step # "fields" /\ k \in PartKeys)
  /\ f.step = "link" => k # f.part

\* The copy of a call's value is there, and under it only what the call has done.
CopyIn(o, f) ==
  /\ f.path \in DOMAIN o /\ o[f.path].of = f.value
  /\ IsArray(f.value) => o[f.path].what = "array"
  /\ \A k \in Names, q \in DOMAIN o : Under(Append(f.path, k), q) => KeyDone(f, k)
  /\ OneEach(f.todo)
  /\ f.step # "fields" => ~IsArray(f.value)
  /\ f.step \in {"link", "linked"} => f.part \notin Elements(f.todo) /\ f.part # "stack"

FrameTree(o, f) ==
  /\ PrefixesIn(o, f.path)
  /\ f.step \in {"enter", "inspect", "degraded"} => FreshIn(o, f.path)
  /\ f.step \in OpenSteps => CopyIn(o, f)
  /\ f.step = "follow" /\ f.value \notin NodeIds => heap[f.value].via # "none"

\* Of two calls in progress the inner one writes below the outer one, under a key that
\* one has done with; below a toJSON there are only nodes of inner calls.
Within(i, f, g) ==
  /\ Under(f.path, g.path)
  /\ f.step # "follow" => \E k \in Names : Under(Append(f.path, k), g.path) /\ KeyDone(f, k)
  /\ f.step = "follow" => /\ g.value \in NodeIds => g.value.base > i
                          /\ g.linked \in NodeIds => g.linked.base > i

TreeInv ==
  /\ \A f \in Callers : FrameTree(out, f)
  /\ \A i, j \in DOMAIN stack : i < j => Within(i, stack[i], stack[j])
  /\ \A q \in DOMAIN out : PrefixesIn(out, q)
  /\ phase = "serialize" => DOMAIN out = {}

\* How a step writes: only below p, and there all is new.
Replaces(p) ==
  /\ \A q \in Seq(Names) : ~Under(p, q) =>
       /\ q \in DOMAIN out' <=> q \in DOMAIN out
       /\ q \in DOMAIN out => out'[q] = out[q]
  /\ \A q \in DOMAIN out' : Under(p, q) =>
       \/ q = p
       \/ /\ FreshIn(out, p) /\ p \in DOMAIN out' /\ out'[p].what = "markers"
          /\ \E k \in Names : q = Append(p, k)

LEMMA PutReplaces ==
  ASSUME NEW o, NEW p \in Seq(Names), NEW e, out' = Assign(o, p, e),
         \/ o = out /\ FreshIn(out, p)
         \/ o = Dropped(p)
  PROVE  Replaces(p) /\ p \in DOMAIN out' /\ out'[p] = e
<1>1. PICK g : g = Assign(o, p, e)
  OBVIOUS
<1>2. /\ \A x : x \in DOMAIN g <=> (x \in DOMAIN o \/ x = p)
      /\ g[p] = e /\ \A x \in DOMAIN o : x # p => g[x] = o[x]
  BY <1>1, Assigned
<1>3. \A q \in DOMAIN o : ~Under(p, q)
  BY DEF FreshIn, Dropped
<1>4. \A q : ~Under(p, q) => /\ q \in DOMAIN o <=> q \in DOMAIN out
                             /\ q \in DOMAIN o => o[q] = out[q]
  BY DEF Dropped
<1>5. Under(p, p)
  BY UnderOrder
<1>6. out' = g
  BY <1>1
<1>7. \A q : ~Under(p, q) => /\ q \in DOMAIN g <=> q \in DOMAIN out
                             /\ q \in DOMAIN out => g[q] = out[q]
  BY <1>2, <1>4, <1>5
<1>8. \A q \in DOMAIN g : Under(p, q) => q = p
  BY <1>2, <1>3
<1>9. QED
  BY <1>2, <1>6, <1>7, <1>8 DEF Replaces

LEMMA DropReplaces ==
  ASSUME NEW p, out' = Dropped(p)
  PROVE  Replaces(p) /\ FreshIn(out', p)
BY DEF Replaces, FreshIn, Dropped

LEMMA MarkersReplace ==
  ASSUME NEW f, NEW reading, NEW p \in Seq(Names), p = PartPath(f), FreshIn(out, p),
         IsArray(f.linked) => DOMAIN reading \subseteq Names,
         out' = Over(LevelMarkers(f, reading), out)
  PROVE  Replaces(p)
<1>1. PICK o : o = Origin(f.value)
  OBVIOUS
<1>2. PICK alone : alone = [r \in {p} |-> Entry("object", DepthMarker, o)]
  OBVIOUS
<1>3. PICK each : each =
        [r \in {p} \cup {Append(p, k) : k \in DOMAIN reading} |->
           IF r = p THEN Entry("markers", f.linked, o)
           ELSE Entry("object", IF reading[r[Len(r)]] \in Markers \ {DepthMarker}
                                THEN reading[r[Len(r)]] ELSE DepthMarker, f.linked)]
  OBVIOUS
<1>4. PICK m : m = LevelMarkers(f, reading) /\ (m = alone \/ (m = each /\ IsArray(f.linked)))
  <2>1. PICK x : x = PartPath(f)
    OBVIOUS
  <2>2. x = p
    BY <2>1
  <2>3. \/ LevelMarkers(f, reading) = alone
        \/ IsArray(f.linked) /\ f.ser /\ LevelMarkers(f, reading) = each
    BY <1>1, <1>2, <1>3, <2>1, <2>2, Zenon DEF LevelMarkers
  <2>4. QED
    BY <2>3
<1>5. /\ p \in DOMAIN m
      /\ \A q \in DOMAIN m : Under(p, q)
      /\ \A q \in DOMAIN m : q # p => m[p].what = "markers" /\ \E k \in Names : q = Append(p, k)
  <2>1. CASE m = alone
    <3>1. DOMAIN m = {p}
      BY <1>2, <2>1
    <3>2. QED
      BY <3>1, UnderOrder
  <2>2. CASE m = each /\ IsArray(f.linked)
    <3>1. DOMAIN m = {p} \cup {Append(p, k) : k \in DOMAIN reading}
      BY <1>3, <2>2
    <3>2. m[p] = Entry("markers", f.linked, o)
      BY <1>3, <2>2
    <3>3. m[p].what = "markers"
      BY <3>2, EntryParts
    <3>4. \A q \in DOMAIN m : q = p \/ \E k \in Names : q = Append(p, k)
      BY <2>2, <3>1
    <3>5. \A k \in Names : Under(p, Append(p, k))
      BY NameBelow
    <3>6. Under(p, p)
      BY UnderOrder
    <3>7. \A q \in DOMAIN m : Under(p, q)
      BY <3>4, <3>5, <3>6
    <3>8. QED
      BY <3>1, <3>3, <3>4, <3>7
  <2>3. QED
    BY <1>4, <2>1, <2>2
<1>6. /\ \A x : x \in DOMAIN out' <=> (x \in DOMAIN m \/ x \in DOMAIN out)
      /\ \A x \in DOMAIN m : out'[x] = m[x]
      /\ \A x \in DOMAIN out : x \notin DOMAIN m => out'[x] = out[x]
  <2>1. out' = Over(m, out)
    BY <1>4
  <2>2. PICK g : g = Over(m, out)
    OBVIOUS
  <2>3. /\ \A x : x \in DOMAIN g <=> (x \in DOMAIN m \/ x \in DOMAIN out)
        /\ \A x \in DOMAIN m : g[x] = m[x]
        /\ \A x \in DOMAIN out : x \notin DOMAIN m => g[x] = out[x]
    BY <2>2, Overlaid
  <2>4. QED
    BY <2>1, <2>2, <2>3
<1>7. \A q \in DOMAIN out' : Under(p, q) => q \in DOMAIN m
  BY <1>6 DEF FreshIn
<1>8. \A q \in DOMAIN out' : Under(p, q) =>
        q = p \/ (p \in DOMAIN out' /\ out'[p].what = "markers" /\ \E k \in Names : q = Append(p, k))
  BY <1>5, <1>6, <1>7
<1>9. \A q : ~Under(p, q) => /\ q \in DOMAIN out' <=> q \in DOMAIN out
                             /\ q \in DOMAIN out => out'[q] = out[q]
  BY <1>5, <1>6
<1>10. QED
  BY <1>8, <1>9 DEF Replaces

\* What is kept of the copy above and beside p.
LEMMA ReplacedKeeps ==
  ASSUME NEW p \in Seq(Names), Replaces(p), NEW q \in Seq(Names), NEW r \in Seq(Names),
         Under(r, q), Under(q, p), r # p
  PROVE  /\ r \in DOMAIN out' <=> r \in DOMAIN out
         /\ r \in DOMAIN out => out'[r] = out[r]
<1>1. ~Under(p, r)
  <2> SUFFICES ASSUME Under(p, r) PROVE FALSE
    OBVIOUS
  <2>1. Under(r, p)
    BY UnderOrder
  <2>2. Len(p) <= Len(r) /\ Len(r) <= Len(p) /\ Len(p) \in Nat /\ Len(r) \in Nat
    BY <2>1, UnderOrder, LenProperties
  <2>3. Len(p) = Len(r)
    BY <2>2
  <2>4. QED
    BY <2>3, UnderOrder
<1>2. QED
  BY <1>1 DEF Replaces

\* What is above a path of the copy is in it, and is no other than before but for a list
\* of markers that is written with its members.
LEMMA PrefixStays ==
  ASSUME OutInv', NEW p \in Seq(Names), Replaces(p), PrefixesIn(out, p),
         \A q \in DOMAIN out : PrefixesIn(out, q),
         NEW q \in DOMAIN out', NEW r \in Seq(Names), Under(r, q), r # q
  PROVE  /\ r \in DOMAIN out'
         /\ \/ r \in DOMAIN out /\ out'[r] = out[r]
            \/ /\ r = p /\ out'[r].what = "markers" /\ q \notin DOMAIN out /\ r \notin DOMAIN out
               /\ \E k \in Names : q = Append(p, k)
<1>1. q \in Seq(Names)
  BY DEF OutInv
<1>2. ASSUME Under(r, p), r # p
      PROVE  r \in DOMAIN out' /\ r \in DOMAIN out /\ out'[r] = out[r]
  <2>1. r \in DOMAIN out
    BY <1>2 DEF PrefixesIn
  <2>2. Under(p, p)
    BY UnderOrder
  <2>3. QED
    BY <1>2, <2>1, <2>2, ReplacedKeeps
<1>3. CASE ~Under(p, q)
  <2>1. ~Under(p, r)
    BY <1>1, <1>3, UnderOrder
  <2>2. q \in DOMAIN out
    BY <1>1, <1>3 DEF Replaces
  <2>3. r \in DOMAIN out
    BY <2>2 DEF PrefixesIn
  <2>4. QED
    BY <2>1, <2>3 DEF Replaces
<1>4. CASE q = p
  BY <1>2, <1>4
<1>5. CASE /\ q # p /\ Under(p, q) /\ FreshIn(out, p) /\ p \in DOMAIN out' /\ out'[p].what = "markers"
           /\ \E k \in Names : q = Append(p, k)
  <2>1. r = q \/ Under(r, p)
    BY <1>5, NameBelow
  <2>2. q \notin DOMAIN out
    BY <1>5 DEF FreshIn
  <2>3. CASE r = p
    <3>1. Under(p, p)
      BY UnderOrder
    <3>2. p \notin DOMAIN out
      BY <1>5, <3>1 DEF FreshIn
    <3>3. QED
      BY <1>5, <2>2, <2>3, <3>2
  <2>4. CASE r # p
    BY <1>2, <2>1, <2>4
  <2>5. QED
    BY <2>3, <2>4
<1>6. QED
  BY <1>1, <1>3, <1>4, <1>5 DEF Replaces

\* The calls around stay on the tree.
LEMMA OuterTree ==
  ASSUME OutInv, OutInv', NEW p \in Seq(Names), Replaces(p), NEW i, NEW f \in Frames,
         f.step \in Waiting,
         FrameTree(out, f), F \in Frames, Within(i, f, F), Under(F.path, p)
  PROVE  FrameTree(out', f)
<1>1. PICK a, b \in Seq(Names) : a = f.path /\ b = F.path
  BY FrameParts
<1>2. Under(a, b) /\ Under(a, p) /\ Under(b, p)
  BY <1>1, UnderOrder DEF Within
<1>3. PrefixesIn(out', a)
  <2> SUFFICES ASSUME NEW r \in Seq(Names), Under(r, a), r # a PROVE r \in DOMAIN out'
    BY DEF PrefixesIn
  <2>1. r \in DOMAIN out
    BY <1>1 DEF FrameTree, PrefixesIn
  <2>2. r # p
    BY <1>2, UnderOrder
  <2>3. QED
    BY <1>2, <2>1, <2>2, ReplacedKeeps
<1>4. ASSUME f.step # "follow" PROVE CopyIn(out', f)
  <2>1. PICK k \in Names : Under(Append(a, k), b) /\ KeyDone(f, k)
    BY <1>1, <1>4 DEF Within
  <2>10. PICK c : c = Append(a, k)
    OBVIOUS
  <2>2. c \in Seq(Names) /\ Under(a, c) /\ ~Under(c, a) /\ c # a
    <3>1. a \in Seq(Names) /\ k \in Names
      BY <1>1, <2>1
    <3>2. c \in Seq(Names) /\ Under(a, c) /\ ~Under(c, a) /\ c # a
      BY <2>10, <3>1, NameBelow
    <3>3. QED
      BY <3>2
  <2>3. Under(c, p)
    BY <1>2, <2>1, <2>2, <2>10, UnderOrder
  <2>4. a # p
    BY <2>2, <2>3
  <2>5. CopyIn(out, f)
    BY <1>4 DEF FrameTree, Waiting, OpenSteps
  <2>6. a \in DOMAIN out' /\ out'[a] = out[a]
    <3>1. a \in DOMAIN out
      BY <1>1, <2>5 DEF CopyIn
    <3>2. Under(a, a)
      BY UnderOrder
    <3>3. QED
      BY <1>2, <2>4, <3>1, <3>2, ReplacedKeeps
  <2>7. ASSUME NEW l \in Names, NEW q \in DOMAIN out', Under(Append(a, l), q)
        PROVE  KeyDone(f, l)
    <3>1. q \in Seq(Names)
      BY DEF OutInv
    <3>2. CASE Under(p, q)
      <4>1. Under(c, q)
        BY <2>2, <2>3, <3>1, <3>2, UnderOrder
      <4>2. k = l
        BY <1>1, <2>1, <2>10, <2>7, <3>1, <4>1, OneName
      <4>3. QED
        BY <2>1, <4>2
    <3>3. CASE ~Under(p, q)
      <4>1. q \in DOMAIN out
        BY <3>1, <3>3 DEF Replaces
      <4>2. QED
        BY <1>1, <2>5, <2>7, <4>1 DEF CopyIn
    <3>4. QED
      BY <3>2, <3>3
  <2>8. QED
    BY <1>1, <2>5, <2>6, <2>7 DEF CopyIn
<1>5. QED
  BY <1>1, <1>3, <1>4 DEF FrameTree, Waiting, OpenSteps

-----------------------------------------------------------------------------
(***************************************************************************)
(* How each step moves on the tree.                                        *)
(***************************************************************************)

Writing ==
  \/ UNCHANGED out
  \/ \E p \in Seq(Names) : Under(F.path, p) /\ PrefixesIn(out, p) /\ Replaces(p)
LinkedFrom(f) == f.linked \in NodeIds => f.linked = F.linked \/ f.linked.base = Len(stack)
TreeTurn(f) == SameCall(f) /\ FrameTree(out', f) /\ LinkedFrom(f) /\ Turns(f)
TreeCall(f, g) ==
  /\ SameCall(f) /\ FrameTree(out, f) /\ f.linked = F.linked
  /\ Began(g) /\ FrameTree(out, g) /\ g.linked = Undefined
  /\ Within(Len(stack), f, g)
  /\ g.value \in NodeIds =>
       (F.value \in NodeIds /\ g.value.base = F.value.base) \/ g.value = F.linked
  /\ Calls2(f, g)
TreeMoves ==
  \/ Ends /\ Writing
  \/ Ends /\ Len(stack) = 1 /\ Replaces(<<>>) /\ DOMAIN out' = {<<>>}
  \/ Raise /\ UNCHANGED out
  \/ Writing /\ \E f : TreeTurn(f)
  \/ UNCHANGED out /\ \E f, g : TreeCall(f, g)

\* A call may write at its path while nothing is there, and at any name below its copy.
LEMMA OwnPlace ==
  ASSUME F \in Frames, FrameTree(out, F), F.step \in {"enter", "inspect"},
         NEW what, Writes(what)
  PROVE  /\ Writing /\ Replaces(F.path) /\ F.path \in DOMAIN out'
         /\ out'[F.path] = Entry(what, F.value, F.owner)
<1>1. PICK p \in Seq(Names) : p = F.path
  BY FrameParts
<1>e. PICK e : e = Entry(what, F.value, F.owner)
  OBVIOUS
<1>2. out' = Assign(out, p, e)
  BY <1>1, <1>e DEF Writes, Put
<1>3. FreshIn(out, p) /\ PrefixesIn(out, p)
  BY <1>1 DEF FrameTree
<1>4. Replaces(p) /\ p \in DOMAIN out' /\ out'[p] = e
  BY <1>1, <1>2, <1>3, PutReplaces
<1>5. Under(p, p)
  BY <1>1, UnderOrder
<1>6. QED
  BY <1>1, <1>e, <1>3, <1>4, <1>5 DEF Writing

LEMMA ChildPlace ==
  ASSUME F \in Frames, FrameTree(out, F), CopyIn(out, F), NEW k \in Names,
         NEW c, c = Append(F.path, k)
  PROVE  /\ c \in Seq(Names) /\ Under(F.path, c) /\ PrefixesIn(out, c)
         /\ Replaces(c) => Writing
         /\ ~KeyDone(F, k) => FreshIn(out, c)
<1>1. PICK p \in Seq(Names) : p = F.path
  BY FrameParts
<1>0. c = Append(p, k)
  BY <1>1
<1>2. c \in Seq(Names) /\ Under(p, c) /\ \A r \in Seq(Names) : Under(r, c) => r = c \/ Under(r, p)
  BY <1>0, NameBelow
<1>3. PrefixesIn(out, c)
  BY <1>1, <1>2 DEF PrefixesIn, FrameTree, CopyIn
<1>4. ~KeyDone(F, k) => FreshIn(out, c)
  BY DEF CopyIn, FreshIn
<1>5. QED
  BY <1>1, <1>2, <1>3, <1>4 DEF Writing

\* The copy of a call that has done with one more key.
LEMMA CopyAfter ==
  ASSUME OutInv', F \in Frames, FrameTree(out, F), CopyIn(out, F), NEW f, SameCall(f),
         \A x \in Names : KeyDone(F, x) => KeyDone(f, x),
         NEW k \in Names,
         UNCHANGED out \/ (Replaces(Append(F.path, k)) /\ KeyDone(f, k)),
         OneEach(f.todo), f.step # "fields" => ~IsArray(F.value),
         f.step \in {"link", "linked"} => f.part \notin Elements(f.todo) /\ f.part # "stack",
         f.step \in OpenSteps
  PROVE  FrameTree(out', f)
<1>0. PICK p \in Seq(Names), c \in {Append(F.path, k)} : p = F.path /\ c = Append(p, k)
  BY FrameParts
<1>2. c \in Seq(Names) /\ Under(p, c) /\ ~Under(c, p)
  BY <1>0, NameBelow
<1>1. p = F.path /\ c = Append(p, k) /\ c \in Seq(Names)
  BY <1>0, <1>2
<1>3. f.path = p /\ f.value = F.value
  BY <1>1 DEF SameCall
<1>4. p \in DOMAIN out' /\ out'[p] = out[p]
  <2>1. p \in DOMAIN out
    BY <1>1 DEF CopyIn
  <2>2. QED
    BY <1>1, <1>2, <2>1 DEF Replaces
<1>5. ASSUME NEW l \in Names, NEW q \in DOMAIN out', Under(Append(p, l), q)
      PROVE  KeyDone(f, l)
  <2>1. q \in Seq(Names)
    BY DEF OutInv
  <2>2. CASE q \in DOMAIN out
    BY <1>1, <1>5, <2>2 DEF CopyIn
  <2>3. CASE q \notin DOMAIN out
    <3>1. Under(c, q) /\ KeyDone(f, k)
      BY <1>1, <2>1, <2>3 DEF Replaces
    <3>2. k = l
      BY <1>0, <1>5, <2>1, <3>1, OneName
    <3>3. QED
      BY <3>1, <3>2
  <2>4. QED
    BY <2>2, <2>3
<1>6. PrefixesIn(out', p)
  <2> SUFFICES ASSUME NEW r \in Seq(Names), Under(r, p), r # p PROVE r \in DOMAIN out'
    BY DEF PrefixesIn
  <2>1. r \in DOMAIN out
    BY <1>1 DEF FrameTree, PrefixesIn
  <2>2. ~Under(c, r)
    <3> SUFFICES ASSUME Under(c, r) PROVE FALSE
      OBVIOUS
    <3>1. Under(c, p)
      BY <1>0, <1>2, UnderOrder
    <3>2. QED
      BY <1>2, <3>1
  <2>3. QED
    BY <1>1, <2>1, <2>2 DEF Replaces
<1>7. f.step \notin {"enter", "inspect", "degraded", "follow"}
  BY DEF OpenSteps
<1>8. CopyIn(out', f)
  BY <1>1, <1>3, <1>4, <1>5 DEF CopyIn
<1>9. QED
  BY <1>3, <1>6, <1>7, <1>8 DEF FrameTree

LEMMA QuietTurn ==
  ASSUME FrameTree(out, F), UNCHANGED out, NEW f, SameCall(f), f.linked = F.linked, Turns(f),
         \/ F.step \in {"enter", "inspect", "degraded"} /\ f.step \in {"enter", "inspect", "degraded"}
  PROVE  Writing /\ TreeTurn(f)
<1>1. f.path = F.path /\ f.step \notin OpenSteps /\ f.step # "follow"
  BY DEF SameCall, OpenSteps
<1>2. FrameTree(out', f)
  BY <1>1 DEF FrameTree
<1>3. QED
  BY <1>2 DEF Writing, TreeTurn, LinkedFrom

LEMMA EnterTree ==
  ASSUME Walking, FrameTree(out, F),
         \/ EnterPrimitive \/ EnterTooDeep \/ EnterOverBudget \/ Enter \/ InspectBinary
         \/ InspectRefused \/ InspectBuffer \/ InspectFunction \/ Followed
  PROVE  TreeMoves
<1>1. F \in Frames
  BY WalkingIs
<1>2. \/ Raise /\ UNCHANGED out
      \/ Ends /\ UNCHANGED out
      \/ Ends /\ F.step \in {"enter", "inspect"} /\ \E what : Writes(what)
      \/ F.step = "enter" /\ UNCHANGED out /\ Turns([F EXCEPT !.step = "inspect"])
  BY Zenon DEF EnterPrimitive, EnterTooDeep, EnterOverBudget, Enter, InspectBinary,
     InspectRefused, InspectBuffer, InspectFunction, Followed, At, Inspecting
<1>3. CASE F.step = "enter" /\ UNCHANGED out /\ Turns([F EXCEPT !.step = "inspect"])
  <2>1. PICK f : f = [F EXCEPT !.step = "inspect"]
    OBVIOUS
  <2>2. SameCall(f) /\ f.step = "inspect" /\ f.linked = F.linked
    BY <1>1, <2>1, FIsSame, SameCalls DEF Frames
  <2>3. Writing /\ TreeTurn(f)
    BY <1>3, <2>1, <2>2, QuietTurn
  <2>4. QED
    BY <2>3 DEF TreeMoves
<1>4. CASE Ends /\ F.step \in {"enter", "inspect"} /\ \E what : Writes(what)
  <2>1. Writing
    BY <1>1, <1>4, OwnPlace
  <2>2. QED
    BY <1>4, <2>1 DEF TreeMoves
<1>5. QED
  BY <1>2, <1>3, <1>4 DEF TreeMoves, Writing

LEMMA FollowTree ==
  ASSUME Walking, FrameTree(out, F), FollowToJson
  PROVE  TreeMoves
<1>1. F \in Frames /\ HeapInv /\ Len(stack) \in Nat
  BY WalkingIs
<1>2. /\ F.step = "inspect" /\ Via # "none"
      /\ \/ Raise /\ UNCHANGED out
         \/ Ends /\ Writes("censor")
         \/ /\ UNCHANGED out
            /\ \E result \in heap[F.value].form :
                 Calls2([F EXCEPT !.step = "follow"],
                        Frame(result, F.path, F.depth + 1, TRUE, F.ser, F.owner))
  BY Zenon DEF FollowToJson, Inspecting, At, HonoursToJson
<1>3. F.value \in DOMAIN heap
  BY <1>2, WalkingIs DEF FrameOK
<1>4. ASSUME UNCHANGED out, NEW result \in heap[F.value].form,
             Calls2([F EXCEPT !.step = "follow"],
                    Frame(result, F.path, F.depth + 1, TRUE, F.ser, F.owner))
      PROVE  TreeMoves
  <2>1. PICK f : f = [F EXCEPT !.step = "follow"]
    OBVIOUS
  <2>2. SameCall(f) /\ f.step = "follow" /\ f.linked = F.linked
    BY <1>1, <2>1, FIsSame, SameCalls DEF Frames
  <2>3. PICK g : g = Frame(result, F.path, F.depth + 1, TRUE, F.ser, F.owner)
    OBVIOUS
  <2>4. /\ Began(g) /\ g.path = F.path /\ g.linked = Undefined /\ g.value = result
        /\ g.step = "enter"
    BY <2>3 DEF Frame, Began
  <2>5. result \notin NodeIds /\ Undefined \notin NodeIds
    <3>1. heap[F.value].form \subseteq AppValues
      BY <1>1, <1>3, ObjectsAre
    <3>2. QED
      BY <3>1, ValuesApart DEF Primitives
  <2>6. Under(F.path, F.path)
    <3>1. F.path \in Seq(Names)
      BY <1>1, FrameParts
    <3>2. QED
      BY <3>1, UnderOrder
  <2>7. f.path = F.path /\ f.value = F.value
    BY <2>2 DEF SameCall
  <2>8. FrameTree(out, f)
    BY <1>2, <2>2, <2>7 DEF FrameTree, OpenSteps, Via
  <2>9. FrameTree(out, g)
    BY <1>2, <2>4 DEF FrameTree, OpenSteps
  <2>10. Within(Len(stack), f, g)
    BY <2>2, <2>4, <2>5, <2>6, <2>7 DEF Within
  <2>11. Calls2(f, g)
    BY <1>4, <2>1, <2>3, Zenon
  <2>12. TreeCall(f, g)
    BY <2>2, <2>4, <2>5, <2>8, <2>9, <2>10, <2>11 DEF TreeCall
  <2>13. QED
    BY <1>4, <2>12 DEF TreeMoves
<1>5. CASE Ends /\ Writes("censor")
  <2>1. Writing
    BY <1>1, <1>2, <1>5, OwnPlace
  <2>2. QED
    BY <1>5, <2>1 DEF TreeMoves
<1>6. QED
  BY <1>2, <1>4, <1>5 DEF TreeMoves

LEMMA OpenTree ==
  ASSUME Walking, OutInv', FrameTree(out, F), Open
  PROVE  TreeMoves
<1>1. F \in Frames /\ HeapInv
  BY WalkingIs
<1>2. PICK what : what = IF IsArray(F.value) THEN "array"
                         ELSE IF IsError(F.value) /\ ~AsData(F) THEN "instance" ELSE "object"
  OBVIOUS
<1>3. /\ F.step = "inspect"
      /\ \/ Raise /\ UNCHANGED out
         \/ Writes(what) /\ Turns([F EXCEPT !.step = "fields", !.todo = heap[F.value].keys])
  BY <1>2, Zenon DEF Open, Inspecting, At
<1>4. F.value \in DOMAIN heap
  BY <1>3, WalkingIs DEF FrameOK
<1>5. PICK f : f = [F EXCEPT !.step = "fields", !.todo = heap[F.value].keys]
  OBVIOUS
<1>6. /\ SameCall(f) /\ f.step = "fields" /\ f.linked = F.linked
      /\ f.todo = heap[F.value].keys /\ f.path = F.path /\ f.value = F.value
  BY <1>1, <1>5, FIsSame, SameCalls DEF Frames
<1>7. ASSUME Writes(what)
      PROVE  Writing /\ FrameTree(out', f) /\ LinkedFrom(f)
  <2>1. PICK p \in Seq(Names) : p = F.path
    BY <1>1, FrameParts
  <2>2. /\ Writing /\ Replaces(p) /\ p \in DOMAIN out'
        /\ out'[p] = Entry(what, F.value, F.owner)
    BY <1>1, <1>3, <1>7, <2>1, OwnPlace
  <2>3. out'[p].of = F.value /\ out'[p].what = what
    BY <2>2, EntryParts
  <2>4. what # "markers"
    BY <1>2
  <2>5. ASSUME NEW k \in Names, NEW q \in DOMAIN out', Under(Append(p, k), q)
        PROVE  FALSE
    <3>1. PICK c : c = Append(p, k)
      OBVIOUS
    <3>2. c \in Seq(Names) /\ Under(p, c) /\ ~Under(c, p)
      BY <3>1, NameBelow
    <3>3. q \in Seq(Names)
      BY DEF OutInv
    <3>4. Under(p, q)
      BY <2>5, <3>1, <3>2, <3>3, UnderOrder
    <3>5. q = p
      BY <2>2, <2>3, <2>4, <3>4 DEF Replaces
    <3>6. QED
      BY <2>5, <3>1, <3>2, <3>5
  <2>6. PrefixesIn(out', p)
    <3> SUFFICES ASSUME NEW r \in Seq(Names), Under(r, p), r # p PROVE r \in DOMAIN out'
      BY DEF PrefixesIn
    <3>1. r \in DOMAIN out
      BY <2>1 DEF FrameTree, PrefixesIn
    <3>2. Under(p, p)
      BY UnderOrder
    <3>3. QED
      BY <2>2, <3>1, <3>2, ReplacedKeeps
  <2>7. OneEach(f.todo)
    BY <1>1, <1>4, <1>6, ObjectsAre
  <2>8. IsArray(f.value) => what = "array"
    BY <1>2, <1>6
  <2>9. CopyIn(out', f)
    BY <1>6, <2>1, <2>2, <2>3, <2>5, <2>7, <2>8 DEF CopyIn
  <2>10. FrameTree(out', f)
    BY <1>6, <2>1, <2>6, <2>9 DEF FrameTree
  <2>11. QED
    BY <1>6, <2>2, <2>10 DEF LinkedFrom
<1>8. CASE Writes(what) /\ Turns(f)
  <2>1. Writing /\ TreeTurn(f)
    <3>1. Writing /\ FrameTree(out', f) /\ LinkedFrom(f)
      BY <1>7, <1>8
    <3>2. QED
      BY <1>6, <1>8, <3>1 DEF TreeTurn
  <2>2. QED
    BY <2>1 DEF TreeMoves
<1>9. QED
  BY <1>3, <1>5, <1>8 DEF TreeMoves

\* A call is made for a key that had not been done.
LEMMA ChildTree ==
  ASSUME Walking, OutInv', FrameTree(out, F), CopyIn(out, F), UNCHANGED out,
         NEW k \in Names, ~KeyDone(F, k),
         NEW f, SameCall(f), f.linked = F.linked, f.step \in {"fields", "linked"},
         \A x \in Names : KeyDone(F, x) => KeyDone(f, x), KeyDone(f, k),
         OneEach(f.todo), f.step # "fields" => ~IsArray(F.value),
         f.step = "linked" => f.part \notin Elements(f.todo) /\ f.part # "stack",
         NEW g, Began(g), g.linked = Undefined, g.path = Append(F.path, k),
         g.value \in NodeIds =>
           (F.value \in NodeIds /\ g.value.base = F.value.base) \/ g.value = F.linked,
         Calls2(f, g)
  PROVE  TreeMoves
<1>1. F \in Frames
  BY WalkingIs
<1>2. PICK c : c = Append(F.path, k)
  OBVIOUS
<1>3. c \in Seq(Names) /\ Under(F.path, c) /\ PrefixesIn(out, c) /\ FreshIn(out, c)
  BY <1>1, <1>2, ChildPlace
<1>4. FrameTree(out', f)
  BY <1>1, CopyAfter DEF OpenSteps
<1>5. FrameTree(out, f)
  BY <1>4
<1>6. FrameTree(out, g)
  BY <1>2, <1>3 DEF FrameTree, Began, OpenSteps
<1>7. f.path = F.path
  BY DEF SameCall
<1>8. Under(c, c)
  BY <1>3, UnderOrder
<1>9. Within(Len(stack), f, g)
  BY <1>2, <1>3, <1>7, <1>8 DEF Within
<1>10. TreeCall(f, g)
  BY <1>5, <1>6, <1>9 DEF TreeCall
<1>11. QED
  BY <1>10 DEF TreeMoves

LEMMA NextKey ==
  ASSUME F \in Frames, CopyIn(out, F), F.todo # <<>>
  PROVE  /\ Head(F.todo) \in Names /\ Head(F.todo) \in Elements(F.todo) /\ ~KeyDone(F, Head(F.todo))
         /\ Tail(F.todo) \in Seq(Names) /\ OneEach(Tail(F.todo))
         /\ \A x : x \notin Elements(F.todo) => x \notin Elements(Tail(F.todo))
         /\ Head(F.todo) \notin Elements(Tail(F.todo))
<1>1. PICK s \in Seq(Names), n \in Nat \ {0} : s = F.todo /\ n = Len(s) /\ DOMAIN s = 1..n
  BY FrameParts, EmptySeq, LenProperties
<1>2. PICK k, t : k = Head(s) /\ t = Tail(s)
  OBVIOUS
<1>3. s # <<>>
  BY <1>1
<1>4. k \in Elements(s) /\ Elements(t) \subseteq Elements(s)
  BY <1>2, <1>3, TailElements
<1>5. k = s[1] /\ k \in Names /\ t \in Seq(Names) /\ Len(t) = n - 1 /\ \A i \in 1..(n - 1) : t[i] = s[i + 1]
  BY <1>1, <1>2, <1>3, HeadTailProperties
<1>6. DOMAIN t = 1..(n - 1)
  BY <1>5, LenProperties
<1>7. \A i, j \in 1..n : s[i] = s[j] => i = j
  BY <1>1 DEF CopyIn, OneEach
<1>8. OneEach(t)
  <2> SUFFICES ASSUME NEW i \in 1..(n - 1), NEW j \in 1..(n - 1), t[i] = t[j] PROVE i = j
    BY <1>6 DEF OneEach
  <2>1. i + 1 \in 1..n /\ j + 1 \in 1..n /\ s[i + 1] = s[j + 1]
    BY <1>1, <1>5
  <2>2. i + 1 = j + 1
    BY <1>7, <2>1
  <2>3. QED
    BY <2>2
<1>9. k \notin Elements(t)
  <2> SUFFICES ASSUME NEW i \in 1..(n - 1), t[i] = k PROVE FALSE
    BY <1>6 DEF Elements
  <2>1. i + 1 \in 1..n /\ 1 \in 1..n /\ s[i + 1] = s[1]
    BY <1>1, <1>5
  <2>2. i + 1 = 1
    BY <1>7, <2>1
  <2>3. QED
    BY <2>2
<1>10. QED
  BY <1>1, <1>2, <1>4, <1>5, <1>8, <1>9 DEF KeyDone

LEMMA ElementTree ==
  ASSUME Walking, OutInv', FrameTree(out, F), Element
  PROVE  TreeMoves
<1>1. F \in Frames /\ HeapInv /\ F.step = "fields" /\ F.todo # <<>> /\ IsArray(F.value)
  BY WalkingIs DEF Element, At
<1>2. CopyIn(out, F)
  BY <1>1 DEF FrameTree, OpenSteps
<1>3. PICK k \in Names : k = Head(F.todo) /\ ~KeyDone(F, k) /\ k \in Elements(F.todo)
  BY <1>1, <1>2, NextKey
<1>4. PICK todo \in Seq(Names) :
        /\ todo = Tail(F.todo) /\ OneEach(todo) /\ k \notin Elements(todo)
        /\ \A x : x \notin Elements(F.todo) => x \notin Elements(todo)
  BY <1>1, <1>2, <1>3, NextKey
<1>5. UNCHANGED out
  BY Zenon DEF Element
<1>6. \/ Raise
      \/ \E v \in Read(F.value, k) : Calls2([F EXCEPT !.todo = Tail(@)],
                    Frame(v, Append(F.path, k), F.depth + 1, TRUE, F.ser, Origin(F.value)))
  BY <1>3, Zenon DEF Element
<1>7. PICK f : f = [F EXCEPT !.todo = Tail(@)]
  OBVIOUS
<1>8. /\ SameCall(f) /\ f.step = "fields" /\ f.todo = todo /\ f.value = F.value
      /\ f.linked = F.linked /\ f.written = F.written
  BY <1>1, <1>4, <1>7, FIsSame, SameCalls DEF Frames
<1>9. (\A x \in Names : KeyDone(F, x) => KeyDone(f, x)) /\ KeyDone(f, k)
  BY <1>1, <1>4, <1>8 DEF KeyDone
<1>10. ASSUME NEW v \in Read(F.value, k),
              Calls2(f, Frame(v, Append(F.path, k), F.depth + 1, TRUE, F.ser, Origin(F.value)))
       PROVE  TreeMoves
  <2>1. PICK g : g = Frame(v, Append(F.path, k), F.depth + 1, TRUE, F.ser, Origin(F.value))
    OBVIOUS
  <2>2. Began(g) /\ g.path = Append(F.path, k) /\ g.linked = Undefined /\ g.value = v
    BY <2>1 DEF Frame, Began
  <2>3. v \in NodeIds => F.value \in NodeIds /\ v.base = F.value.base
    <3>1. F.value \in DOMAIN heap
      BY <1>1 DEF IsArray, IsKind, IsObject
    <3>2. QED
      BY <1>1, <1>10, <3>1, ReadsAre, ValuesApart
  <2>4. Calls2(f, g)
    BY <1>10, <2>1
  <2>5. OneEach(f.todo)
    BY <1>4, <1>8
  <2>6. QED
    BY <1>2, <1>3, <1>5, <1>8, <1>9, <2>2, <2>3, <2>4, <2>5, ChildTree
<1>11. QED
  BY <1>5, <1>6, <1>7, <1>10, Zenon DEF TreeMoves

LEMMA FieldTree ==
  ASSUME Walking, OutInv', FrameTree(out, F), Field
  PROVE  TreeMoves
<1>1. F \in Frames /\ HeapInv /\ F.step = "fields" /\ F.todo # <<>> /\ ~IsArray(F.value)
  BY WalkingIs DEF Field, At
<1>2. CopyIn(out, F)
  BY <1>1 DEF FrameTree, OpenSteps
<1>3. PICK k \in Names : k = Head(F.todo) /\ ~KeyDone(F, k) /\ k \in Elements(F.todo)
  BY <1>1, <1>2, NextKey
<1>4. PICK todo \in Seq(Names) :
        /\ todo = Tail(F.todo) /\ OneEach(todo) /\ k \notin Elements(todo)
        /\ \A x : x \notin Elements(F.todo) => x \notin Elements(todo)
  BY <1>1, <1>2, <1>3, NextKey
<1>5. PICK f, g : f = [F EXCEPT !.todo = Tail(@)] /\ g = [f EXCEPT !.written = @ \cup {k}]
  OBVIOUS
<1>6. /\ SameCall(f) /\ f.step = "fields" /\ f.todo = todo /\ f.value = F.value
      /\ f.linked = F.linked /\ f.written = F.written /\ DOMAIN f = DOMAIN F
  BY <1>1, <1>4, <1>5, FIsSame, SameCalls DEF Frames
<1>7. /\ SameCall(g) /\ g.step = "fields" /\ g.todo = todo /\ g.value = F.value
      /\ g.linked = F.linked /\ g.written = F.written \cup {k}
  <2>1. SameCall(g)
    BY <1>1, <1>5, <1>6, SameCalls
  <2>2. QED
    BY <1>1, <1>5, <1>6, <2>1 DEF Frames
<1>8. /\ \A x \in Names : KeyDone(F, x) => KeyDone(f, x) /\ KeyDone(g, x)
      /\ KeyDone(g, k)
  BY <1>1, <1>4, <1>6, <1>7 DEF KeyDone
<1>9. PICK c : c = Append(F.path, k)
  OBVIOUS
<1>10. /\ c \in Seq(Names) /\ FreshIn(out, c) /\ (Replaces(c) => Writing)
  BY <1>1, <1>2, <1>3, <1>9, ChildPlace
<1>11. PICK ser : ser = (F.ser \/ (~F.honor /\ k \in SerializedKeys))
  OBVIOUS
<1>12. PICK v \in Read(F.value, k) :
         \/ Raise /\ UNCHANGED out
         \/ Turns(f) /\ UNCHANGED out
         \/ Put(c, "censor", Text, Origin(F.value)) /\ Turns(g)
         \/ /\ Calls2(g, Frame(IF Scrubbed(F) THEN OwnFieldForLog(k, v)
                               ELSE IF IsError(F.value) THEN WithBinaryAsSize(v) ELSE v,
                               c, F.depth + 1, TRUE, ser, Origin(F.value)))
            /\ UNCHANGED out
  BY <1>3, <1>5, <1>9, <1>11, Zenon DEF Field
<1>13. OneEach(f.todo) /\ OneEach(g.todo)
  BY <1>4, <1>6, <1>7
<1>14. CASE Turns(f) /\ UNCHANGED out
  <2>1. FrameTree(out', f)
    BY <1>1, <1>2, <1>6, <1>8, <1>13, <1>14, CopyAfter DEF OpenSteps
  <2>2. TreeTurn(f)
    BY <1>6, <1>14, <2>1 DEF TreeTurn, LinkedFrom
  <2>3. QED
    BY <1>14, <2>2 DEF TreeMoves, Writing
<1>15. CASE Put(c, "censor", Text, Origin(F.value)) /\ Turns(g)
  <2>1. Replaces(c)
    BY <1>10, <1>15, PutReplaces DEF Put
  <2>2. FrameTree(out', g)
    BY <1>1, <1>2, <1>7, <1>8, <1>9, <1>13, <2>1, CopyAfter DEF OpenSteps
  <2>3. TreeTurn(g)
    BY <1>7, <1>15, <2>2 DEF TreeTurn, LinkedFrom
  <2>4. QED
    BY <1>10, <2>1, <2>3 DEF TreeMoves
<1>16. CASE /\ Calls2(g, Frame(IF Scrubbed(F) THEN OwnFieldForLog(k, v)
                               ELSE IF IsError(F.value) THEN WithBinaryAsSize(v) ELSE v,
                               c, F.depth + 1, TRUE, ser, Origin(F.value)))
            /\ UNCHANGED out
  <2>1. PICK held : held = IF Scrubbed(F) THEN OwnFieldForLog(k, v)
                           ELSE IF IsError(F.value) THEN WithBinaryAsSize(v) ELSE v
    OBVIOUS
  <2>2. held \in {v, CommandName, Text}
    BY <2>1 DEF OwnFieldForLog, WithBinaryAsSize
  <2>3. PICK h : h = Frame(held, c, F.depth + 1, TRUE, ser, Origin(F.value))
    OBVIOUS
  <2>4. Began(h) /\ h.path = c /\ h.linked = Undefined /\ h.value = held
    BY <2>3 DEF Frame, Began
  <2>5. held \in NodeIds => F.value \in NodeIds /\ held.base = F.value.base
    <3>1. F.value \in DOMAIN heap
      BY <1>1, <1>12, FieldReads
    <3>2. v \in NodeIds => F.value \in NodeIds /\ v.base = F.value.base
      BY <1>1, <1>12, <3>1, ReadsAre, ValuesApart
    <3>3. CommandName \notin NodeIds /\ Text \notin NodeIds
      BY ValuesApart DEF Primitives
    <3>4. QED
      BY <2>2, <3>2, <3>3
  <2>6. Calls2(g, h)
    BY <1>16, <2>1, <2>3, Zenon
  <2>7. QED
    BY <1>1, <1>2, <1>3, <1>7, <1>8, <1>9, <1>13, <1>16, <2>4, <2>5, <2>6, ChildTree
<1>17. QED
  BY <1>12, <1>14, <1>15, <1>16 DEF TreeMoves

\* The parts of an error are read one after the other.
LEMMA PartsAreDistinct ==
  ASSUME NEW f \in Frames, NEW t,
         t = Without(<<NameKey(f), "message", "stack", "cause", "errors">>, f.written)
  PROVE  t \in Seq(Names) /\ OneEach(t) /\ Elements(t) \cap f.written = {}
<1>1. PICK k : k = NameKey(f) /\ k \in {"name", "type"}
  BY DEF NameKey
<1>2. PICK s : s = <<k, "message", "stack", "cause", "errors">>
  OBVIOUS
<1>3. s \in Seq(Names)
  BY <1>1, <1>2, NamesAre
<1>4. OneEach(s)
  <2>1. /\ DOMAIN s = 1..5 /\ s[1] = k /\ s[2] = "message" /\ s[3] = "stack"
        /\ s[4] = "cause" /\ s[5] = "errors"
    BY <1>2
  <2>2. \A i \in 1..5 : i = 1 \/ i = 2 \/ i = 3 \/ i = 4 \/ i = 5
    OBVIOUS
  <2>3. \A i, j \in 1..5 : s[i] = s[j] => i = j
    BY <1>1, <2>1, <2>2
  <2>4. QED
    BY <2>1, <2>3 DEF OneEach
<1>5. t = Without(s, f.written)
  BY <1>1, <1>2
<1>6. QED
  BY <1>3, <1>4, <1>5, WithoutProperties

LEMMA PartForms ==
  ASSUME F \in Frames, NEW f, SameCall(f), DOMAIN f = DOMAIN F,
         NEW g, g = NextPart(f) \/ g = LostPart(f)
  PROVE  /\ SameCall(g) /\ g.step = "parts" /\ g.todo = f.todo /\ g.written = f.written
         /\ g.linked = Undefined /\ g.value = F.value /\ g.path = F.path
<1>1. SameCall(g)
  BY SameCalls
<1>2. PICK h : h = NextPart(f) /\ h = [f EXCEPT !.step = "parts", !.part = None,
                                                !.linked = Undefined, !.before = <<>>]
  BY DEF NextPart
<1>3. /\ h.step = "parts" /\ h.todo = f.todo /\ h.written = f.written /\ h.linked = Undefined
  BY <1>2 DEF Frames
<1>4. PICK l : l = LostPart(f) /\ l = [h EXCEPT !.incomplete = TRUE]
  BY <1>2 DEF LostPart
<1>7. l.step = "parts" /\ l.todo = f.todo /\ l.written = f.written /\ l.linked = Undefined
  BY <1>3, <1>4
<1>5. g.step = "parts" /\ g.todo = f.todo /\ g.written = f.written /\ g.linked = Undefined
  BY <1>2, <1>3, <1>4, <1>7
<1>6. QED
  BY <1>1, <1>5 DEF SameCall

LEMMA FieldsDoneTree ==
  ASSUME Walking, OutInv', FrameTree(out, F), FieldsDone
  PROVE  TreeMoves
<1>1. F \in Frames /\ F.step = "fields" /\ UNCHANGED out
  BY WalkingIs, Zenon DEF FieldsDone, At
<1>2. CopyIn(out, F)
  BY <1>1 DEF FrameTree, OpenSteps
<1>3. PICK t : t = Without(<<NameKey(F), "message", "stack", "cause", "errors">>, F.written)
  OBVIOUS
<1>4. t \in Seq(Names) /\ OneEach(t) /\ Elements(t) \cap F.written = {}
  BY <1>1, <1>3, PartsAreDistinct
<1>5. PICK f : f = [F EXCEPT !.step = "parts", !.todo = t]
  OBVIOUS
<1>6. Ends \/ (AsData(F) /\ Turns(f))
  BY <1>3, <1>5, Zenon DEF FieldsDone
<1>7. CASE AsData(F) /\ Turns(f)
  <2>1. SameCall(f) /\ f.step = "parts" /\ f.todo = t /\ f.linked = F.linked /\ f.written = F.written
    BY <1>1, <1>5, FIsSame, SameCalls DEF Frames
  <2>2. ~IsArray(F.value)
    BY <1>7 DEF AsData, IsError, IsArray, IsKind
  <2>3. f.value = F.value
    BY <2>1 DEF SameCall
  <2>4. \A x \in Names : KeyDone(F, x) => KeyDone(f, x)
    BY <1>1, <1>4, <2>1, <2>2, <2>3 DEF KeyDone
  <2>5. None \in Names
    BY BeginningIs
  <2>6. FrameTree(out', f)
    BY <1>1, <1>2, <1>4, <2>1, <2>2, <2>4, <2>5, CopyAfter DEF OpenSteps
  <2>7. TreeTurn(f)
    BY <1>7, <2>1, <2>6 DEF TreeTurn, LinkedFrom
  <2>8. QED
    BY <1>1, <2>7 DEF TreeMoves, Writing
<1>8. QED
  BY <1>1, <1>6, <1>7 DEF TreeMoves, Writing

LEMMA ReadPartTree ==
  ASSUME Walking, OutInv', FrameTree(out, F), TodoOK(F), ReadPart
  PROVE  TreeMoves
<1>1. F \in Frames /\ HeapInv /\ F.step = "parts" /\ F.todo # <<>>
  BY WalkingIs DEF ReadPart, At
<1>2. CopyIn(out, F) /\ ~IsArray(F.value) /\ F.value \in Graph /\ F.value \in DOMAIN heap
  BY <1>1, WalkingIs DEF FrameTree, OpenSteps, CopyIn, FrameOK
<1>3. PICK p \in Names : p = Head(F.todo) /\ ~KeyDone(F, p) /\ p \in Elements(F.todo)
  BY <1>1, <1>2, NextKey
<1>4. PICK todo \in Seq(Names) :
        /\ todo = Tail(F.todo) /\ OneEach(todo) /\ p \notin Elements(todo)
        /\ \A x : x \notin Elements(F.todo) => x \notin Elements(todo)
  BY <1>1, <1>2, <1>3, NextKey
<1>5. p \in PartKeys
  BY <1>1, <1>3 DEF TodoOK
<1>6. PICK f : f = [F EXCEPT !.todo = Tail(@), !.part = p]
  OBVIOUS
<1>7. /\ f = [F EXCEPT !.todo = todo, !.part = p] /\ DOMAIN f = DOMAIN F
      /\ SameCall(f) /\ f.todo = todo /\ f.part = p /\ f.value = F.value /\ f.path = F.path
      /\ f.written = F.written /\ f.step = F.step
  BY <1>1, <1>4, <1>6, FIsSame, SameCalls DEF Frames
<1>8. PICK c : c = Append(F.path, p)
  OBVIOUS
<1>9. c \in Seq(Names) /\ FreshIn(out, c) /\ (Replaces(c) => Writing)
  BY <1>1, <1>2, <1>3, <1>8, ChildPlace
<1>10. PartPath(f) = c
  BY <1>7, <1>8 DEF PartPath
\* The next part.
<1>11. ASSUME NEW g, g = NextPart(f) \/ g = LostPart(f),
              UNCHANGED out \/ Replaces(c), Turns(g)
       PROVE  TreeMoves
  <2>1. /\ SameCall(g) /\ g.step = "parts" /\ g.todo = todo /\ g.written = F.written
        /\ g.linked = Undefined /\ g.value = F.value
    <3>1. /\ SameCall(g) /\ g.step = "parts" /\ g.todo = f.todo /\ g.written = f.written
          /\ g.linked = Undefined /\ g.value = F.value
      <4>1. F \in Frames /\ SameCall(f) /\ DOMAIN f = DOMAIN F
        BY <1>1, <1>7
      <4>2. g = NextPart(f) \/ g = LostPart(f)
        BY <1>11
      <4>3. QED
        BY <4>1, <4>2, PartForms
    <3>2. QED
      BY <1>7, <3>1
  <2>2. (\A x \in Names : KeyDone(F, x) => KeyDone(g, x)) /\ KeyDone(g, p)
    BY <1>1, <1>4, <1>5, <2>1 DEF KeyDone
  <2>3. FrameTree(out', g)
    BY <1>1, <1>2, <1>4, <1>8, <1>11, <2>1, <2>2, CopyAfter DEF OpenSteps
  <2>4. LinkedFrom(g)
    BY <2>1, ValuesApart DEF LinkedFrom, Primitives
  <2>5. TreeTurn(g)
    BY <1>11, <2>1, <2>3, <2>4 DEF TreeTurn
  <2>6. Writing
    BY <1>9, <1>11 DEF Writing
  <2>7. QED
    BY <2>5, <2>6 DEF TreeMoves
\* A link.
<1>12. ASSUME NEW w, p # "stack", UNCHANGED out, w \in NodeIds => w.base = Len(stack),
              Turns([f EXCEPT !.step = "link", !.linked = w])
       PROVE  TreeMoves
  <2>1. PICK g : g = [f EXCEPT !.step = "link", !.linked = w]
    OBVIOUS
  <2>2. /\ SameCall(g) /\ g.step = "link" /\ g.todo = todo /\ g.written = F.written
        /\ g.linked = w /\ g.part = p /\ g.value = F.value
    BY <1>1, <1>7, <2>1, SameCalls DEF Frames
  <2>3. \A x \in Names : KeyDone(F, x) => KeyDone(g, x)
    BY <1>1, <1>3, <1>4, <2>2 DEF KeyDone
  <2>4. FrameTree(out', g)
    BY <1>1, <1>2, <1>3, <1>4, <1>12, <2>2, <2>3, CopyAfter DEF OpenSteps
  <2>5. TreeTurn(g)
    BY <1>12, <2>1, <2>2, <2>4 DEF TreeTurn, LinkedFrom
  <2>6. QED
    BY <1>12, <2>5 DEF TreeMoves, Writing
<1>13. PICK v \in Read(F.value, IF p = "type" THEN "name" ELSE p) :
         \/ (Turns(LostPart(f)) \/ Turns(NextPart(f))) /\ UNCHANGED out
         \/ Put(c, IF Covered(p) THEN "censor" ELSE "leaf", Text, Origin(F.value)) /\ Turns(NextPart(f))
         \/ p # "stack" /\ UNCHANGED out /\ Turns([f EXCEPT !.step = "link", !.linked = v])
         \/ p = "errors" /\ UNCHANGED out /\ Turns([f EXCEPT !.step = "link", !.linked = CappedId])
  BY <1>3, <1>6, <1>10, Zenon DEF ReadPart
<1>14. CASE (Turns(LostPart(f)) \/ Turns(NextPart(f))) /\ UNCHANGED out
  BY <1>11, <1>14
<1>15. CASE Put(c, IF Covered(p) THEN "censor" ELSE "leaf", Text, Origin(F.value)) /\ Turns(NextPart(f))
  <2>1. Replaces(c)
    BY <1>9, <1>15, PutReplaces DEF Put
  <2>2. QED
    BY <1>11, <1>15, <2>1
<1>16. CASE p # "stack" /\ UNCHANGED out /\ Turns([f EXCEPT !.step = "link", !.linked = v])
  <2>1. v \notin NodeIds
    BY <1>1, <1>2, <1>13, ReadsAre, ValuesApart
  <2>2. QED
    BY <1>12, <1>16, <2>1
<1>17. CASE p = "errors" /\ UNCHANGED out /\ Turns([f EXCEPT !.step = "link", !.linked = CappedId])
  <2>1. CappedId \in NodeIds /\ CappedId.base = Len(stack)
    BY CappedIdIs
  <2>2. QED
    BY <1>12, <1>17, <2>1
<1>18. QED
  BY <1>13, <1>14, <1>15, <1>16, <1>17

\* A call that has done with a part goes on with the next.
LEMMA NextPartTree ==
  ASSUME Walking, OutInv', FrameTree(out, F), TodoOK(F), F.step \in {"link", "linked"},
         NEW c, c = Append(F.path, F.part), UNCHANGED out \/ Replaces(c),
         NEW g, g = NextPart(F) \/ g = LostPart(F), Turns(g)
  PROVE  TreeMoves
<1>1. F \in Frames /\ CopyIn(out, F) /\ ~IsArray(F.value) /\ SameCall(F)
  BY WalkingIs, FIsSame DEF FrameTree, OpenSteps, CopyIn
<1>2. PICK p \in Names : p = F.part /\ p \in PartKeys /\ p \notin Elements(F.todo)
  BY <1>1, FrameParts DEF TodoOK, CopyIn
<1>3. /\ SameCall(g) /\ g.step = "parts" /\ g.todo = F.todo /\ g.written = F.written
      /\ g.linked = Undefined /\ g.value = F.value
  BY <1>1, PartForms
<1>4. (\A x \in Names : KeyDone(F, x) => KeyDone(g, x)) /\ KeyDone(g, p)
  BY <1>1, <1>2, <1>3 DEF KeyDone
<1>5. c = Append(F.path, p)
  BY <1>2
<1>6. OneEach(g.todo)
  BY <1>1, <1>3 DEF CopyIn
<1>7. FrameTree(out', g)
  BY <1>1, <1>2, <1>3, <1>4, <1>5, <1>6, CopyAfter DEF OpenSteps
<1>8. LinkedFrom(g)
  BY <1>3, ValuesApart DEF LinkedFrom, Primitives
<1>9. TreeTurn(g)
  BY <1>3, <1>7, <1>8 DEF TreeTurn
<1>10. Replaces(c) => Writing
  BY <1>1, <1>2, <1>5, ChildPlace
<1>11. Writing
  BY <1>10 DEF Writing
<1>12. QED
  BY <1>9, <1>11 DEF TreeMoves

LEMMA LinkTree ==
  ASSUME Walking, OutInv', FrameTree(out, F), TodoOK(F), Link
  PROVE  TreeMoves
<1>1. F \in Frames /\ F.step = "link"
  BY WalkingIs DEF Link, At
<1>2. CopyIn(out, F) /\ ~IsArray(F.value)
  BY <1>1 DEF FrameTree, OpenSteps, CopyIn
<1>3. PICK p \in Names : /\ p = F.part /\ p \in PartKeys /\ p \notin Elements(F.todo)
                         /\ p # "stack" /\ ~KeyDone(F, p)
  BY <1>1, <1>2, FrameParts DEF TodoOK, CopyIn, KeyDone
<1>4. PICK c : c = Append(F.path, p) /\ c = PartPath(F)
  BY <1>3 DEF PartPath
<1>5. c \in Seq(Names) /\ FreshIn(out, c) /\ (Replaces(c) => Writing)
  BY <1>1, <1>2, <1>3, <1>4, ChildPlace
<1>6. PICK reading \in LinkReadings :
        \/ Turns(LostPart(F)) /\ UNCHANGED out
        \/ /\ Turns(NextPart(F))
           /\ \/ out' = Assign(out, c, Entry("censor", Text, Origin(F.value)))
              \/ out' = Over(LevelMarkers(F, reading), out)
        \/ /\ UNCHANGED out
           /\ \E b : Calls2([F EXCEPT !.step = "linked", !.before = b],
                            Frame(F.linked, c, F.depth + 1, TRUE, F.ser, Origin(F.value)))
  BY <1>4, Zenon DEF Link, LinkReadings
<1>7. c = Append(F.path, F.part)
  BY <1>3, <1>4
<1>8. CASE Turns(LostPart(F)) /\ UNCHANGED out
  BY <1>1, <1>7, <1>8, NextPartTree
<1>9. CASE Turns(NextPart(F)) /\ out' = Assign(out, c, Entry("censor", Text, Origin(F.value)))
  <2>1. Replaces(c)
    BY <1>5, <1>9, PutReplaces
  <2>2. QED
    BY <1>1, <1>7, <1>9, <2>1, NextPartTree
<1>10. CASE Turns(NextPart(F)) /\ out' = Over(LevelMarkers(F, reading), out)
  <2>1. IsArray(F.linked) => DOMAIN reading \subseteq Names
    BY LinkReadingIs
  <2>2. Replaces(c)
    BY <1>4, <1>5, <1>10, <2>1, MarkersReplace
  <2>3. QED
    BY <1>1, <1>7, <1>10, <2>2, NextPartTree
<1>11. ASSUME UNCHANGED out, NEW b,
              Calls2([F EXCEPT !.step = "linked", !.before = b],
                     Frame(F.linked, c, F.depth + 1, TRUE, F.ser, Origin(F.value)))
       PROVE  TreeMoves
  <2>1. PICK f : f = [F EXCEPT !.step = "linked", !.before = b]
    OBVIOUS
  <2>2. /\ SameCall(f) /\ f.step = "linked" /\ f.todo = F.todo /\ f.written = F.written
        /\ f.linked = F.linked /\ f.part = p /\ f.value = F.value
    BY <1>1, <1>3, <2>1, FIsSame, SameCalls DEF Frames
  <2>3. PICK g : g = Frame(F.linked, c, F.depth + 1, TRUE, F.ser, Origin(F.value))
    OBVIOUS
  <2>4. Began(g) /\ g.path = c /\ g.linked = Undefined /\ g.value = F.linked
    BY <2>3 DEF Frame, Began
  <2>5. (\A x \in Names : KeyDone(F, x) => KeyDone(f, x)) /\ KeyDone(f, p)
    BY <1>1, <1>3, <2>2 DEF KeyDone
  <2>6. OneEach(f.todo)
    BY <1>2, <2>2 DEF CopyIn
  <2>7. Calls2(f, g)
    BY <1>11, <2>1, <2>3, Zenon
  <2>8. f.part \notin Elements(f.todo) /\ f.part # "stack"
    BY <1>3, <2>2
  <2>9. g.path = Append(F.path, p)
    BY <1>4, <2>4
  <2>10. QED
    BY <1>2, <1>3, <1>11, <2>2, <2>4, <2>5, <2>6, <2>7, <2>8, <2>9, ChildTree
<1>12. QED
  BY <1>6, <1>8, <1>9, <1>10, <1>11

LEMMA LinkedTree ==
  ASSUME Walking, OutInv', FrameTree(out, F), TodoOK(F), Linked \/ CatchPart
  PROVE  TreeMoves
<1>1. F \in Frames /\ F.step = "linked" /\ F.part \in Names
  BY WalkingIs, FrameParts DEF Linked, CatchPart, At
<1>2. PICK c : c = Append(F.path, F.part) /\ c = PartPath(F)
  BY DEF PartPath
<1>3. c \in Seq(Names)
  BY <1>1, <1>2, PartPathIs
<1>4. /\ Turns(NextPart(F)) \/ Turns(LostPart(F))
      /\ \/ UNCHANGED out
         \/ out' = Assign(Dropped(c), c, Entry("censor", Text, Origin(F.value)))
         \/ out' = Dropped(c)
  BY <1>2, Zenon DEF Linked, CatchPart
<1>5. UNCHANGED out \/ Replaces(c)
  <2>1. CASE out' = Assign(Dropped(c), c, Entry("censor", Text, Origin(F.value)))
    <3>1. PICK e : e = Entry("censor", Text, Origin(F.value))
      OBVIOUS
    <3>2. out' = Assign(Dropped(c), c, e)
      BY <2>1, <3>1
    <3>3. PICK o : o = Dropped(c)
      OBVIOUS
    <3>4. QED
      BY <1>3, <3>2, <3>3, PutReplaces
  <2>2. CASE out' = Dropped(c)
    BY <2>2, DropReplaces
  <2>3. QED
    BY <1>4, <2>1, <2>2
<1>6. QED
  BY <1>1, <1>2, <1>4, <1>5, NextPartTree

LEMMA PartsDoneTree ==
  ASSUME Walking, FrameTree(out, F), PartsDone
  PROVE  TreeMoves
<1>1. F \in Frames /\ F.step = "parts" /\ F.todo = <<>> /\ Ends
  BY WalkingIs, Zenon DEF PartsDone, At
<1>2. CopyIn(out, F) /\ ~IsArray(F.value)
  BY <1>1 DEF FrameTree, OpenSteps, CopyIn
<1>3. PICK k \in Names : k = INCOMPLETE_KEY /\ k \notin PartKeys
  BY NamesAre DEF INCOMPLETE_KEY, PartKeys
<1>4. PICK c : c = Append(F.path, k)
  OBVIOUS
<1>5. \/ UNCHANGED out
      \/ k \notin F.written /\ Put(c, "leaf", Text, Origin(F.value))
  BY <1>3, <1>4, Zenon DEF PartsDone
<1>6. CASE k \notin F.written /\ Put(c, "leaf", Text, Origin(F.value))
  <2>1. ~KeyDone(F, k)
    BY <1>1, <1>2, <1>3, <1>6 DEF KeyDone
  <2>2. c \in Seq(Names) /\ FreshIn(out, c) /\ (Replaces(c) => Writing)
    BY <1>1, <1>2, <1>4, <2>1, ChildPlace
  <2>3. Replaces(c)
    BY <1>6, <2>2, PutReplaces DEF Put
  <2>4. QED
    BY <1>1, <2>2, <2>3 DEF TreeMoves
<1>7. QED
  BY <1>1, <1>5, <1>6 DEF TreeMoves, Writing

LEMMA CatchErrorTree ==
  ASSUME Walking, FrameTree(out, F), CatchError
  PROVE  TreeMoves
<1>1. F \in Frames
  BY WalkingIs
<1>2. PICK p \in Seq(Names) : p = F.path
  BY <1>1, FrameParts
<1>3. PICK f : f = [F EXCEPT !.step = "degraded"]
  OBVIOUS
<1>4. out' = Dropped(p) /\ Turns(f)
  BY <1>2, <1>3, Zenon DEF CatchError
<1>5. SameCall(f) /\ f.step = "degraded" /\ f.linked = F.linked /\ f.path = p
  BY <1>1, <1>2, <1>3, FIsSame, SameCalls DEF Frames
<1>6. Replaces(p) /\ FreshIn(out', p)
  BY <1>4, DropReplaces
<1>7. PrefixesIn(out, p) /\ Under(p, p)
  BY <1>2, UnderOrder DEF FrameTree
<1>8. PrefixesIn(out', p)
  <2> SUFFICES ASSUME NEW r \in Seq(Names), Under(r, p), r # p PROVE r \in DOMAIN out'
    BY DEF PrefixesIn
  <2>1. r \in DOMAIN out
    BY <1>7 DEF PrefixesIn
  <2>2. QED
    BY <1>6, <1>7, <2>1, ReplacedKeeps
<1>9. Writing
  BY <1>2, <1>6, <1>7 DEF Writing
<1>10. FrameTree(out', f)
  BY <1>5, <1>6, <1>8 DEF FrameTree, OpenSteps
<1>11. TreeTurn(f)
  BY <1>4, <1>5, <1>10 DEF TreeTurn, LinkedFrom
<1>12. QED
  BY <1>9, <1>11 DEF TreeMoves

LEMMA UnwindTree ==
  ASSUME Walking, Unwind
  PROVE  TreeMoves
<1>1. /\ Ends
      /\ \/ UNCHANGED out
         \/ Len(stack) = 1 /\ out' = [q \in {<<>>} |-> Entry("envelope", Record, Record)]
  BY Zenon DEF Unwind
<1>2. CASE Len(stack) = 1 /\ out' = [q \in {<<>>} |-> Entry("envelope", Record, Record)]
  <2>1. DOMAIN out' = {<<>>}
    BY <1>2
  <2>2. \A q \in Seq(Names) : Under(<<>>, q)
    BY RootIsAbove
  <2>3. Replaces(<<>>)
    BY <2>1, <2>2 DEF Replaces
  <2>4. QED
    BY <1>1, <1>2, <2>1, <2>3 DEF TreeMoves
<1>3. QED
  BY <1>1, <1>2 DEF TreeMoves, Writing

LEMMA TreeMovesAre ==
  ASSUME Types, Types', Walk, ~WalkDegraded,
         Walking => TodoOK(F) /\ FrameTree(out, F)
  PROVE  Walking /\ TreeMoves
<1>1. Walking /\ TodoOK(F) /\ FrameTree(out, F)
  BY WalkShape
<1>2. OutInv'
  BY DEF Types
<1>3. CASE \/ EnterPrimitive \/ EnterTooDeep \/ EnterOverBudget \/ Enter \/ InspectBinary
           \/ InspectRefused \/ InspectBuffer \/ InspectFunction \/ Followed
  BY <1>1, <1>3, EnterTree
<1>4. CASE FollowToJson
  BY <1>1, <1>4, FollowTree
<1>5. CASE Open
  BY <1>1, <1>2, <1>5, OpenTree
<1>6. CASE Element
  BY <1>1, <1>2, <1>6, ElementTree
<1>7. CASE Field
  BY <1>1, <1>2, <1>7, FieldTree
<1>8. CASE FieldsDone
  BY <1>1, <1>2, <1>8, FieldsDoneTree
<1>9. CASE ReadPart
  BY <1>1, <1>2, <1>9, ReadPartTree
<1>10. CASE Link
  BY <1>1, <1>2, <1>10, LinkTree
<1>11. CASE Linked \/ CatchPart
  BY <1>1, <1>2, <1>11, LinkedTree
<1>12. CASE PartsDone
  BY <1>1, <1>12, PartsDoneTree
<1>13. CASE CatchError
  BY <1>1, <1>13, CatchErrorTree
<1>14. CASE Unwind
  BY <1>1, <1>14, UnwindTree
<1>15. QED
  BY <1>1, <1>3, <1>4, <1>5, <1>6, <1>7, <1>8, <1>9, <1>10, <1>11, <1>12, <1>13, <1>14, Zenon DEF Walk

\* The calls in progress, the innermost one first.
LEMMA CallsAreTree ==
  ASSUME Types, stack # <<>>, TreeInv
  PROVE  /\ Len(stack) \in Nat \ {0} /\ DOMAIN stack = 1..Len(stack) /\ F = stack[Len(stack)]
         /\ F \in Frames /\ FrameTree(out, F)
         /\ \A i \in 1..(Len(stack) - 1) :
              /\ i \in DOMAIN stack /\ stack[i] \in Frames /\ stack[i].step \in Waiting
              /\ FrameTree(out, stack[i]) /\ Within(i, stack[i], F)
<1>1. StackInv
  BY DEF Types
<1>2. /\ Len(stack) \in Nat \ {0} /\ DOMAIN stack = 1..Len(stack) /\ F = stack[Len(stack)]
      /\ F \in Frames
      /\ \A i \in 1..(Len(stack) - 1) :
              /\ i \in DOMAIN stack /\ i # Len(stack) /\ stack[i] \in Frames
              /\ stack[i].step \in Waiting
  BY <1>1, FIs
<1>3. PICK n \in Nat \ {0} : n = Len(stack)
  BY <1>2
<1>4. n \in DOMAIN stack /\ F = stack[n] /\ \A i \in 1..(n - 1) : i \in DOMAIN stack /\ i < n
  <2>1. DOMAIN stack = 1..n
    BY <1>2, <1>3
  <2>2. n \in 1..n /\ \A i \in 1..(n - 1) : i \in 1..n /\ i < n
    OBVIOUS
  <2>3. F = stack[n]
    BY <1>2, <1>3
  <2>4. QED
    BY <2>1, <2>2, <2>3
<1>5. \A i \in DOMAIN stack : FrameTree(out, stack[i])
  BY DEF TreeInv, Callers
<1>6. FrameTree(out, F)
  BY <1>4, <1>5
<1>7. \A i \in 1..(n - 1) : Within(i, stack[i], F)
  BY <1>4 DEF TreeInv
<1>8. QED
  BY <1>2, <1>3, <1>4, <1>5, <1>6, <1>7

\* Every step writes in one place, whose beginnings are in the copy.
OnePlace == UNCHANGED out \/ \E p \in Seq(Names) : PrefixesIn(out, p) /\ Replaces(p)

LEMMA RootHasNoneAbove ==
  ASSUME NEW o
  PROVE  PrefixesIn(o, <<>>)
<1>1. \A r \in Seq(Names) : Under(r, <<>>) => r = <<>>
  BY RootIsAbove
<1>2. QED
  BY <1>1 DEF PrefixesIn

LEMMA StepsWriteOnce ==
  ASSUME Types, Types', PolicyInv, TreeInv, [Next]_vars
  PROVE  OnePlace
<1>1. CASE Walk /\ ~WalkDegraded
  <2>1. Walking
    BY <1>1, WalkShape
  <2>2. F \in Callers /\ FrameTree(out, F)
    BY <2>1, CallsAreTree DEF Walking, Callers
  <2>3. TodoOK(F)
    BY <2>2 DEF PolicyInv, PolicyFrame
  <2>4. TreeMoves
    BY <1>1, <2>2, <2>3, TreeMovesAre
  <2>5. UNCHANGED out \/ Writing \/ Replaces(<<>>)
    BY <2>4 DEF TreeMoves
  <2>6. QED
    BY <2>5, RootHasNoneAbove, BeginningIs DEF Writing, OnePlace
<1>2. CASE WalkDegraded \/ Sanitize \/ Serialized \/ UNCHANGED vars
  BY <1>2 DEF WalkDegraded, Sanitize, Serialized, vars, walkVars, OnePlace
<1>3. QED
  BY <1>1, <1>2 DEF Next

LEMMA CopyStaysATree ==
  ASSUME Types, Types', PolicyInv, TreeInv, [Next]_vars, NEW q \in DOMAIN out'
  PROVE  PrefixesIn(out', q)
<1>1. OnePlace
  BY StepsWriteOnce
<1>2. \A x \in DOMAIN out : PrefixesIn(out, x)
  BY DEF TreeInv
<1>3. CASE UNCHANGED out
  BY <1>2, <1>3
<1>4. ASSUME NEW p \in Seq(Names), PrefixesIn(out, p), Replaces(p)
      PROVE  PrefixesIn(out', q)
  BY <1>2, <1>4, PrefixStays DEF PrefixesIn, Types
<1>5. QED
  BY <1>1, <1>3, <1>4 DEF OnePlace

\* The calls around, after a step that writes below the innermost.
LEMMA AroundTree ==
  ASSUME Types, Types', stack # <<>>, TreeInv, Writing, NEW i \in 1..(Len(stack) - 1)
  PROVE  FrameTree(out', stack[i])
<1>1. PICK f : f = stack[i]
  OBVIOUS
<1>2. /\ f \in Frames /\ f.step \in Waiting /\ FrameTree(out, f) /\ Within(i, f, F) /\ F \in Frames
  BY <1>1, CallsAreTree
<1>3. ASSUME NEW p \in Seq(Names), Under(F.path, p), Replaces(p)
      PROVE  FrameTree(out', f)
  <2>1. OutInv /\ OutInv'
    BY DEF Types
  <2>2. QED
    BY <1>2, <1>3, <2>1, OuterTree
<1>4. QED
  BY <1>1, <1>2, <1>3 DEF Writing

\* What is within the innermost call is within those around it.
LEMMA WithinTurn ==
  ASSUME NEW i \in Nat, i < Len(stack), NEW e \in Frames, Within(i, e, F), NEW f, SameCall(f),
         LinkedFrom(f)
  PROVE  Within(i, e, f)
<1>1. f.path = F.path /\ f.value = F.value
  BY DEF SameCall
<1>2. f.linked \in NodeIds => f.linked = F.linked \/ f.linked.base = Len(stack)
  BY DEF LinkedFrom
<1>3. e.step = "follow" => (f.linked \in NodeIds => f.linked.base > i)
  BY <1>2 DEF Within
<1>4. QED
  BY <1>1, <1>3 DEF Within

LEMMA WithinCall ==
  ASSUME NEW i \in Nat, NEW e \in Frames, Within(i, e, F), F \in Frames, NEW f, NEW g,
         TreeCall(f, g), g.path \in Seq(Names)
  PROVE  Within(i, e, g)
<1>1. PICK a, b, c \in Seq(Names) : a = e.path /\ b = F.path /\ c = g.path
  BY FrameParts
<1>2. Under(b, c)
  BY <1>1 DEF TreeCall, Within, SameCall
<1>3. Under(a, c)
  BY <1>1, <1>2, UnderOrder DEF Within
<1>4. ASSUME e.step # "follow"
      PROVE  \E k \in Names : Under(Append(a, k), c) /\ KeyDone(e, k)
  <2>1. PICK k \in Names : Under(Append(a, k), b) /\ KeyDone(e, k)
    BY <1>1, <1>4 DEF Within
  <2>2. PICK d \in Seq(Names) : d = Append(a, k)
    BY <1>1, <2>1, AppendProperties
  <2>3. Under(d, c)
    BY <1>1, <1>2, <2>1, <2>2, UnderOrder
  <2>4. QED
    BY <2>1, <2>2, <2>3
<1>5. ASSUME e.step = "follow"
      PROVE  /\ g.value \in NodeIds => g.value.base > i
             /\ g.linked \in NodeIds => g.linked.base > i
  <2>1. /\ F.value \in NodeIds => F.value.base > i
        /\ F.linked \in NodeIds => F.linked.base > i
    BY <1>5 DEF Within
  <2>2. g.linked = Undefined
    BY DEF TreeCall
  <2>3. g.linked \notin NodeIds
    BY <2>2, ValuesApart DEF Primitives
  <2>4. g.value \in NodeIds =>
          (F.value \in NodeIds /\ g.value.base = F.value.base) \/ g.value = F.linked
    BY DEF TreeCall
  <2>5. QED
    BY <2>1, <2>3, <2>4
<1>6. QED
  BY <1>1, <1>3, <1>4, <1>5 DEF Within

\* The calls after a step, and how each is within those around it, told of the heap before.
TreeAfter ==
  /\ \A i \in DOMAIN stack' : FrameTree(out', stack'[i])
  /\ \A i, j \in DOMAIN stack' : i < j => Within(i, stack'[i], stack'[j])

LEMMA OldPairs ==
  ASSUME TreeInv
  PROVE  \A i, j \in DOMAIN stack : i < j => Within(i, stack[i], stack[j])
BY DEF TreeInv

LEMMA EndsTree ==
  ASSUME Types, Types', stack # <<>>, TreeInv, Ends, Writing \/ Len(stack) = 1
  PROVE  TreeAfter
<1>1. PICK n \in Nat \ {0} : n = Len(stack) /\ DOMAIN stack = 1..n
  BY CallsAreTree
<1>2. StackInv
  BY DEF Types
<1>3. DOMAIN stack' = 1..(n - 1) /\ \A i \in 1..(n - 1) : stack'[i] = stack[i] /\ i \in DOMAIN stack
  BY <1>1, <1>2, EndsShape
<1>4. ASSUME NEW i \in 1..(n - 1) PROVE FrameTree(out', stack[i])
  <2>1. Writing
    BY <1>1, <1>4
  <2>2. QED
    BY <1>1, <1>4, <2>1, AroundTree
<1>5. QED
  BY <1>3, <1>4, OldPairs DEF TreeAfter

LEMMA TurnsTree ==
  ASSUME Types, Types', stack # <<>>, TreeInv, Writing, NEW f, Turns(f), FrameTree(out', f),
         \A i \in 1..(Len(stack) - 1) : Within(i, stack[i], f)
  PROVE  TreeAfter
<1>1. PICK n \in Nat \ {0} : n = Len(stack) /\ DOMAIN stack = 1..n
  BY CallsAreTree
<1>2. StackInv
  BY DEF Types
<1>3. DOMAIN stack' = 1..n /\ stack'[n] = f /\ \A i \in 1..(n - 1) : stack'[i] = stack[i]
  BY <1>1, <1>2, TurnsShape
<1>4. \A i \in 1..(n - 1) : FrameTree(out', stack[i])
  BY <1>1, AroundTree
<1>5. \A i \in 1..n : i = n \/ i \in 1..(n - 1)
  OBVIOUS
<1>6. \A i \in 1..n : FrameTree(out', stack'[i])
  BY <1>3, <1>4, <1>5
<1>7. ASSUME NEW i \in 1..n, NEW j \in 1..n, i < j PROVE Within(i, stack'[i], stack'[j])
  <2>1. i \in 1..(n - 1) /\ stack'[i] = stack[i]
    BY <1>3, <1>7
  <2>2. CASE j = n
    BY <1>1, <1>3, <2>1, <2>2
  <2>3. CASE j # n
    <3>1. j \in 1..(n - 1) /\ stack'[j] = stack[j]
      BY <1>3, <1>5, <2>3
    <3>2. Within(i, stack[i], stack[j])
      BY <1>1, <1>7, OldPairs
    <3>3. QED
      BY <2>1, <3>1, <3>2
  <2>4. QED
    BY <2>2, <2>3
<1>8. QED
  BY <1>3, <1>6, <1>7 DEF TreeAfter

LEMMA CallsTree ==
  ASSUME Types, Types', stack # <<>>, TreeInv, UNCHANGED out, NEW f, NEW g, TreeCall(f, g)
  PROVE  TreeAfter
<1>1. PICK n \in Nat \ {0} : n = Len(stack) /\ DOMAIN stack = 1..n
  BY CallsAreTree
<1>2. StackInv /\ Calls2(f, g) /\ StackInv'
  BY DEF Types, TreeCall
<1>3. /\ DOMAIN stack' = 1..(n + 1) /\ stack'[n] = f /\ stack'[n + 1] = g
      /\ \A i \in 1..(n - 1) : stack'[i] = stack[i]
  BY <1>1, <1>2, CallsShape
<1>4. g \in Frames
  <2>1. n + 1 \in DOMAIN stack'
    BY <1>3
  <2>2. QED
    BY <1>2, <1>3, <2>1, ElementOfSeq DEF StackInv
<1>5. F \in Frames /\ \A i \in 1..(n - 1) : stack[i] \in Frames /\ FrameTree(out, stack[i]) /\ Within(i, stack[i], F)
  BY <1>1, CallsAreTree
<1>6. FrameTree(out, f) /\ FrameTree(out, g)
  BY DEF TreeCall
<1>7. \A i \in 1..(n + 1) : i = n \/ i = n + 1 \/ i \in 1..(n - 1)
  OBVIOUS
<1>8. \A i \in 1..(n + 1) : FrameTree(out', stack'[i])
  BY <1>3, <1>5, <1>6, <1>7
<1>9. LinkedFrom(f) /\ SameCall(f)
  BY DEF TreeCall, LinkedFrom
<1>10. \A i \in 1..(n - 1) : Within(i, stack[i], f)
  <2> SUFFICES ASSUME NEW i \in 1..(n - 1) PROVE Within(i, stack[i], f)
    OBVIOUS
  <2>1. i \in Nat /\ i < Len(stack)
    BY <1>1
  <2>2. QED
    BY <1>5, <1>9, <2>1, WithinTurn
<1>11. \A i \in 1..(n - 1) : Within(i, stack[i], g)
  <2> SUFFICES ASSUME NEW i \in 1..(n - 1) PROVE Within(i, stack[i], g)
    OBVIOUS
  <2>1. i \in Nat /\ g.path \in Seq(Names)
    BY <1>4, FrameParts
  <2>2. QED
    BY <1>5, <2>1, WithinCall
<1>12. Within(n, f, g)
  BY <1>1 DEF TreeCall
<1>13. ASSUME NEW i \in 1..(n + 1), NEW j \in 1..(n + 1), i < j PROVE Within(i, stack'[i], stack'[j])
  <2>1. CASE i = n
    <3>1. j = n + 1
      BY <1>13, <2>1
    <3>2. QED
      BY <1>3, <1>12, <2>1, <3>1
  <2>2. CASE i # n
    <3>1. i \in 1..(n - 1) /\ stack'[i] = stack[i]
      BY <1>3, <1>13, <2>2
    <3>2. CASE j = n
      BY <1>3, <1>10, <3>1, <3>2
    <3>3. CASE j = n + 1
      BY <1>3, <1>11, <3>1, <3>3
    <3>4. CASE j \in 1..(n - 1)
      <4>1. Within(i, stack[i], stack[j])
        BY <1>1, <1>13, <3>1, <3>4, OldPairs
      <4>2. QED
        BY <1>3, <3>1, <3>4, <4>1
    <3>5. QED
      BY <1>7, <3>2, <3>3, <3>4
  <2>3. QED
    BY <2>1, <2>2
<1>14. QED
  BY <1>3, <1>8, <1>13 DEF TreeAfter

LEMMA TreeWalks ==
  ASSUME Types, Types', PolicyInv, TreeInv, [Next]_vars
  PROVE  TreeAfter
<1>1. CASE Walk /\ ~WalkDegraded
  <2>1. Walking /\ stack # <<>>
    BY <1>1, WalkShape DEF Walking
  <2>2. F \in Callers /\ FrameTree(out, F) /\ F \in Frames
    BY <2>1, CallsAreTree DEF Callers
  <2>3. TodoOK(F)
    BY <2>2 DEF PolicyInv, PolicyFrame
  <2>4. TreeMoves
    BY <1>1, <2>2, <2>3, TreeMovesAre
  <2>5. CASE Ends /\ (Writing \/ Len(stack) = 1)
    BY <2>1, <2>5, EndsTree
  <2>6. CASE Raise /\ UNCHANGED out
    <3>1. stack' = stack
      BY <2>6 DEF Raise
    <3>2. QED
      BY <2>6, <3>1, OldPairs DEF TreeInv, TreeAfter, Callers
  <2>7. ASSUME Writing, NEW f, TreeTurn(f) PROVE TreeAfter
    <3>1. SameCall(f) /\ FrameTree(out', f) /\ LinkedFrom(f) /\ Turns(f)
      BY <2>7 DEF TreeTurn
    <3>2. ASSUME NEW i \in 1..(Len(stack) - 1) PROVE Within(i, stack[i], f)
      <4>1. stack[i] \in Frames /\ Within(i, stack[i], F) /\ Len(stack) \in Nat \ {0}
        BY <2>1, <3>2, CallsAreTree
      <4>2. i \in Nat /\ i < Len(stack)
        BY <4>1
      <4>3. QED
        BY <3>1, <4>1, <4>2, WithinTurn
    <3>3. QED
      BY <2>1, <2>7, <3>1, <3>2, TurnsTree
  <2>8. ASSUME UNCHANGED out, NEW f, NEW g, TreeCall(f, g) PROVE TreeAfter
    BY <2>1, <2>8, CallsTree
  <2>9. QED
    BY <2>4, <2>5, <2>6, <2>7, <2>8 DEF TreeMoves
<1>2. CASE stack' = stack /\ out' = out
  BY <1>2, OldPairs DEF TreeInv, TreeAfter, Callers
<1>3. CASE WalkDegraded
  <2>1. StackSteps
    BY StackStepsAre
  <2>2. F.step = "degraded" /\ stack # <<>> /\ ~Sanitizing /\ UNCHANGED out
    BY <1>3 DEF WalkDegraded, At
  <2>3. Walking
    BY <2>2 DEF Walking
  <2>4. PICK f : /\ Turns(f) /\ f = Frame(Id(Len(stack), <<>>), F.path, F.depth, F.honor, F.ser, F.owner)
                 /\ f.value = Id(Len(stack), <<>>) /\ f.path = F.path /\ f.step = "enter"
    BY <1>3, <2>3, DegradedShape
  <2>5. f.linked = Undefined
    BY <2>4 DEF Frame
  <2>6. FrameTree(out, F) /\ Len(stack) \in Nat \ {0}
    BY <2>2, CallsAreTree
  <2>7. FrameTree(out, f)
    <3>1. f.path = F.path /\ f.step = "enter"
      BY <2>4
    <3>2. PrefixesIn(out, F.path) /\ FreshIn(out, F.path)
      BY <2>2, <2>6 DEF FrameTree
    <3>3. QED
      BY <3>1, <3>2 DEF FrameTree, OpenSteps
  <2>8. f.value.base = Len(stack)
    <3>1. PICK n \in Nat, r \in Seq(Names) : n = Len(stack) /\ r = <<>>
      BY <2>6, BeginningIs
    <3>2. Id(n, r).base = n
      BY <3>1, IdsAre
    <3>3. QED
      BY <2>4, <3>1, <3>2
  <2>9. ASSUME NEW i \in 1..(Len(stack) - 1) PROVE Within(i, stack[i], f)
    <3>1. Within(i, stack[i], F)
      BY <2>2, <2>9, CallsAreTree
    <3>2. f.value.base > i /\ f.linked \notin NodeIds
      BY <2>5, <2>6, <2>8, <2>9, ValuesApart DEF Primitives
    <3>3. QED
      BY <2>4, <3>1, <3>2 DEF Within
  <2>10. QED
    BY <2>2, <2>4, <2>7, <2>9, TurnsTree DEF Writing
<1>4. CASE Serialized
  <2>1. PICK f : stack' = <<f>> /\ f.path = <<>> /\ f.step = "enter"
    BY <1>4, SerializedShape
  <2>2. out' = out /\ DOMAIN out = {}
    BY <1>4 DEF Serialized, TreeInv
  <2>3. FrameTree(out', f)
    BY <2>1, <2>2, RootHasNoneAbove DEF FrameTree, FreshIn, OpenSteps
  <2>4. DOMAIN stack' = {1} /\ stack'[1] = f
    BY <2>1
  <2>5. QED
    BY <2>3, <2>4 DEF TreeAfter
<1>5. CASE Sanitize \/ UNCHANGED vars
  BY <1>2, <1>5 DEF Sanitize, vars, walkVars
<1>6. QED
  BY <1>1, <1>3, <1>4, <1>5 DEF Next

\* What a call is at work on is what it was, after a step.
LEMMA WorkStays ==
  ASSUME Types, Types', [Next]_vars, NEW i \in DOMAIN stack',
         NEW f, f = stack'[i], f.step \notin {"enter", "inspect", "degraded"}
  PROVE  /\ IsArray(f.value)' <=> IsArray(f.value)
         /\ f.value \notin NodeIds => heap'[f.value].via = heap[f.value].via
<1>1. PICK v : v = f.value
  OBVIOUS
<1>2. v \in DOMAIN heap'
  BY <1>1 DEF Types, StackInv, FrameOK
<1>3. heap'[v] = heap[v] /\ v \in DOMAIN heap
  BY <1>1, <1>2, ValuesStay DEF ValueStays
<1>4. IsArray(v)' <=> IsArray(v)
  BY <1>2, <1>3 DEF IsArray, IsKind, IsObject
<1>5. QED
  BY <1>1, <1>3, <1>4

LEMMA KeysStayDone ==
  ASSUME NEW f, IsArray(f.value)' <=> IsArray(f.value)
  PROVE  \A k : KeyDone(f, k)' <=> KeyDone(f, k)
BY DEF KeyDone

LEMMA FrameStays ==
  ASSUME Types, Types', [Next]_vars, NEW i \in DOMAIN stack',
         NEW f, f = stack'[i], FrameTree(out', f)
  PROVE  FrameTree(out, f)'
<1>1. ASSUME f.step \in OpenSteps
      PROVE  CopyIn(out, f)'
  <2>1. IsArray(f.value)' <=> IsArray(f.value)
    BY <1>1, WorkStays DEF OpenSteps
  <2>2. \A k : KeyDone(f, k)' <=> KeyDone(f, k)
    BY <2>1, KeysStayDone
  <2>3. CopyIn(out', f)
    BY <1>1 DEF FrameTree
  <2>4. QED
    BY <2>1, <2>2, <2>3 DEF CopyIn
<1>2. f.step = "follow" /\ f.value \notin NodeIds => heap'[f.value].via # "none"
  BY WorkStays DEF FrameTree
<1>3. QED
  BY <1>1, <1>2 DEF FrameTree, PrefixesIn, FreshIn

LEMMA WithinStays ==
  ASSUME Types, Types', [Next]_vars, NEW i \in DOMAIN stack', NEW f, f = stack'[i],
         i # Len(stack'), NEW g, Within(i, f, g)
  PROVE  Within(i, f, g)'
<1>1. f.step \in Waiting
  BY DEF Types, StackInv
<1>2. IsArray(f.value)' <=> IsArray(f.value)
  BY <1>1, WorkStays DEF Waiting
<1>3. \A k : KeyDone(f, k)' <=> KeyDone(f, k)
  BY <1>2, KeysStayDone
<1>4. QED
  BY <1>3 DEF Within

LEMMA TreeNext ==
  ASSUME Types, PolicyInv, TreeInv, [Next]_vars
  PROVE  TreeInv'
<1>1. Types'
  BY NextTypes
<1>2. TreeAfter
  BY <1>1, TreeWalks
<1>3. ASSUME NEW f \in Callers'
      PROVE  FrameTree(out, f)'
  <2>1. PICK i \in DOMAIN stack' : f = stack'[i]
    BY DEF Callers
  <2>2. FrameTree(out', f)
    BY <1>2, <2>1 DEF TreeAfter
  <2>3. QED
    BY <1>1, <2>1, <2>2, FrameStays
<1>4. ASSUME NEW i \in DOMAIN stack', NEW j \in DOMAIN stack', i < j
      PROVE  \A f, g : f = stack'[i] /\ g = stack'[j] => Within(i, f, g)'
  <2> SUFFICES ASSUME NEW f, NEW g, f = stack'[i], g = stack'[j] PROVE Within(i, f, g)'
    OBVIOUS
  <2>1. Within(i, f, g)
    BY <1>2, <1>4 DEF TreeAfter
  <2>2. DOMAIN stack' = 1..Len(stack') /\ Len(stack') \in Nat
    BY <1>1, LenProperties DEF Types, StackInv
  <2>3. i # Len(stack')
    BY <1>4, <2>2
  <2>4. QED
    BY <1>1, <2>1, <2>3, WithinStays
<1>5. \A q \in DOMAIN out' : PrefixesIn(out', q)
  BY <1>1, CopyStaysATree
<1>6. phase' = "serialize" => DOMAIN out' = {}
  <2> SUFFICES ASSUME phase' = "serialize" PROVE DOMAIN out' = {}
    OBVIOUS
  <2>1. phase = "serialize"
    BY DEF Next, Walk, Sanitize, Serialized, vars, walkVars, EnterPrimitive, EnterTooDeep,
       EnterOverBudget, Enter, InspectBinary, InspectRefused, InspectBuffer, FollowToJson,
       Followed, InspectFunction, Open, Element, Field, FieldsDone, ReadPart, Link, Linked,
       PartsDone, CatchPart, CatchError, WalkDegraded, Unwind
  <2>2. stack = <<>> /\ DOMAIN out = {}
    BY <2>1 DEF Types, TasksInv, TreeInv
  <2>3. out' = out
    <3>1. ~Walk
      BY <2>2 DEF Walk, At, Unwinding, EnterPrimitive, EnterTooDeep,
       EnterOverBudget, Enter, InspectBinary, InspectRefused, InspectBuffer, FollowToJson,
       Followed, InspectFunction, Inspecting, Open, Element, Field, FieldsDone, ReadPart, Link,
       Linked, PartsDone, CatchPart, CatchError, WalkDegraded, Unwind
    <3>2. QED
      BY <3>1 DEF Next, Sanitize, Serialized, vars, walkVars
  <2>4. QED
    BY <2>2, <2>3
<1>7. QED
  BY <1>3, <1>4, <1>5, <1>6 DEF TreeInv, PrefixesIn

LEMMA TreeInit == Init => TreeInv
<1> SUFFICES ASSUME Init PROVE TreeInv
  OBVIOUS
<1>1. DOMAIN out = {}
  BY DEF Init
<1>2. \/ stack = <<>>
      \/ stack = <<Frame(Record, <<>>, 0, FALSE, FALSE, Record)>>
  BY DEF Init
<1>3. PICK f : f = Frame(Record, <<>>, 0, FALSE, FALSE, Record)
  OBVIOUS
<1>4. f.path = <<>> /\ f.step = "enter"
  BY <1>3 DEF Frame
<1>5. FrameTree(out, f)
  <2>1. PrefixesIn(out, f.path)
    BY <1>4, RootHasNoneAbove
  <2>2. FreshIn(out, f.path)
    BY <1>1 DEF FreshIn
  <2>3. f.step = "enter"
    BY <1>4
  <2>4. QED
    BY <2>1, <2>2, <2>3 DEF FrameTree, OpenSteps
<1>6. DOMAIN stack \subseteq {1} /\ \A i \in DOMAIN stack : stack[i] = f
  <2>1. stack = <<>> \/ stack = <<f>>
    BY <1>2, <1>3, Zenon
  <2>2. CASE stack = <<>>
    BY <2>2
  <2>3. CASE stack = <<f>>
    BY <2>3
  <2>4. QED
    BY <2>1, <2>2, <2>3
<1>7. QED
  BY <1>1, <1>5, <1>6 DEF TreeInv, Callers

\* An object that is written as circular is on the way to where it is: what its toJSON
\* returned may stand in the place of one that has a toJSON, but never of a node.
HasAbove(o, q) == \E r \in DOMAIN o : Under(r, q) /\ r # q /\ o[r].of = o[q].of
CycleIn(o, q) ==
  o[q].what = "circular" =>
    /\ o[q].of \in NodeIds \/ o[q].of \in DOMAIN heap
    /\ o[q].of \in NodeIds \/ heap[o[q].of].via = "none" => HasAbove(o, q)
CycleInv == \A q \in DOMAIN out : CycleIn(out, q)

\* What was above a path of the copy is above it still.
LEMMA AboveStays ==
  ASSUME OutInv, OutInv', TreeInv, OnePlace, NEW q \in DOMAIN out', NEW r \in DOMAIN out,
         Under(r, q), r # q
  PROVE  r \in DOMAIN out' /\ out'[r] = out[r]
<1>1. r \in Seq(Names)
  BY DEF OutInv
<1>2. CASE UNCHANGED out
  BY <1>2
<1>3. ASSUME NEW p \in Seq(Names), PrefixesIn(out, p), Replaces(p)
      PROVE  r \in DOMAIN out' /\ out'[r] = out[r]
  <2>1. \A x \in DOMAIN out : PrefixesIn(out, x)
    BY DEF TreeInv
  <2>2. QED
    BY <1>1, <1>3, <2>1, PrefixStays
<1>4. QED
  BY <1>2, <1>3 DEF OnePlace

\* A call whose value is that of a call around it has the copy of the value above it.
LEMMA AncestorIsAbove ==
  ASSUME Walking, TreeInv, F.step = "enter", F.value \in Ancestors,
         F.value \in NodeIds \/ heap[F.value].via = "none"
  PROVE  \E r \in DOMAIN out : Under(r, F.path) /\ r # F.path /\ out[r].of = F.value
<1>1. stack # <<>> /\ Types
  BY DEF Walking
<1>2. PICK n \in Nat \ {0} : n = Len(stack) /\ DOMAIN stack = 1..n /\ F = stack[n]
  BY <1>1, CallsAreTree
<1>3. PICK i \in DOMAIN stack : stack[i].value = F.value /\ stack[i].step \notin {"enter", "inspect"}
  BY DEF Ancestors
<1>4. i \in 1..(n - 1)
  <2>1. i # n
    BY <1>2, <1>3
  <2>2. QED
    BY <1>2, <2>1
<1>5. PICK f \in Frames : /\ f = stack[i] /\ f.step \in Waiting /\ FrameTree(out, f) /\ Within(i, f, F)
                          /\ f.value = F.value /\ (f.value \in NodeIds => f.value.base <= i)
  <2>1. stack[i] \in Frames /\ stack[i].step \in Waiting /\ FrameTree(out, stack[i]) /\ Within(i, stack[i], F)
    BY <1>1, <1>2, <1>4, CallsAreTree
  <2>2. stack[i].value \in NodeIds => stack[i].value.base <= i
    BY <1>1 DEF Types, StackInv, FrameOK
  <2>3. QED
    BY <1>3, <2>1, <2>2
<1>6. f.step # "follow"
  <2> SUFFICES ASSUME f.step = "follow" PROVE FALSE
    OBVIOUS
  <2>1. F.value \in NodeIds => F.value.base > i /\ F.value.base <= i /\ F.value.base \in Nat
    BY <1>5 DEF Within, NodeIds
  <2>2. F.value \notin NodeIds
    BY <1>4, <2>1
  <2>3. QED
    BY <1>5, <2>2 DEF FrameTree
<1>7. CopyIn(out, f)
  BY <1>5, <1>6 DEF FrameTree, Waiting, OpenSteps
<1>8. PICK a, b \in Seq(Names) : a = f.path /\ b = F.path
  BY <1>1, <1>5, FrameParts, CallsAreTree
<1>9. PICK k \in Names : Under(Append(a, k), b)
  BY <1>5, <1>6, <1>8 DEF Within
<1>10. Under(a, b) /\ a # b
  <2>1. PICK c : c = Append(a, k)
    OBVIOUS
  <2>2. c \in Seq(Names) /\ Under(a, c) /\ ~Under(c, a)
    BY <2>1, NameBelow
  <2>3. QED
    BY <1>9, <2>1, <2>2, UnderOrder
<1>11. a \in DOMAIN out /\ out[a].of = F.value
  BY <1>5, <1>7, <1>8 DEF CopyIn
<1>12. QED
  BY <1>8, <1>10, <1>11

\* What is written as circular.
LEMMA CircularWrites ==
  ASSUME Types, [Next]_vars, NEW q \in DOMAIN out', out'[q].what = "circular"
  PROVE  \/ Kept(q)
         \/ /\ Walking /\ F.step = "enter" /\ F.value \in Ancestors /\ F.value \in DOMAIN heap
            /\ q = F.path /\ out'[q].of = F.value
<1>1. CASE Walk /\ Written(q) /\ ~Kept(q)
  <2>1. ~FieldWrite(q, out'[q]) /\ ~MarkerWrite(q, out'[q]) /\ ~EnvelopeWrite(q, out'[q])
    BY EntryParts DEF FieldWrite, MarkerWrite, EnvelopeWrite
  <2>2. OwnWrite(q, out'[q])
    BY <1>1, <2>1 DEF Written
  <2>3. PICK what : /\ q = F.path /\ out'[q] = Entry(what, F.value, F.owner)
                    /\ what = "circular" =>
                         F.step = "enter" /\ F.value \in Ancestors /\ F.value \in DOMAIN heap
    BY <2>2 DEF OwnWrite
  <2>4. what = "circular" /\ out'[q].of = F.value
    BY <2>3, EntryParts
  <2>5. ~WalkDegraded
    BY <2>3, <2>4 DEF WalkDegraded, At
  <2>6. Walking
    BY <1>1, <2>5, WalkShape
  <2>7. QED
    BY <2>3, <2>4, <2>6
<1>2. QED
  BY <1>1, WalkWrites

LEMMA CycleNext ==
  ASSUME Types, PolicyInv, TreeInv, CycleInv, [Next]_vars
  PROVE  CycleInv'
<1>1. Types' /\ OutInv /\ OutInv' /\ OnePlace
  BY NextTypes, StepsWriteOnce DEF Types
<1>2. GraphKept
  BY StepKeepsNodes
<1>3. ASSUME NEW q \in DOMAIN out', out'[q].what = "circular"
      PROVE  /\ out'[q].of \in NodeIds \/ out'[q].of \in DOMAIN heap'
             /\ out'[q].of \in NodeIds \/ heap'[out'[q].of].via = "none" => HasAbove(out', q)
  <2>1. PICK v : v = out'[q].of
    OBVIOUS
  <2>2. v \in NodeIds \/ v \in DOMAIN heap =>
          /\ v \in NodeIds \/ v \in DOMAIN heap'
          /\ v \in NodeIds \/ heap'[v].via = "none" => v \in NodeIds \/ heap[v].via = "none"
    BY <1>2 DEF GraphKept
  <2>3. CASE Kept(q)
    <3>1. q \in DOMAIN out /\ out[q] = out'[q] /\ CycleIn(out, q)
      BY <2>3 DEF Kept, CycleInv
    <3>2. ASSUME HasAbove(out, q) PROVE HasAbove(out', q)
      <4>1. PICK r \in DOMAIN out : Under(r, q) /\ r # q /\ out[r].of = out[q].of
        BY <3>2 DEF HasAbove
      <4>2. r \in DOMAIN out' /\ out'[r] = out[r]
        BY <1>1, <4>1, AboveStays
      <4>3. QED
        BY <3>1, <4>1, <4>2 DEF HasAbove
    <3>3. QED
      BY <1>3, <2>1, <2>2, <3>1, <3>2 DEF CycleIn
  <2>4. CASE /\ Walking /\ F.step = "enter" /\ F.value \in Ancestors /\ F.value \in DOMAIN heap
             /\ q = F.path /\ out'[q].of = F.value
    <3>1. ASSUME F.value \in NodeIds \/ heap[F.value].via = "none" PROVE HasAbove(out', q)
      <4>1. PICK r \in DOMAIN out : Under(r, q) /\ r # q /\ out[r].of = F.value
        BY <2>4, <3>1, AncestorIsAbove
      <4>2. r \in DOMAIN out' /\ out'[r] = out[r]
        BY <1>1, <4>1, AboveStays
      <4>3. QED
        BY <2>4, <4>1, <4>2 DEF HasAbove
    <3>2. QED
      BY <2>1, <2>2, <2>4, <3>1
  <2>5. QED
    BY <1>3, <2>3, <2>4, CircularWrites
<1>4. QED
  BY <1>3 DEF CycleInv, CycleIn, HasAbove

LEMMA CycleIsShown ==
  ASSUME Types, CycleInv
  PROVE  CircularMeansACycle
<1> SUFFICES ASSUME NEW q \in DOMAIN out, out[q].what = "circular", heap[out[q].of].via = "none"
             PROVE  \E n \in 0..(Len(q) - 1) : out[SubSeq(q, 1, n)].of = out[q].of
  BY DEF CircularMeansACycle
<1>1. PICK r \in DOMAIN out : Under(r, q) /\ r # q /\ out[r].of = out[q].of
  BY DEF CycleInv, CycleIn, HasAbove
<1>2. q \in Seq(Names) /\ r \in Seq(Names)
  BY DEF Types, OutInv
<1>3. PICK n \in 0..(Len(q) - 1) : SubSeq(q, 1, n) = r
  BY <1>1, <1>2, PrefixUnder
<1>4. QED
  BY <1>1, <1>3

\* "[Circular]" stands for a reference to an object being written, never for one that is
\* merely shared (walk, ancestors), and no chain level of one record is left for another.
THEOREM PathsForgotten == Spec => []PathsAreForgotten
<1>1. Init => Types /\ CallsInv /\ NodesInv /\ FormsInv /\ PolicyInv /\ TreeInv /\ CycleInv
  <2>1. Init => DOMAIN out = {}
    BY DEF Init
  <2>2. Init => CycleInv
    BY <2>1 DEF CycleInv
  <2>3. QED
    BY <2>2, InitTypes, NodesInit, PolicyInit, TreeInit
<1>2. Types /\ CallsInv /\ NodesInv /\ FormsInv /\ PolicyInv /\ TreeInv /\ CycleInv /\ [Next]_vars
      => (Types /\ CallsInv /\ NodesInv /\ FormsInv /\ PolicyInv /\ TreeInv /\ CycleInv)'
  BY NextTypes, CallsNext, NodesNext, PolicyNext, TreeNext, CycleNext
<1>3. Types /\ CycleInv /\ LinksAreRestored => PathsAreForgotten
  BY CycleIsShown DEF PathsAreForgotten
<1>4. Spec => []LinksAreRestored
  BY LevelsAreForgotten
<1>5. QED
  BY <1>1, <1>2, <1>3, <1>4, PTL DEF Spec

-----------------------------------------------------------------------------
(***************************************************************************)
(* Censored names.                                                         *)
(***************************************************************************)

\* A path that ends in a censored name of an object.
Named(c) ==
  \E r \in Seq(Names), k \in Names :
    c = Append(r, k) /\ k \in policy.sensitive /\ out[r].what \notin Lists

\* What is written for a link is dropped for the censor when the link's part is covered.
Covering(f, q) == f.step = "linked" /\ Covered(f.part) /\ Under(PartPath(f), q)
Excepted(q)    == \E f \in Callers : Covering(f, q)
Spared(q, what) ==
  \A c \in Seq(Names) :
    Named(c) /\ Under(c, q) => (c = q /\ what = "censor") \/ Excepted(q)

\* The stack of an error that its fields do not hold.
StackText(q, o) ==
  \E r \in Seq(Names) :
    /\ q = Append(r, "stack") /\ IsError(o) /\ o = out[r].of
    /\ "stack" \notin KeysOf(o)

NamesInv ==
  /\ \A q \in DOMAIN out : Spared(q, out[q].what)
  /\ \A f \in Callers : Spared(f.path, "leaf")
TextInv ==
  /\ \A q \in DOMAIN out, o \in Values : o = out[q].owner /\ StackText(q, o) =>
       {"name", "message"} \cap policy.sensitive = {} \/ out[q].what = "censor"
  /\ \A f \in Callers : ~StackText(f.path, f.owner)

\* How a step is about names.
PartGone ==
  \A q \in DOMAIN out' : Under(PartPath(F), q) => q = PartPath(F) /\ out'[q].what = "censor"
NameTurn(f) ==
  /\ Turns(f) /\ SameCall(f) /\ f.step # "linked"
  /\ F.step = "linked" /\ Covered(F.part) => PartGone
NameCall(f, g) ==
  /\ Calls2(f, g) /\ SameCall(f) /\ F.step # "linked"
  /\ \/ g.path = F.path /\ g.owner = F.owner
     \/ \E k \in Names :
          /\ g.path = Append(F.path, k) /\ g.owner = Origin(F.value)
          /\ F.step \in OpenSteps
          /\ \/ IsArray(F.value)
             \/ k \notin policy.sensitive /\ k \in KeysOf(F.value)
             \/ f.step = "linked" /\ f.part = k /\ k # "stack"
NameMoves ==
  \/ (Ends \/ Raise) /\ F.step # "linked"
  \/ \E f : NameTurn(f)
  \/ UNCHANGED out /\ \E f, g : NameCall(f, g)

LEMMA FollowNames ==
  ASSUME Walking, FollowToJson
  PROVE  NameMoves
<1>1. F \in Frames
  BY WalkingIs
<1>2. /\ F.step = "inspect"
      /\ \/ Raise
         \/ Ends
         \/ /\ UNCHANGED out
            /\ \E result :
                 Calls2([F EXCEPT !.step = "follow"],
                        Frame(result, F.path, F.depth + 1, TRUE, F.ser, F.owner))
  BY Zenon DEF FollowToJson, Inspecting, At
<1>3. ASSUME UNCHANGED out, NEW result,
             Calls2([F EXCEPT !.step = "follow"],
                    Frame(result, F.path, F.depth + 1, TRUE, F.ser, F.owner))
      PROVE  NameMoves
  <2>1. PICK f : f = [F EXCEPT !.step = "follow"]
    OBVIOUS
  <2>2. SameCall(f)
    BY <1>1, <2>1, FIsSame, SameCalls
  <2>3. PICK g : g = Frame(result, F.path, F.depth + 1, TRUE, F.ser, F.owner)
    OBVIOUS
  <2>4. g.path = F.path /\ g.owner = F.owner
    BY <2>3 DEF Frame
  <2>5. Calls2(f, g)
    BY <1>3, <2>1, <2>3
  <2>6. NameCall(f, g)
    BY <1>2, <2>2, <2>4, <2>5 DEF NameCall
  <2>7. QED
    BY <1>3, <2>6 DEF NameMoves
<1>4. QED
  BY <1>2, <1>3 DEF NameMoves

LEMMA FieldNames ==
  ASSUME Walking, FrameTree(out, F), TodoOK(F), Element \/ Field
  PROVE  NameMoves
<1>1. F \in Frames /\ F.step = "fields" /\ F.todo # <<>>
  BY WalkingIs DEF Element, Field, At
<1>2. CopyIn(out, F)
  BY <1>1 DEF FrameTree, OpenSteps
<1>3. PICK k \in Names : k = Head(F.todo) /\ k \in KeysOf(F.value)
  BY <1>1, <1>2, NextKey DEF TodoOK
<1>4. PICK f, h : f = [F EXCEPT !.todo = Tail(@)] /\ h = [f EXCEPT !.written = @ \cup {k}]
  OBVIOUS
<1>5. SameCall(f) /\ SameCall(h) /\ f.step = "fields" /\ h.step = "fields"
  <2>1. SameCall(f) /\ DOMAIN f = DOMAIN F /\ f.step = "fields"
    BY <1>1, <1>4, FIsSame, SameCalls DEF Frames
  <2>2. QED
    BY <1>1, <1>4, <2>1, SameCalls DEF Frames
<1>6. PICK c : c = Append(F.path, k)
  OBVIOUS
<1>7. \/ Raise
      \/ Turns(f) \/ Turns(h)
      \/ /\ UNCHANGED out
         /\ IsArray(F.value) \/ k \notin policy.sensitive
         /\ \E e \in {f, h} : \E v, ser :
              Calls2(e, Frame(v, c, F.depth + 1, TRUE, ser, Origin(F.value)))
  <2>1. CASE Element
    <3>1. \/ Raise
          \/ /\ UNCHANGED out /\ IsArray(F.value)
             /\ \E v : Calls2(f, Frame(v, c, F.depth + 1, TRUE, F.ser, Origin(F.value)))
      BY <1>3, <1>4, <1>6, <2>1, Zenon DEF Element
    <3>2. QED
      BY <3>1, Zenon
  <2>2. CASE Field
    <3>1. PICK ser : ser = (F.ser \/ (~F.honor /\ k \in SerializedKeys))
      OBVIOUS
    <3>2. \/ Raise
          \/ Turns(f) \/ Turns(h)
          \/ /\ UNCHANGED out /\ ~Sensitive(F, k)
             /\ \E v : Calls2(h, Frame(v, c, F.depth + 1, TRUE, ser, Origin(F.value)))
      BY <1>3, <1>4, <1>6, <2>2, <3>1, Zenon DEF Field
    <3>3. QED
      BY <3>2, Zenon DEF Sensitive
  <2>3. QED
    BY <2>1, <2>2
<1>8. ASSUME NEW e \in {f, h}, Turns(e) PROVE NameMoves
  <2>1. NameTurn(e)
    BY <1>1, <1>5, <1>8 DEF NameTurn
  <2>2. QED
    BY <2>1 DEF NameMoves
<1>9. ASSUME UNCHANGED out, IsArray(F.value) \/ k \notin policy.sensitive,
             \E e \in {f, h} : \E v, ser :
               Calls2(e, Frame(v, c, F.depth + 1, TRUE, ser, Origin(F.value)))
      PROVE  NameMoves
  <2> PICK e \in {f, h} : \E v, ser :
             Calls2(e, Frame(v, c, F.depth + 1, TRUE, ser, Origin(F.value)))
    BY <1>9
  <2> PICK v, ser : Calls2(e, Frame(v, c, F.depth + 1, TRUE, ser, Origin(F.value)))
    OBVIOUS
  <2>1. PICK g : g = Frame(v, c, F.depth + 1, TRUE, ser, Origin(F.value))
    OBVIOUS
  <2>2. g.path = Append(F.path, k) /\ g.owner = Origin(F.value)
    BY <1>6, <2>1 DEF Frame
  <2>3. Calls2(e, g) /\ SameCall(e)
    BY <1>5, <2>1
  <2>4. NameCall(e, g)
    BY <1>1, <1>3, <1>9, <2>2, <2>3 DEF NameCall, OpenSteps
  <2>5. QED
    BY <1>9, <2>4 DEF NameMoves
<1>10. Raise => NameMoves
  BY <1>1 DEF NameMoves
<1>11. (Turns(f) \/ Turns(h)) => NameMoves
  BY <1>8
<1>12. QED
  BY <1>7, <1>9, <1>10, <1>11

LEMMA LinkNames ==
  ASSUME Walking, FrameTree(out, F), Link
  PROVE  NameMoves
<1>1. F \in Frames /\ F.step = "link" /\ F.part \in Names
  BY WalkingIs, FrameParts DEF Link, At
<1>2. F.part # "stack"
  BY <1>1 DEF FrameTree, OpenSteps, CopyIn
<1>3. PICK c : c = Append(F.path, F.part) /\ c = PartPath(F)
  BY DEF PartPath
<1>4. \/ Turns(LostPart(F)) \/ Turns(NextPart(F))
      \/ /\ UNCHANGED out
         /\ \E b : Calls2([F EXCEPT !.step = "linked", !.before = b],
                          Frame(F.linked, c, F.depth + 1, TRUE, F.ser, Origin(F.value)))
  BY <1>3, Zenon DEF Link
<1>5. ASSUME NEW g, g = NextPart(F) \/ g = LostPart(F), Turns(g) PROVE NameMoves
  <2>1. SameCall(g) /\ g.step = "parts"
    BY <1>1, <1>5, FIsSame, PartForms
  <2>2. NameTurn(g)
    BY <1>1, <1>5, <2>1 DEF NameTurn
  <2>3. QED
    BY <2>2 DEF NameMoves
<1>6. ASSUME UNCHANGED out, NEW b,
             Calls2([F EXCEPT !.step = "linked", !.before = b],
                    Frame(F.linked, c, F.depth + 1, TRUE, F.ser, Origin(F.value)))
      PROVE  NameMoves
  <2>1. PICK f : f = [F EXCEPT !.step = "linked", !.before = b]
    OBVIOUS
  <2>2. SameCall(f) /\ f.step = "linked" /\ f.part = F.part
    BY <1>1, <2>1, FIsSame, SameCalls DEF Frames
  <2>3. PICK g : g = Frame(F.linked, c, F.depth + 1, TRUE, F.ser, Origin(F.value))
    OBVIOUS
  <2>4. g.path = Append(F.path, F.part) /\ g.owner = Origin(F.value)
    BY <1>3, <2>3 DEF Frame
  <2>5. Calls2(f, g)
    BY <1>6, <2>1, <2>3
  <2>6. NameCall(f, g)
    BY <1>1, <1>2, <2>2, <2>4, <2>5 DEF NameCall, OpenSteps
  <2>7. QED
    BY <1>6, <2>6 DEF NameMoves
<1>7. QED
  BY <1>4, <1>5, <1>6

LEMMA LinkedNames ==
  ASSUME Walking, TreeInv, Linked \/ CatchPart
  PROVE  NameMoves
<1>1. F \in Frames /\ F.step = "linked"
  BY WalkingIs DEF Linked, CatchPart, At
<1>2. PICK c \in Seq(Names) : c = PartPath(F)
  BY <1>1, PartPathIs
<1>3. /\ Turns(NextPart(F)) \/ Turns(LostPart(F))
      /\ \/ /\ out' = IF Covered(F.part) /\ c \in DOMAIN out
                      THEN Assign(Dropped(c), c, Entry("censor", Text, Origin(F.value))) ELSE out
         \/ out' = Dropped(c)
  BY <1>2, Zenon DEF Linked, CatchPart
<1>4. ASSUME Covered(F.part) PROVE PartGone
  <2>1. CASE out' = Dropped(c)
    <3>1. FreshIn(out', c)
      BY <2>1, DropReplaces
    <3>2. QED
      BY <1>2, <3>1 DEF PartGone, FreshIn
  <2>2. CASE c \in DOMAIN out /\ out' = Assign(Dropped(c), c, Entry("censor", Text, Origin(F.value)))
    <3>1. PICK e, o, g : /\ e = Entry("censor", Text, Origin(F.value)) /\ o = Dropped(c)
                         /\ g = Assign(o, c, e)
      OBVIOUS
    <3>2. /\ \A x : x \in DOMAIN g <=> (x \in DOMAIN o \/ x = c)
          /\ g[c] = e
      BY <3>1, Assigned
    <3>3. \A x \in DOMAIN o : ~Under(c, x)
      BY <3>1 DEF Dropped
    <3>4. out' = g /\ e.what = "censor"
      BY <2>2, <3>1, EntryParts
    <3>5. QED
      BY <1>2, <3>2, <3>3, <3>4 DEF PartGone
  <2>3. CASE c \notin DOMAIN out /\ out' = out
    <3>1. ASSUME NEW q \in DOMAIN out, Under(c, q) PROVE FALSE
      <4>1. PrefixesIn(out, q)
        BY DEF TreeInv
      <4>2. QED
        BY <2>3, <3>1, <4>1 DEF PrefixesIn
    <3>2. QED
      BY <1>2, <2>3, <3>1 DEF PartGone
  <2>4. QED
    BY <1>3, <1>4, <2>1, <2>2, <2>3
<1>5. ASSUME NEW g, g = NextPart(F) \/ g = LostPart(F), Turns(g) PROVE NameMoves
  <2>1. SameCall(g) /\ g.step = "parts"
    BY <1>1, <1>5, FIsSame, PartForms
  <2>2. NameTurn(g)
    BY <1>4, <1>5, <2>1 DEF NameTurn
  <2>3. QED
    BY <2>2 DEF NameMoves
<1>6. QED
  BY <1>3, <1>5

LEMMA NameMovesAre ==
  ASSUME Types, Walk, ~WalkDegraded, TreeInv, Walking => TodoOK(F)
  PROVE  NameMoves
<1>1. Walking /\ TodoOK(F)
  BY WalkShape
<1>2. F \in Frames /\ FrameTree(out, F)
  BY <1>1, CallsAreTree DEF Walking
<1>3. CASE \/ EnterPrimitive \/ EnterTooDeep \/ EnterOverBudget \/ InspectBinary \/ InspectRefused
           \/ InspectBuffer \/ Followed \/ InspectFunction \/ PartsDone \/ Unwind
  <2>1. Ends \/ Raise
    BY <1>3, Zenon DEF EnterPrimitive, EnterTooDeep, EnterOverBudget, InspectBinary,
       InspectRefused, InspectBuffer, Followed, InspectFunction, PartsDone, Unwind
  <2>2. F.step # "linked"
    BY <1>3, Zenon DEF At, Inspecting, EnterPrimitive, EnterTooDeep, EnterOverBudget, InspectBinary,
       InspectRefused, InspectBuffer, Followed, InspectFunction, PartsDone, Unwind
  <2>3. QED
    BY <2>1, <2>2 DEF NameMoves
<1>4. ASSUME NEW x \in {"inspect", "fields", "degraded"}, NEW f, f = [F EXCEPT !.step = x],
             Turns(f), F.step # "linked"
      PROVE  NameMoves
  <2>1. SameCall(f) /\ f.step = x
    BY <1>2, <1>4, FIsSame, SameCalls DEF Frames
  <2>2. NameTurn(f)
    BY <1>4, <2>1 DEF NameTurn
  <2>3. QED
    BY <2>2 DEF NameMoves
<1>5. CASE Enter
  <2>1. F.step # "linked"
    BY <1>5 DEF Enter, At
  <2>2. Ends \/ Turns([F EXCEPT !.step = "inspect"])
    BY <1>5, Zenon DEF Enter
  <2>3. QED
    BY <1>4, <2>1, <2>2 DEF NameMoves
<1>6. CASE CatchError
  <2>1. F.step # "linked"
    BY <1>6, Zenon DEF CatchError
  <2>2. Turns([F EXCEPT !.step = "degraded"])
    BY <1>6, Zenon DEF CatchError
  <2>3. QED
    BY <1>4, <2>1, <2>2
<1>7. CASE Open
  <2>1. F.step # "linked"
    BY <1>7 DEF Open, Inspecting, At
  <2>2. Raise \/ \E x : Turns([F EXCEPT !.step = "fields", !.todo = x])
    BY <1>7, Zenon DEF Open
  <2>3. ASSUME NEW x, Turns([F EXCEPT !.step = "fields", !.todo = x]) PROVE NameMoves
    <3>1. PICK f : f = [F EXCEPT !.step = "fields", !.todo = x]
      OBVIOUS
    <3>2. SameCall(f) /\ f.step = "fields"
      BY <1>2, <3>1, FIsSame, SameCalls DEF Frames
    <3>3. NameTurn(f)
      BY <2>1, <2>3, <3>1, <3>2 DEF NameTurn
    <3>4. QED
      BY <3>3 DEF NameMoves
  <2>4. QED
    BY <2>1, <2>2, <2>3 DEF NameMoves
<1>8. CASE FieldsDone
  <2>1. F.step # "linked"
    BY <1>8 DEF FieldsDone, At
  <2>2. Ends \/ \E x : Turns([F EXCEPT !.step = "parts", !.todo = x])
    BY <1>8, Zenon DEF FieldsDone
  <2>3. ASSUME NEW x, Turns([F EXCEPT !.step = "parts", !.todo = x]) PROVE NameMoves
    <3>1. PICK f : f = [F EXCEPT !.step = "parts", !.todo = x]
      OBVIOUS
    <3>2. SameCall(f) /\ f.step = "parts"
      BY <1>2, <3>1, FIsSame, SameCalls DEF Frames
    <3>3. NameTurn(f)
      BY <2>1, <2>3, <3>1, <3>2 DEF NameTurn
    <3>4. QED
      BY <3>3 DEF NameMoves
  <2>4. QED
    BY <2>1, <2>2, <2>3 DEF NameMoves
<1>9. CASE ReadPart
  <2>1. F.step # "linked"
    BY <1>9, Zenon DEF ReadPart, At
  <2>2. PICK f : f = [F EXCEPT !.todo = Tail(@), !.part = Head(F.todo)]
    OBVIOUS
  <2>3. \/ Turns(LostPart(f)) \/ Turns(NextPart(f))
        \/ \E v : Turns([f EXCEPT !.step = "link", !.linked = v])
    BY <1>9, <2>2, Zenon DEF ReadPart
  <2>4. SameCall(f) /\ DOMAIN f = DOMAIN F /\ "step" \in DOMAIN f
    BY <1>2, <2>2, FIsSame, SameCalls DEF Frames
  <2>5. ASSUME NEW g, g = NextPart(f) \/ g = LostPart(f), Turns(g) PROVE NameMoves
    <3>1. SameCall(g) /\ g.step = "parts"
      BY <1>2, <2>4, <2>5, PartForms
    <3>2. NameTurn(g)
      BY <2>1, <2>5, <3>1 DEF NameTurn
    <3>3. QED
      BY <3>2 DEF NameMoves
  <2>6. ASSUME NEW v, Turns([f EXCEPT !.step = "link", !.linked = v]) PROVE NameMoves
    <3>1. PICK g : g = [f EXCEPT !.step = "link", !.linked = v]
      OBVIOUS
    <3>2. SameCall(g) /\ g.step = "link"
      BY <1>2, <2>4, <3>1, SameCalls
    <3>3. NameTurn(g)
      BY <2>1, <2>6, <3>1, <3>2 DEF NameTurn
    <3>4. QED
      BY <3>3 DEF NameMoves
  <2>7. QED
    BY <2>3, <2>5, <2>6
<1>10. QED
  BY <1>1, <1>2, <1>3, <1>5, <1>6, <1>7, <1>8, <1>9, FollowNames, FieldNames, LinkNames, LinkedNames,
     Zenon DEF Walk

LEMMA AppendIs ==
  ASSUME NEW p \in Seq(Names), NEW r \in Seq(Names), NEW k \in Names, NEW l \in Names,
         Append(p, k) = Append(r, l)
  PROVE  p = r /\ k = l
<1>1. PICK c, d : c = Append(p, k) /\ d = Append(r, l)
  OBVIOUS
<1>2. c = d
  BY <1>1
<1>3. /\ c \in Seq(Names) /\ Under(p, c) /\ c # p /\ Len(c) = Len(p) + 1 /\ c[Len(c)] = k
      /\ \A x \in Seq(Names) : Under(x, c) => x = c \/ Under(x, p)
  BY <1>1, NameBelow
<1>4. /\ Under(r, d) /\ d # r /\ Len(d) = Len(r) + 1 /\ d[Len(d)] = l
      /\ \A x \in Seq(Names) : Under(x, d) => x = d \/ Under(x, r)
  BY <1>1, NameBelow
<1>5. Under(p, r) /\ Len(p) \in Nat /\ Len(r) \in Nat
  BY <1>2, <1>3, <1>4, LenProperties
<1>6. Len(p) = Len(r)
  BY <1>2, <1>3, <1>4, <1>5
<1>7. QED
  BY <1>2, <1>3, <1>4, <1>5, <1>6, UnderOrder

\* What is dropped for the censor is dropped when the step that ends a covered part ends it.
LEMMA ExceptedStays ==
  ASSUME Types, [Next]_vars, NEW q, Excepted(q), ~(Walk /\ Covering(F, q))
  PROVE  Excepted(q)'
<1>1. PICK i \in DOMAIN stack : Covering(stack[i], q)
  BY DEF Excepted, Callers
<1>2. PICK f : f = stack[i]
  OBVIOUS
<1>3. policy' = policy /\ Around
  BY PolicyKept, AroundAreKept
<1>4. Covering(f, q)'
  BY <1>1, <1>2, <1>3 DEF Covering, Covered
<1>5. CASE i # Len(stack)
  <2>1. f \in Callers'
    BY <1>2, <1>3, <1>5 DEF Around, Callers
  <2>2. QED
    BY <1>4, <2>1 DEF Excepted
<1>6. CASE i = Len(stack)
  <2>1. F = f /\ ~Walk
    BY <1>1, <1>2, <1>6 DEF F
  <2>5. ~Serialized
    <3>1. stack # <<>>
      BY <1>1
    <3>2. QED
      BY <3>1 DEF Serialized, Types, TasksInv
  <2>2. stack' = stack
    BY <2>1, <2>5 DEF Next, Sanitize, vars, walkVars
  <2>3. f \in Callers'
    BY <1>2, <2>2 DEF Callers
  <2>4. QED
    BY <1>4, <2>3 DEF Excepted
<1>7. QED
  BY <1>5, <1>6

\* A path stays spared when what is above it stays.
LEMMA SparedStays ==
  ASSUME Types, [Next]_vars, NEW q \in Seq(Names), NEW what, Spared(q, what),
         \A r \in Seq(Names) : Under(r, q) /\ r # q => out'[r] = out[r],
         ~(Walk /\ Covering(F, q))
  PROVE  Spared(q, what)'
<1> SUFFICES ASSUME NEW c \in Seq(Names), Named(c)', Under(c, q)
             PROVE  (c = q /\ what = "censor") \/ Excepted(q)'
  BY DEF Spared
<1>1. policy' = policy
  BY PolicyKept
<1>2. PICK r \in Seq(Names), k \in Names :
        c = Append(r, k) /\ k \in policy'.sensitive /\ out'[r].what \notin Lists
  BY DEF Named
<1>3. Under(r, c) /\ ~Under(c, r)
  BY <1>2, NameBelow
<1>4. Under(r, q) /\ r # q
  BY <1>3, UnderOrder
<1>5. Named(c)
  BY <1>1, <1>2, <1>4 DEF Named
<1>6. (c = q /\ what = "censor") \/ Excepted(q)
  BY <1>5 DEF Spared
<1>7. QED
  BY <1>6, ExceptedStays

\* What is above a path of the copy, or where a call is, stays what it was.
LEMMA CopyAbove ==
  ASSUME OutInv, OutInv', TreeInv, OnePlace, NEW q \in DOMAIN out, q \in DOMAIN out'
  PROVE  \A r \in Seq(Names) : Under(r, q) /\ r # q => r \in DOMAIN out /\ out'[r] = out[r]
<1> SUFFICES ASSUME NEW r \in Seq(Names), Under(r, q), r # q
             PROVE  r \in DOMAIN out /\ out'[r] = out[r]
  OBVIOUS
<1>1. r \in DOMAIN out
  BY DEF TreeInv, PrefixesIn
<1>2. QED
  BY <1>1, AboveStays

LEMMA CallAbove ==
  ASSUME F \in Frames, FrameTree(out, F), Writing, NEW q \in Seq(Names), Under(q, F.path)
  PROVE  \A r \in Seq(Names) : Under(r, q) /\ r # q => r \in DOMAIN out /\ out'[r] = out[r]
<1> SUFFICES ASSUME NEW r \in Seq(Names), Under(r, q), r # q
             PROVE  r \in DOMAIN out /\ out'[r] = out[r]
  OBVIOUS
<1>1. PICK b \in Seq(Names) : b = F.path
  BY FrameParts
<1>2. Under(r, b) /\ r # b
  <2>1. Under(r, b)
    BY <1>1, UnderOrder
  <2>2. r # b
    <3> SUFFICES ASSUME r = b PROVE FALSE
      OBVIOUS
    <3>1. Len(r) <= Len(q) /\ Len(q) <= Len(r) /\ Len(r) \in Nat /\ Len(q) \in Nat
      BY <1>1, UnderOrder, LenProperties
    <3>2. Len(r) = Len(q)
      BY <3>1
    <3>3. QED
      BY <3>2, UnderOrder
  <2>3. QED
    BY <2>1, <2>2
<1>3. r \in DOMAIN out
  BY <1>1, <1>2 DEF FrameTree, PrefixesIn
<1>4. ASSUME NEW p \in Seq(Names), Under(b, p), Replaces(p) PROVE out'[r] = out[r]
  <2>1. r # p
    <3> SUFFICES ASSUME r = p PROVE FALSE
      OBVIOUS
    <3>1. Len(r) <= Len(b) /\ Len(b) <= Len(r) /\ Len(r) \in Nat /\ Len(b) \in Nat
      BY <1>2, <1>4, UnderOrder, LenProperties
    <3>2. Len(r) = Len(b)
      BY <3>1
    <3>3. QED
      BY <1>2, <3>2, UnderOrder
  <2>2. QED
    BY <1>2, <1>3, <1>4, <2>1, ReplacedKeeps
<1>5. QED
  BY <1>1, <1>3, <1>4 DEF Writing

\* A path above the innermost call is not below a part of that call.
LEMMA AboveNoPart ==
  ASSUME F \in Frames, NEW q \in Seq(Names), Under(q, F.path)
  PROVE  ~Covering(F, q)
<1>1. PICK b \in Seq(Names), k \in Names : b = F.path /\ k = F.part
  BY FrameParts
<1>2. PICK c : c = Append(b, k)
  OBVIOUS
<1>3. c \in Seq(Names) /\ ~Under(c, b) /\ c = PartPath(F)
  BY <1>1, <1>2, NameBelow DEF PartPath
<1>4. ~Under(c, q)
  BY <1>1, <1>3, UnderOrder
<1>5. QED
  BY <1>3, <1>4 DEF Covering

\* A name that may be written below a spared path.
LEMMA BelowSpared ==
  ASSUME Types', NEW p \in Seq(Names), NEW k \in Names, NEW q, q = Append(p, k), NEW what,
         Spared(p, "leaf")',
         k \in policy'.sensitive /\ out'[p].what \notin Lists => what = "censor" \/ Excepted(q)'
  PROVE  Spared(q, what)'
<1> SUFFICES ASSUME NEW c \in Seq(Names), Named(c)', Under(c, q)
             PROVE  (c = q /\ what = "censor") \/ Excepted(q)'
  BY DEF Spared
<1>1. q \in Seq(Names) /\ Under(p, q) /\ (c = q \/ Under(c, p))
  BY NameBelow
<1>2. CASE c = q
  <2>1. PICK r \in Seq(Names), l \in Names :
          q = Append(r, l) /\ l \in policy'.sensitive /\ out'[r].what \notin Lists
    BY <1>2 DEF Named
  <2>4. Append(p, k) = Append(r, l)
    BY <2>1
  <2>2. p = r /\ k = l
    BY <2>4, AppendIs
  <2>3. QED
    BY <1>2, <2>1, <2>2
<1>3. CASE Under(c, p)
  <2>1. Excepted(p)'
    BY <1>3 DEF Spared
  <2>2. PICK f \in Callers' : Covering(f, p)'
    BY <2>1 DEF Excepted
  <2>3. PICK d : d = PartPath(f)
    OBVIOUS
  <2>4. d \in Seq(Names)
    <3>1. f \in Frames
      BY <2>2 DEF Callers, Types, StackInv
    <3>2. QED
      BY <2>3, <3>1, PartPathIs
  <2>5. Covering(f, q)'
    BY <1>1, <2>2, <2>3, <2>4, UnderOrder DEF Covering
  <2>6. QED
    BY <2>2, <2>5 DEF Excepted
<1>4. QED
  BY <1>1, <1>2, <1>3

LEMMA WalksMove ==
  ASSUME Types, Types', PolicyInv, TreeInv, Walk, ~WalkDegraded
  PROVE  /\ Walking /\ stack # <<>> /\ F \in Callers /\ F \in Frames /\ FrameTree(out, F)
         /\ NameMoves
         /\ Writing \/ (DOMAIN out' = {<<>>} /\ Callers' = {})
<1>1. Walking /\ stack # <<>>
  BY WalkShape DEF Walking
<1>2. F \in Callers /\ F \in Frames /\ FrameTree(out, F) /\ StackInv
  BY <1>1, CallsAreTree DEF Callers, Types
<1>3. TodoOK(F)
  BY <1>2 DEF PolicyInv, PolicyFrame
<1>4. NameMoves /\ TreeMoves
  BY <1>2, <1>3, TreeMovesAre, NameMovesAre
<1>5. ASSUME Ends, Len(stack) = 1 PROVE Callers' = {}
  <2>1. DOMAIN stack' = 1..0
    BY <1>1, <1>2, <1>5, EndsShape
  <2>2. QED
    BY <2>1 DEF Callers
<1>6. Writing \/ (DOMAIN out' = {<<>>} /\ Callers' = {})
  BY <1>4, <1>5 DEF TreeMoves, Writing
<1>7. QED
  BY <1>1, <1>2, <1>4, <1>6

\* The calls after a step write where calls were, but for one that has begun below.
LEMMA CallersMove ==
  ASSUME Types, Types', PolicyInv, TreeInv, Walk, ~WalkDegraded, NEW g \in Callers'
  PROVE  \/ \E h \in Callers : Under(h.path, F.path) /\ g.path = h.path /\ g.owner = h.owner
         \/ UNCHANGED out /\ \E f \in Callers' : NameCall(f, g)
<1>1. stack # <<>> /\ F \in Callers /\ F \in Frames /\ NameMoves /\ StackInv
  BY WalksMove DEF Types
<1>2. PICK n \in Nat \ {0} : n = Len(stack) /\ DOMAIN stack = 1..n
  BY <1>1, FIs
<1>3. PICK i \in DOMAIN stack' : g = stack'[i]
  BY DEF Callers
<1>4. Under(F.path, F.path)
  BY <1>1, FrameParts, UnderOrder
<1>5. ASSUME NEW h, h.path = F.path, h.owner = F.owner, g = h
      PROVE  \E e \in Callers : Under(e.path, F.path) /\ g.path = e.path /\ g.owner = e.owner
  BY <1>1, <1>4, <1>5
<1>6. ASSUME i \in 1..(n - 1), stack'[i] = stack[i]
      PROVE  \E e \in Callers : Under(e.path, F.path) /\ g.path = e.path /\ g.owner = e.owner
  <2>1. PICK e : e = stack[i]
    OBVIOUS
  <2>2. Within(i, e, F) /\ i \in DOMAIN stack
    BY <1>1, <1>2, <1>6, <2>1, CallsAreTree
  <2>3. e \in Callers /\ Under(e.path, F.path) /\ g = e
    BY <1>3, <1>6, <2>1, <2>2 DEF Callers, Within
  <2>4. QED
    BY <2>3
<1>7. CASE Ends
  <2>1. DOMAIN stack' = 1..(n - 1) /\ \A j \in 1..(n - 1) : stack'[j] = stack[j]
    BY <1>1, <1>2, <1>7, EndsShape
  <2>2. QED
    BY <1>3, <1>6, <2>1
<1>8. CASE Raise
  <2>1. stack' = stack
    BY <1>8 DEF Raise
  <2>2. i = n \/ i \in 1..(n - 1)
    BY <1>2, <1>3, <2>1
  <2>3. CASE i = n
    BY <1>2, <1>3, <1>5, <2>1, <2>3 DEF F
  <2>4. QED
    BY <1>6, <2>1, <2>2, <2>3
<1>9. ASSUME NEW f, NameTurn(f)
      PROVE  \E e \in Callers : Under(e.path, F.path) /\ g.path = e.path /\ g.owner = e.owner
  <2>1. Turns(f) /\ f.path = F.path /\ f.owner = F.owner
    BY <1>9 DEF NameTurn, SameCall
  <2>2. DOMAIN stack' = 1..n /\ stack'[n] = f /\ \A j \in 1..(n - 1) : stack'[j] = stack[j]
    BY <1>1, <1>2, <2>1, TurnsShape
  <2>3. i = n \/ i \in 1..(n - 1)
    BY <1>2, <1>3, <2>2
  <2>4. CASE i = n
    BY <1>3, <1>5, <2>1, <2>2, <2>4
  <2>5. QED
    BY <1>6, <2>2, <2>3, <2>4
<1>10. ASSUME UNCHANGED out, NEW f, NEW h, NameCall(f, h)
       PROVE  \/ \E e \in Callers : Under(e.path, F.path) /\ g.path = e.path /\ g.owner = e.owner
              \/ UNCHANGED out /\ \E e \in Callers' : NameCall(e, g)
  <2>1. Calls2(f, h) /\ f.path = F.path /\ f.owner = F.owner
    BY <1>10 DEF NameCall, SameCall
  <2>2. /\ DOMAIN stack' = 1..(n + 1) /\ stack'[n] = f /\ stack'[n + 1] = h
        /\ \A j \in 1..(n - 1) : stack'[j] = stack[j]
    BY <1>1, <1>2, <2>1, CallsShape
  <2>3. i = n + 1 \/ i = n \/ i \in 1..(n - 1)
    BY <1>2, <1>3, <2>2
  <2>4. CASE i = n
    BY <1>3, <1>5, <2>1, <2>2, <2>4
  <2>5. CASE i = n + 1
    <3>1. g = h /\ f \in Callers'
      <4>1. n \in 1..(n + 1)
        BY <1>2
      <4>2. QED
        BY <1>3, <2>2, <2>5, <4>1 DEF Callers
    <3>2. QED
      BY <1>10, <3>1
  <2>6. QED
    BY <1>6, <2>2, <2>3, <2>4, <2>5
<1>11. QED
  BY <1>1, <1>7, <1>8, <1>9, <1>10 DEF NameMoves

\* The place of a call, or of one around it, stays spared.
LEMMA CallSpared ==
  ASSUME Types, [Next]_vars, Walk, NamesInv, F \in Frames, FrameTree(out, F), Writing,
         NEW h \in Callers, Under(h.path, F.path)
  PROVE  Spared(h.path, "leaf")'
<1>1. PICK p : p = h.path
  OBVIOUS
<1>2. p \in Seq(Names)
  BY <1>1, FrameParts DEF Callers, Types, StackInv
<1>3. Spared(p, "leaf") /\ Under(p, F.path)
  BY <1>1 DEF NamesInv
<1>4. \A r \in Seq(Names) : Under(r, p) /\ r # p => out'[r] = out[r]
  BY <1>2, <1>3, CallAbove
<1>5. ~Covering(F, p)
  BY <1>2, <1>3, AboveNoPart
<1>6. Spared(p, "leaf")'
  BY <1>2, <1>3, <1>4, <1>5, SparedStays
<1>7. QED
  BY <1>1, <1>6

\* So is that of a call which begins.
LEMMA BegunSpared ==
  ASSUME Types, Types', [Next]_vars, PolicyInv, TreeInv, NamesInv, Walk, ~WalkDegraded,
         UNCHANGED out, NEW f \in Callers', NEW g \in Callers', NameCall(f, g)
  PROVE  Spared(g.path, "leaf")'
<1>1. /\ Walking /\ F \in Callers /\ F \in Frames /\ FrameTree(out, F) /\ Writing
  BY WalksMove DEF Writing
<1>2. PICK p \in Seq(Names) : p = F.path
  BY <1>1, FrameParts
<1>3. Spared(p, "leaf")'
  <2>1. Under(F.path, F.path)
    BY <1>2, UnderOrder
  <2>2. QED
    BY <1>1, <1>2, <2>1, CallSpared
<1>4. CASE g.path = F.path
  BY <1>2, <1>3, <1>4
<1>5. ASSUME NEW k \in Names, g.path = Append(F.path, k), F.step \in OpenSteps,
             \/ IsArray(F.value)
             \/ k \notin policy.sensitive /\ k \in KeysOf(F.value)
             \/ f.step = "linked" /\ f.part = k /\ k # "stack"
      PROVE  Spared(g.path, "leaf")'
  <2>1. PICK q : q = Append(p, k) /\ q = g.path
    BY <1>2, <1>5
  <2>2. policy' = policy
    BY PolicyKept
  <2>3. ASSUME k \in policy.sensitive, out[p].what \notin Lists
        PROVE  Excepted(q)'
    <3>1. ~IsArray(F.value)
      BY <1>1, <1>2, <1>5, <2>3 DEF FrameTree, CopyIn, Lists
    <3>2. f.step = "linked" /\ f.part = k /\ f.path = p
      BY <1>2, <1>5, <2>3, <3>1 DEF NameCall, SameCall
    <3>3. Covered(k)'
      BY <2>2, <2>3 DEF Covered, Covers
    <3>4. PartPath(f) = q /\ q \in Seq(Names)
      BY <2>1, <3>2, NameBelow DEF PartPath
    <3>5. Covering(f, q)'
      BY <3>2, <3>3, <3>4, UnderOrder DEF Covering
    <3>6. QED
      BY <3>5 DEF Excepted
  <2>4. Spared(q, "leaf")'
    BY <1>3, <2>1, <2>2, <2>3, BelowSpared
  <2>5. QED
    BY <2>1, <2>4
<1>6. QED
  BY <1>4, <1>5 DEF NameCall

LEMMA RootSpared ==
  ASSUME NEW what
  PROVE  Spared(<<>>, what)'
<1>1. \A c \in Seq(Names) : Under(c, <<>>) => c = <<>>
  BY RootIsAbove
<1>2. ASSUME NEW c \in Seq(Names), Named(c)' PROVE c # <<>>
  BY <1>2, NameBelow DEF Named
<1>3. QED
  BY <1>1, <1>2 DEF Spared

LEMMA CallersSpared ==
  ASSUME Types, Types', [Next]_vars, PolicyInv, TreeInv, NamesInv, NEW g \in Callers'
  PROVE  Spared(g.path, "leaf")'
<1>1. ASSUME NEW h \in Callers, g.path = h.path, ~Walk \/ WalkDegraded, UNCHANGED out
      PROVE  Spared(g.path, "leaf")'
  <2>1. PICK p : p = h.path /\ p = g.path
    BY <1>1
  <2>0. p \in Seq(Names)
    BY <2>1, FrameParts DEF Callers, Types, StackInv
  <2>2. p \in Seq(Names) /\ Spared(p, "leaf")
    BY <2>0, <2>1 DEF NamesInv
  <2>3. ~(Walk /\ Covering(F, p))
    BY <1>1 DEF Covering, WalkDegraded, At
  <2>4. Spared(p, "leaf")'
    BY <1>1, <2>2, <2>3, SparedStays
  <2>5. QED
    BY <2>1, <2>4
<1>2. CASE Walk /\ ~WalkDegraded
  <2>1. Writing
    BY <1>2, WalksMove
  <2>2. F \in Frames /\ FrameTree(out, F)
    BY <1>2, WalksMove
  <2>3. CASE \E h \in Callers : Under(h.path, F.path) /\ g.path = h.path /\ g.owner = h.owner
    <3>1. PICK h \in Callers : Under(h.path, F.path) /\ g.path = h.path
      BY <2>3
    <3>2. Spared(h.path, "leaf")'
      BY <1>2, <2>1, <2>2, <3>1, CallSpared
    <3>3. PICK p : p = g.path
      OBVIOUS
    <3>4. Spared(p, "leaf")'
      BY <3>1, <3>2, <3>3
    <3>5. QED
      BY <3>3, <3>4
  <2>4. CASE UNCHANGED out /\ \E f \in Callers' : NameCall(f, g)
    BY <1>2, <2>4, BegunSpared
  <2>5. QED
    BY <1>2, <2>3, <2>4, CallersMove
<1>3. CASE WalkDegraded
  <2>1. Walking /\ stack # <<>> /\ UNCHANGED out
    BY <1>3 DEF WalkDegraded, At, Walking
  <2>2. PICK f : Turns(f) /\ f.path = F.path
    BY <1>3, <2>1, DegradedShape
  <2>3. PICK n \in Nat \ {0} : n = Len(stack) /\ DOMAIN stack = 1..n /\ F = stack[n] /\ StackInv
    BY <2>1, FIs DEF F, Types
  <2>4. DOMAIN stack' = 1..n /\ stack'[n] = f /\ \A j \in 1..(n - 1) : stack'[j] = stack[j]
    BY <2>1, <2>2, <2>3, TurnsShape
  <2>5. PICK i \in 1..n : g = stack'[i]
    BY <2>4 DEF Callers
  <2>6. \E h \in Callers : g.path = h.path
    <3>1. CASE i = n
      BY <2>2, <2>3, <2>4, <2>5, <3>1 DEF Callers
    <3>2. CASE i # n
      BY <2>3, <2>4, <2>5, <3>2 DEF Callers
    <3>3. QED
      BY <3>1, <3>2
  <2>7. QED
    BY <1>1, <1>3, <2>1, <2>6
<1>4. CASE (Sanitize \/ UNCHANGED vars) /\ ~Walk
  <2>1. stack' = stack /\ UNCHANGED out
    BY <1>4 DEF Sanitize, vars, walkVars
  <2>2. g \in Callers
    BY <2>1 DEF Callers
  <2>3. QED
    BY <1>1, <1>4, <2>1, <2>2
<1>5. CASE Serialized
  <2>1. PICK f : stack' = <<f>> /\ f.path = <<>>
    BY <1>5, SerializedShape
  <2>2. g.path = <<>>
    BY <2>1 DEF Callers
  <2>3. PICK p : p = g.path /\ p = <<>>
    BY <2>2
  <2>4. Spared(<<>>, "leaf")'
    BY RootSpared
  <2>5. Spared(p, "leaf")'
    BY <2>3, <2>4
  <2>6. QED
    BY <2>3, <2>5
<1>6. QED
  BY <1>2, <1>3, <1>4, <1>5 DEF Next

\* The marks of a list's members stand below a list.
LEMMA MarksAreInLists ==
  ASSUME Types, Types', FrameTree(out, F), F \in Frames, Writing, NEW q \in DOMAIN out',
         ~Kept(q), MarkerWrite(q, out'[q])
  PROVE  \E c \in Seq(Names), k \in Names :
           c = PartPath(F) /\ q = Append(c, k) /\ out'[c].what = "markers" /\ ~Covered(F.part)
<1>1. PICK b \in Seq(Names), m \in Names : b = F.path /\ m = F.part
  BY FrameParts
<1>2. PICK c : c = Append(b, m) /\ c = PartPath(F)
  BY <1>1 DEF PartPath
<1>3. c \in Seq(Names) /\ F.step = "link" /\ ~Covered(F.part) /\ q \in Seq(Names)
  <2>1. c \in Seq(Names)
    BY <1>1, <1>2, NameBelow
  <2>2. F.step = "link" /\ ~Covered(F.part)
    BY DEF MarkerWrite
  <2>3. q \in Seq(Names)
    BY DEF Types, OutInv
  <2>4. QED
    BY <2>1, <2>2, <2>3
<1>4. CopyIn(out, F)
  BY <1>3 DEF FrameTree, OpenSteps
<1>5. FreshIn(out, c)
  <2>1. ~KeyDone(F, m)
    BY <1>1, <1>3 DEF KeyDone
  <2>2. QED
    BY <1>1, <1>2, <1>4, <2>1, ChildPlace
<1>6. PICK x : q = Append(c, x)
  BY <1>2 DEF MarkerWrite
<1>7. x \in Names
  <2>1. PICK n \in Nat : n = Len(c)
    BY <1>3, LenProperties
  <2>2. Len(q) = n + 1 /\ q[n + 1] = x
    BY <1>3, <1>6, <2>1
  <2>3. QED
    BY <1>3, <2>1, <2>2, ElementOfSeq
<1>8. PICK p \in Seq(Names) : PrefixesIn(out, p) /\ Replaces(p)
  BY DEF Writing, Kept
<1>9. Under(p, q)
  BY <1>3, <1>8 DEF Replaces, Kept
<1>10. p # q
  <2> SUFFICES ASSUME p = q PROVE FALSE
    OBVIOUS
  <2>1. Under(c, q) /\ c # q
    BY <1>3, <1>6, <1>7, NameBelow
  <2>2. c \in DOMAIN out
    BY <1>3, <1>8, <2>1 DEF PrefixesIn
  <2>3. QED
    BY <1>3, <1>5, <2>2, UnderOrder DEF FreshIn
<1>11. PICK k \in Names : out'[p].what = "markers" /\ q = Append(p, k)
  BY <1>8, <1>9, <1>10 DEF Replaces
<1>12. p = c
  <2>1. Append(p, k) = Append(c, x)
    BY <1>6, <1>11
  <2>2. QED
    BY <1>3, <1>7, <2>1, AppendIs
<1>13. QED
  BY <1>2, <1>3, <1>6, <1>7, <1>11, <1>12

\* A key under which a call writes is a name.
LEMMA FieldWriteIs ==
  ASSUME Types, F \in Frames, FrameTree(out, F), NEW q, NEW e, FieldWrite(q, e)
  PROVE  \E k \in Names :
           /\ q = Append(F.path, k) /\ e.owner = Origin(F.value)
           /\ F.step \in OpenSteps /\ CopyIn(out, F)
           /\ \/ e.what = "censor"
              \/ ~Covered(k)
              \/ k = INCOMPLETE_KEY
<1>1. PICK k :
        /\ q = Append(F.path, k) /\ e.owner = Origin(F.value)
        /\ \/ F.step = "fields" /\ F.todo # <<>> /\ k = Head(F.todo) /\ e.what = "censor"
           \/ /\ F.step = "parts" /\ F.todo # <<>> /\ k = Head(F.todo)
              /\ Covered(k) => e.what = "censor"
           \/ F.step = "parts" /\ k = INCOMPLETE_KEY
           \/ F.step = "link" /\ k = F.part /\ ~Covered(k)
           \/ F.step \in {"link", "linked"} /\ k = F.part /\ e.what = "censor"
  BY Zenon DEF FieldWrite
<1>2. F.step \in OpenSteps
  BY <1>1 DEF OpenSteps
<1>3. CopyIn(out, F) /\ F.part \in Names
  BY <1>2, FrameParts DEF FrameTree
<1>4. k \in Names
  BY <1>1, <1>3, NextKey, NamesAre
<1>5. QED
  BY <1>1, <1>2, <1>3, <1>4

LEMMA WritesSpared ==
  ASSUME Types, Types', [Next]_vars, PolicyInv, TreeInv, NamesInv,
         INCOMPLETE_KEY \notin policy.sensitive, NEW q \in DOMAIN out', NEW w, w = out'[q].what
  PROVE  Spared(q, w)'
<1>1. OutInv /\ OutInv' /\ OnePlace /\ q \in Seq(Names)
  BY StepsWriteOnce DEF Types, OutInv
<1>2. CASE Kept(q) /\ ~(Walk /\ Covering(F, q))
  <2>1. q \in DOMAIN out /\ Spared(q, w)
    BY <1>2 DEF Kept, NamesInv
  <2>2. \A r \in Seq(Names) : Under(r, q) /\ r # q => out'[r] = out[r]
    BY <1>1, <2>1, CopyAbove
  <2>3. QED
    BY <1>1, <1>2, <2>1, <2>2, SparedStays
<1>3. CASE Walk /\ ~WalkDegraded
  <2>0. CASE q = <<>>
    <3>1. Spared(<<>>, w)'
      BY RootSpared
    <3>2. QED
      BY <2>0, <3>1
  <2> SUFFICES ASSUME q # <<>> PROVE Spared(q, w)'
    BY <2>0
  <2>1. Walking /\ F \in Callers /\ F \in Frames /\ FrameTree(out, F) /\ NameMoves /\ Writing
    BY <1>3, WalksMove
  <2>2. PICK p \in Seq(Names) : p = F.path
    BY <2>1, FrameParts
  <2>3. Spared(p, "leaf")'
    <3>1. Under(F.path, F.path)
      BY <2>2, UnderOrder
    <3>2. QED
      BY <1>3, <2>1, <2>2, <3>1, CallSpared
  <2>4. policy' = policy
    BY PolicyKept
  <2>5. CASE Covering(F, q)
    <3>1. PartGone
      BY <2>1, <2>5 DEF NameMoves, NameTurn, NameCall, Covering, Raise
    <3>2. q = PartPath(F) /\ w = "censor"
      BY <2>5, <3>1 DEF PartGone, Covering
    <3>3. PICK k \in Names : k = F.part
      BY <2>1, FrameParts
    <3>4. q = Append(p, k)
      BY <2>2, <3>2, <3>3 DEF PartPath
    <3>5. QED
      BY <2>3, <3>2, <3>4, BelowSpared
  <2>6. CASE OwnWrite(q, out'[q])
    <3>1. q = p
      BY <2>2, <2>6 DEF OwnWrite
    <3>2. QED
      BY <2>3, <3>1 DEF Spared
  <2>7. CASE FieldWrite(q, out'[q])
    <3>1. PICK k \in Names : /\ q = Append(F.path, k)
                             /\ w = "censor" \/ ~Covered(k) \/ k = INCOMPLETE_KEY
      BY <2>1, <2>7, FieldWriteIs
    <3>2. ~Covered(k) => k \notin policy.sensitive
      BY DEF Covered, Covers
    <3>3. q = Append(p, k) /\ (k \in policy'.sensitive => w = "censor")
      BY <2>2, <2>4, <3>1, <3>2
    <3>4. QED
      BY <2>3, <3>3, BelowSpared
  <2>8. CASE MarkerWrite(q, out'[q]) /\ ~Kept(q)
    <3>1. PICK c \in Seq(Names), k \in Names :
            c = PartPath(F) /\ q = Append(c, k) /\ out'[c].what = "markers" /\ ~Covered(F.part)
      BY <2>1, <2>8, MarksAreInLists
    <3>2. PICK m \in Names : m = F.part
      BY <2>1, FrameParts
    <3>3. c = Append(p, m)
      BY <2>2, <3>1, <3>2 DEF PartPath
    <3>4. m \notin policy'.sensitive
      BY <2>4, <3>1, <3>2 DEF Covered, Covers
    <3>5. Spared(c, "leaf")'
      BY <2>3, <3>3, <3>4, BelowSpared
    <3>6. out'[c].what \in Lists
      BY <3>1 DEF Lists
    <3>7. QED
      BY <3>1, <3>5, <3>6, BelowSpared
  <2>9. CASE EnvelopeWrite(q, out'[q])
    BY <2>9 DEF EnvelopeWrite
  <2>10. QED
    BY <1>2, <1>3, <2>5, <2>6, <2>7, <2>8, <2>9, WalkWrites DEF Written
<1>4. CASE ~Walk \/ WalkDegraded
  <2>1. Kept(q)
    BY <1>4, WalkWrites DEF WalkDegraded, Kept
  <2>2. ~(Walk /\ Covering(F, q))
    BY <1>4 DEF Covering, WalkDegraded, At
  <2>3. QED
    BY <1>2, <2>1, <2>2
<1>5. QED
  BY <1>3, <1>4

LEMMA NamesNext ==
  ASSUME Types, [Next]_vars, PolicyInv, TreeInv, NamesInv, INCOMPLETE_KEY \notin policy.sensitive
  PROVE  NamesInv'
<1>1. Types'
  BY NextTypes
<1>2. ASSUME NEW q \in DOMAIN out' PROVE \A w : w = out'[q].what => Spared(q, w)'
  BY <1>1, <1>2, WritesSpared
<1>3. ASSUME NEW f \in Callers' PROVE Spared(f.path, "leaf")'
  BY <1>1, <1>3, CallersSpared
<1>4. QED
  BY <1>2, <1>3 DEF NamesInv

\* The stack of an error is text the error's fields do not hold, as before the step, where
\* the copy above it is what it was.
LEMMA TextStays ==
  ASSUME Types, [Next]_vars, NEW q \in Seq(Names), NEW o \in Values, StackText(q, o)',
         \A r \in Seq(Names) : Under(r, q) /\ r # q => out'[r] = out[r]
  PROVE  StackText(q, o)
<1>1. PICK r \in Seq(Names) :
        q = Append(r, "stack") /\ IsError(o)' /\ o = out'[r].of /\ "stack" \notin KeysOf(o)'
  BY DEF StackText
<1>2. Under(r, q) /\ r # q
  <2>1. PICK k \in Names : k = "stack"
    BY NamesAre
  <2>2. q = Append(r, k)
    BY <1>1, <2>1
  <2>3. QED
    BY <2>2, NameBelow
<1>3. IsError(o) /\ heap'[o] = heap[o]
  BY <1>1, ErrorsStay
<1>4. out'[r] = out[r]
  BY <1>2
<1>5. QED
  BY <1>1, <1>3, <1>4 DEF StackText, KeysOf

LEMMA NoTextAtRoot ==
  ASSUME NEW o
  PROVE  ~StackText(<<>>, o)'
<1>1. ASSUME NEW r \in Seq(Names) PROVE Append(r, "stack") # <<>>
  <2>1. PICK k \in Names : k = "stack"
    BY NamesAre
  <2>2. PICK c : c = Append(r, k)
    OBVIOUS
  <2>3. c # <<>>
    BY <2>2, NameBelow
  <2>4. QED
    BY <2>1, <2>2, <2>3
<1>2. QED
  BY <1>1 DEF StackText

LEMMA CallersText ==
  ASSUME Types, Types', [Next]_vars, PolicyInv, TreeInv, TextInv, NEW g \in Callers'
  PROVE  ~StackText(g.path, g.owner)'
<1>0. PICK p, o : p = g.path /\ o = g.owner
  OBVIOUS
<1> SUFFICES ASSUME StackText(p, o)' PROVE FALSE
  BY <1>0
<1>1. p \in Seq(Names) /\ o \in Values
  BY <1>0, FrameParts DEF Callers, Types, StackInv
<1>2. ASSUME NEW h \in Callers, p = h.path, o = h.owner,
             \A r \in Seq(Names) : Under(r, p) /\ r # p => out'[r] = out[r]
      PROVE  FALSE
  <2>1. StackText(p, o)
    BY <1>1, <1>2, TextStays
  <2>2. QED
    BY <1>2, <2>1 DEF TextInv
<1>3. CASE Walk /\ ~WalkDegraded
  <2>1. Writing /\ F \in Frames /\ FrameTree(out, F)
    BY <1>3, WalksMove
  <2>2. CASE \E h \in Callers : Under(h.path, F.path) /\ g.path = h.path /\ g.owner = h.owner
    <3>1. PICK h \in Callers : Under(p, F.path) /\ p = h.path /\ o = h.owner
      BY <1>0, <2>2
    <3>2. \A r \in Seq(Names) : Under(r, p) /\ r # p => out'[r] = out[r]
      BY <1>1, <2>1, <3>1, CallAbove
    <3>3. QED
      BY <1>2, <3>1, <3>2
  <2>3. ASSUME UNCHANGED out, NEW f \in Callers', NameCall(f, g) PROVE FALSE
    <3>1. CASE g.path = F.path /\ g.owner = F.owner
      <4>1. F \in Callers
        BY <1>3, WalksMove
      <4>2. QED
        BY <1>0, <1>2, <2>3, <3>1, <4>1
    <3>2. ASSUME NEW k \in Names, g.path = Append(F.path, k), g.owner = Origin(F.value),
                 F.step \in OpenSteps,
                 \/ IsArray(F.value)
                 \/ k \notin policy.sensitive /\ k \in KeysOf(F.value)
                 \/ f.step = "linked" /\ f.part = k /\ k # "stack"
          PROVE  FALSE
      <4>1. PICK r \in Seq(Names) :
              p = Append(r, "stack") /\ IsError(o)' /\ o = out'[r].of /\ "stack" \notin KeysOf(o)'
        BY DEF StackText
      <4>2. PICK b \in Seq(Names) : b = F.path
        BY <2>1, FrameParts
      <4>3. b = r /\ k = "stack"
        <5>1. PICK x \in Names : x = "stack"
          BY NamesAre
        <5>2. Append(b, k) = Append(r, x)
          BY <1>0, <3>2, <4>1, <4>2, <5>1
        <5>3. QED
          BY <5>1, <5>2, AppendIs
      <4>4. out[b].of = F.value
        BY <2>1, <3>2, <4>2 DEF FrameTree, CopyIn
      <4>5. o = F.value
        BY <2>3, <4>1, <4>3, <4>4
      <4>6. IsError(o) /\ heap'[o] = heap[o]
        BY <1>1, <4>1, ErrorsStay
      <4>7. ~IsArray(F.value) /\ "stack" \notin KeysOf(F.value)
        BY <4>1, <4>5, <4>6 DEF IsArray, IsError, IsKind, KeysOf
      <4>8. QED
        BY <3>2, <4>3, <4>7
    <3>3. QED
      BY <2>3, <3>1, <3>2 DEF NameCall
  <2>4. QED
    BY <1>3, <2>2, <2>3, CallersMove
<1>4. CASE WalkDegraded
  <2>1. Walking /\ stack # <<>> /\ UNCHANGED out
    BY <1>4 DEF WalkDegraded, At, Walking
  <2>2. PICK f : Turns(f) /\ f.path = F.path /\ f.owner = F.owner
    BY <1>4, <2>1, DegradedShape
  <2>3. PICK n \in Nat \ {0} : n = Len(stack) /\ DOMAIN stack = 1..n /\ F = stack[n] /\ StackInv
    BY <2>1, FIs DEF F, Types
  <2>4. DOMAIN stack' = 1..n /\ stack'[n] = f /\ \A j \in 1..(n - 1) : stack'[j] = stack[j]
    BY <2>1, <2>2, <2>3, TurnsShape
  <2>5. PICK i \in 1..n : g = stack'[i]
    BY <2>4 DEF Callers
  <2>6. \E h \in Callers : p = h.path /\ o = h.owner
    <3>1. CASE i = n
      BY <1>0, <2>2, <2>3, <2>4, <2>5, <3>1 DEF Callers
    <3>2. CASE i # n
      BY <1>0, <2>3, <2>4, <2>5, <3>2 DEF Callers
    <3>3. QED
      BY <3>1, <3>2
  <2>7. QED
    BY <1>2, <2>1, <2>6
<1>5. CASE (Sanitize \/ UNCHANGED vars) /\ ~Walk
  <2>1. stack' = stack /\ UNCHANGED out
    BY <1>5 DEF Sanitize, vars, walkVars
  <2>2. g \in Callers
    BY <2>1 DEF Callers
  <2>3. QED
    BY <1>0, <1>2, <2>1, <2>2
<1>6. CASE Serialized
  <2>1. PICK f : stack' = <<f>> /\ f.path = <<>>
    BY <1>6, SerializedShape
  <2>2. p = <<>>
    BY <1>0, <2>1 DEF Callers
  <2>3. ~StackText(<<>>, o)'
    BY NoTextAtRoot
  <2>4. QED
    BY <2>2, <2>3
<1>7. QED
  BY <1>3, <1>4, <1>5, <1>6 DEF Next

LEMMA WritesText ==
  ASSUME Types, Types', [Next]_vars, PolicyInv, TreeInv, TextInv, NEW q \in DOMAIN out',
         NEW o \in Values, o = out'[q].owner, StackText(q, o)'
  PROVE  {"name", "message"} \cap policy'.sensitive = {} \/ out'[q].what = "censor"
<1>1. OutInv /\ OutInv' /\ OnePlace /\ q \in Seq(Names) /\ policy' = policy
  BY StepsWriteOnce, PolicyKept DEF Types, OutInv
<1>2. CASE Kept(q)
  <2>1. q \in DOMAIN out /\ out'[q] = out[q]
    BY <1>2 DEF Kept
  <2>2. \A r \in Seq(Names) : Under(r, q) /\ r # q => out'[r] = out[r]
    BY <1>1, <2>1, CopyAbove
  <2>3. StackText(q, o)
    BY <1>1, <2>2, TextStays
  <2>4. QED
    BY <1>1, <2>1, <2>3 DEF TextInv
<1>3. CASE Walk /\ ~WalkDegraded /\ ~Kept(q)
  <2>0. q # <<>>
    <3>1. ~StackText(<<>>, o)'
      BY NoTextAtRoot
    <3>2. QED
      BY <3>1
  <2>1. Walking /\ F \in Callers /\ F \in Frames /\ FrameTree(out, F) /\ Writing
    BY <1>3, <2>0, WalksMove
  <2>2. PICK p \in Seq(Names) : p = F.path
    BY <2>1, FrameParts
  <2>3. \A r \in Seq(Names) : Under(r, p) /\ r # p => out'[r] = out[r]
    <3>1. Under(p, F.path)
      BY <2>2, UnderOrder
    <3>2. QED
      BY <2>1, <3>1, CallAbove
  <2>4. CASE OwnWrite(q, out'[q])
    <3>1. q = p /\ o = F.owner
      BY <2>2, <2>4, EntryParts DEF OwnWrite
    <3>2. StackText(q, o)
      BY <1>1, <2>3, <3>1, TextStays
    <3>3. QED
      BY <2>1, <2>2, <3>1, <3>2 DEF TextInv
  <2>5. CASE FieldWrite(q, out'[q])
    <3>1. PICK k \in Names : /\ q = Append(F.path, k)
                             /\ \/ out'[q].what = "censor"
                                \/ ~Covered(k)
                                \/ k = INCOMPLETE_KEY
      BY <2>1, <2>5, FieldWriteIs
    <3>2. PICK r \in Seq(Names), x \in Names : q = Append(r, x) /\ x = "stack"
      BY NamesAre DEF StackText
    <3>3. k = "stack"
      <4>1. Append(p, k) = Append(r, x)
        BY <2>2, <3>1, <3>2
      <4>2. QED
        BY <3>2, <4>1, AppendIs
    <3>4. ~Covered(k) => {"name", "message"} \cap policy.sensitive = {}
      BY <3>3 DEF Covered, Covers
    <3>5. INCOMPLETE_KEY # "stack"
      BY DEF INCOMPLETE_KEY
    <3>6. QED
      BY <1>1, <3>1, <3>3, <3>4, <3>5
  <2>6. CASE MarkerWrite(q, out'[q])
    <3>1. IsArray(o)
      BY <2>6 DEF MarkerWrite
    <3>2. IsError(o)
      BY ErrorsStay DEF StackText
    <3>3. QED
      BY <3>1, <3>2 DEF IsArray, IsError, IsKind
  <2>7. CASE EnvelopeWrite(q, out'[q])
    BY <2>0, <2>7 DEF EnvelopeWrite
  <2>8. QED
    BY <1>3, <2>4, <2>5, <2>6, <2>7, WalkWrites DEF Written
<1>4. CASE ~Walk \/ WalkDegraded
  BY <1>2, <1>4, WalkWrites DEF WalkDegraded, Kept
<1>5. QED
  BY <1>2, <1>3, <1>4

LEMMA TextNext ==
  ASSUME Types, [Next]_vars, PolicyInv, TreeInv, TextInv
  PROVE  TextInv'
<1>1. Types'
  BY NextTypes
<1>2. ASSUME NEW q \in DOMAIN out', NEW o \in Values, o = out'[q].owner, StackText(q, o)'
      PROVE  {"name", "message"} \cap policy'.sensitive = {} \/ out'[q].what = "censor"
  BY <1>1, <1>2, WritesText
<1>3. ASSUME NEW f \in Callers' PROVE ~StackText(f.path, f.owner)'
  BY <1>1, <1>3, CallersText
<1>4. QED
  BY <1>2, <1>3 DEF TextInv

LEMMA NamesInit ==
  Init => NamesInv /\ TextInv
<1> SUFFICES ASSUME Init PROVE NamesInv /\ TextInv
  OBVIOUS
<1>1. DOMAIN out = {}
  BY DEF Init
<1>2. PICK f : f = Frame(Record, <<>>, 0, FALSE, FALSE, Record)
  OBVIOUS
<1>3. stack = <<>> \/ stack = <<f>>
  BY <1>2, Zenon DEF Init
<1>4. ASSUME NEW g \in Callers PROVE g.path = <<>>
  <2>1. f.path = <<>>
    BY <1>2 DEF Frame
  <2>2. g = f
    BY <1>3 DEF Callers
  <2>3. QED
    BY <2>1, <2>2
<1>5. ASSUME NEW r \in Seq(Names), NEW k \in Names PROVE ~Under(Append(r, k), <<>>)
  <2>1. PICK c : c = Append(r, k)
    OBVIOUS
  <2>2. c \in Seq(Names) /\ c # <<>>
    BY <2>1, NameBelow
  <2>3. ~Under(c, <<>>)
    BY <2>2, RootIsAbove
  <2>4. QED
    BY <2>1, <2>3
<1>6. Spared(<<>>, "leaf")
  BY <1>5 DEF Spared, Named
<1>7. \A o : ~StackText(<<>>, o)
  <2>1. ASSUME NEW r \in Seq(Names) PROVE Append(r, "stack") # <<>>
    <3>1. PICK k \in Names : k = "stack"
      BY NamesAre
    <3>2. PICK c : c = Append(r, k)
      OBVIOUS
    <3>3. c # <<>>
      BY <3>2, NameBelow
    <3>4. QED
      BY <3>1, <3>2, <3>3
  <2>2. QED
    BY <2>1 DEF StackText
<1>8. ASSUME NEW g \in Callers PROVE Spared(g.path, "leaf") /\ ~StackText(g.path, g.owner)
  <2>1. PICK p : p = g.path /\ p = <<>>
    BY <1>4
  <2>2. Spared(p, "leaf") /\ \A o : ~StackText(p, o)
    BY <1>6, <1>7, <2>1
  <2>3. QED
    BY <2>1, <2>2
<1>9. QED
  BY <1>1, <1>8 DEF NamesInv, TextInv

LEMMA EndsByName ==
  ASSUME Types, NamesInv, TextInv
  PROVE  CensoredByName
<1>1. ASSUME Ended, NEW q \in DOMAIN out, NEW i \in DOMAIN q,
             q[i] \in policy.sensitive, out[SubSeq(q, 1, i - 1)].what \notin Lists
      PROVE  i = Len(q) /\ out[q].what = "censor"
  <2>1. q \in Seq(Names) /\ Callers = {}
    BY <1>1 DEF Ended, Types, OutInv, Callers
  <2>2. PICK r \in Seq(Names), k \in Names :
          /\ r = SubSeq(q, 1, i - 1) /\ k = q[i] /\ Under(Append(r, k), q)
          /\ Append(r, k) = q => i = Len(q)
    BY <1>1, <2>1, PrefixUnder
  <2>3. PICK c : c = Append(r, k)
    OBVIOUS
  <2>4. c \in Seq(Names)
    BY <2>3, NameBelow
  <2>5. Named(c)
    BY <1>1, <2>2, <2>3 DEF Named
  <2>6. Spared(q, out[q].what) /\ ~Excepted(q)
    BY <2>1 DEF NamesInv, Excepted
  <2>7. c = q /\ out[q].what = "censor"
    BY <2>2, <2>3, <2>4, <2>5, <2>6 DEF Spared
  <2>8. QED
    BY <2>2, <2>3, <2>7
<1>2. ASSUME Ended, {"name", "message"} \cap policy.sensitive # {}, NEW q \in DOMAIN out, q # <<>>,
             q[Len(q)] = "stack", IsError(out[q].owner),
             out[q].owner = out[SubSeq(q, 1, Len(q) - 1)].of, "stack" \notin KeysOf(out[q].owner)
      PROVE  out[q].what = "censor"
  <2>1. q \in Seq(Names)
    BY DEF Types, OutInv
  <2>2. Len(q) \in DOMAIN q /\ Len(q) \in Nat
    BY <1>2, <2>1, EmptySeq, LenProperties
  <2>3. PICK r \in Seq(Names), k \in Names :
          r = SubSeq(q, 1, Len(q) - 1) /\ k = q[Len(q)] /\ Under(Append(r, k), q)
    BY <2>1, <2>2, PrefixUnder
  <2>4. PICK c : c = Append(r, k)
    OBVIOUS
  <2>5. c \in Seq(Names) /\ Len(c) = Len(r) + 1
    BY <2>4, NameBelow
  <2>6. Len(r) = Len(q) - 1
    <3>1. Len(q) # 0
      BY <1>2, <2>1, EmptySeq
    <3>2. PICK n \in 0..Len(q) : n = Len(q) - 1
      <4>1. PICK m \in Nat : m = Len(q)
        BY <2>2
      <4>2. m - 1 \in 0..m
        BY <3>1, <4>1
      <4>3. QED
        BY <4>1, <4>2
    <3>3. r = SubSeq(q, 1, n)
      BY <2>3, <3>2
    <3>4. QED
      BY <2>1, <3>2, <3>3, PrefixIs
  <2>7. c = q
    <3>1. Len(c) = Len(q)
      BY <2>2, <2>5, <2>6
    <3>2. QED
      BY <2>1, <2>3, <2>4, <2>5, <3>1, UnderOrder
  <2>8. PICK o \in Values : o = out[q].owner
    BY DEF Types, OutInv, Entries
  <2>9. StackText(q, o)
    BY <1>2, <2>3, <2>4, <2>7, <2>8 DEF StackText
  <2>10. QED
    BY <1>2, <2>8, <2>9 DEF TextInv
<1>3. NothingUnderASensitiveName
  BY <1>1 DEF NothingUnderASensitiveName
<1>4. StackCarriesNoCensoredText
  BY <1>2 DEF StackCarriesNoCensoredText
<1>5. QED
  BY <1>3, <1>4 DEF CensoredByName

\* No policy censors the name under which the library itself marks a lost field.
MarkUncensored == \A p \in Policies : INCOMPLETE_KEY \notin p.sensitive

\* The censor is by name (walk, walkError, addErrorParts): at whatever depth a censored name
\* is, in an error, in its chain, in the error's degraded node or in what a toJSON returned,
\* nothing but the censor is written under it.  While a covered part is being walked what is
\* below it stands in the copy, and goes with the end of the part.  Of an error the walk writes
\* as data in a record the stack, which repeats the name and the message, goes with them; of
\* the stacks of degraded and of serialized nodes this says nothing, and they stay.
THEOREM NamesAreCensored == ASSUME MarkUncensored PROVE Spec => []CensoredByName
<1>1. Init => Types /\ CallsInv /\ NodesInv /\ FormsInv /\ PolicyInv /\ TreeInv
              /\ NamesInv /\ TextInv
  BY InitTypes, NodesInit, PolicyInit, TreeInit, NamesInit
<1>2. Types => INCOMPLETE_KEY \notin policy.sensitive
  BY DEF Types, ScalarsInv, MarkUncensored
<1>3. Types /\ CallsInv /\ NodesInv /\ FormsInv /\ PolicyInv /\ TreeInv /\ NamesInv /\ TextInv
      /\ [Next]_vars
      => (Types /\ CallsInv /\ NodesInv /\ FormsInv /\ PolicyInv /\ TreeInv /\ NamesInv /\ TextInv)'
  BY <1>2, NextTypes, CallsNext, NodesNext, PolicyNext, TreeNext, NamesNext, TextNext
<1>4. Types /\ NamesInv /\ TextInv => CensoredByName
  BY EndsByName
<1>5. QED
  BY <1>1, <1>3, <1>4, PTL DEF Spec

\* A set that differs from another at x at most.
LEMMA CountMoves ==
  ASSUME NEW S, NEW T, NEW x, IsFiniteSet(S), T \ {x} \subseteq S
  PROVE  /\ IsFiniteSet(T) /\ Cardinality(S) \in Nat /\ Cardinality(T) \in Nat
         /\ Cardinality(T) <= Cardinality(S) + 1
         /\ x \notin T \/ x \in S => Cardinality(T) <= Cardinality(S)
         /\ x \notin T /\ x \in S => Cardinality(T) <= Cardinality(S) - 1
<1>1. PICK U : U = S \cup {x}
  OBVIOUS
<1>2. IsFiniteSet(U) /\ Cardinality(U) = IF x \in S THEN Cardinality(S) ELSE Cardinality(S) + 1
  BY <1>1, FS_AddElement
<1>3. Cardinality(S) \in Nat
  BY FS_CardinalityType
<1>4. T \subseteq U
  BY <1>1
<1>5. IsFiniteSet(T) /\ Cardinality(T) <= Cardinality(U)
  BY <1>2, <1>4, FS_Subset
<1>6. Cardinality(T) \in Nat
  BY <1>5, FS_CardinalityType
<1>7. x \notin T => Cardinality(T) <= Cardinality(S)
  <2>1. x \notin T => T \subseteq S
    OBVIOUS
  <2>2. QED
    BY <2>1, FS_Subset
<1>8. x \notin T /\ x \in S => Cardinality(T) <= Cardinality(S) - 1
  <2>1. PICK V : V = S \ {x}
    OBVIOUS
  <2>2. IsFiniteSet(V) /\ (x \in S => Cardinality(V) = Cardinality(S) - 1)
    BY <2>1, FS_RemoveElement
  <2>3. x \notin T => T \subseteq V
    BY <2>1
  <2>4. x \notin T => Cardinality(T) <= Cardinality(V)
    BY <2>2, <2>3, FS_Subset
  <2>5. QED
    BY <2>2, <2>4
<1>9. QED
  BY <1>2, <1>3, <1>5, <1>6, <1>7, <1>8

-----------------------------------------------------------------------------
(***************************************************************************)
(* The budget of a walk.                                                   *)
(***************************************************************************)

\* The containers of the copy, the calls a visit was counted for that have none in it yet,
\* and the errors being walked, which may be walked once more as their nodes.
Counted   == {q \in DOMAIN out : out[q].what \in Containers /\ out[q].of \notin Markers}
Inspected == {i \in DOMAIN stack : stack[i].step \in {"inspect", "follow"}}
Failing   == {i \in DOMAIN stack : stack[i].step \notin {"enter", "degraded"}
                                   /\ IsError(stack[i].value)}

\* The next visit is that of a container that cannot fail again.
Readmits ==
  /\ stack # <<>>
  /\ \/ F.step = "degraded"
     \/ F.step = "enter" /\ IsObject(F.value) /\ ~IsError(F.value) /\ F.depth <= MaxDepth
Credit == IF Readmits /\ visits < MaxVisits THEN 1 ELSE 0

\* v visits pay for c containers of the copy and i calls that have none yet, and twice for
\* an error: a inspections were begun, f errors may cost one more, r is promised.
Used(v) == IF v < MaxVisits THEN v ELSE MaxVisits
Fits(v, a, c, i, f, r) == c + i <= Used(v) /\ a + f <= 2 * Used(v) + r

BudgetInv ==
  /\ IsFiniteSet(Counted) /\ IsFiniteSet(Inspected) /\ IsFiniteSet(Failing)
  /\ Fits(visits, admitted, Cardinality(Counted), Cardinality(Inspected),
          Cardinality(Failing), Credit)
OpenInv    == \A f \in Callers : f.step \in OpenSteps => out[f.path].what \in Containers
RaisingInv == raised = TRUE => stack # <<>> /\ F.step \in Waiting \cup {"inspect"}
RemadeInv  ==
  stack # <<>> /\ F.step = "degraded" =>
    \/ Id(Len(stack), <<>>) \in DOMAIN made
    \/ tasks # <<>> /\ tasks[1].id = Id(Len(stack), <<>>)
DepthOK(f) == /\ Len(f.path) <= f.depth /\ f.depth <= MaxDepth + 1
              /\ f.step # "enter" => f.depth <= MaxDepth
DepthInv   ==
  /\ \A f \in Callers : DepthOK(f)
  /\ \A q \in DOMAIN out : Len(q) <= MaxDepth + 2

LEMMA CountedGrows ==
  ASSUME Types, [Next]_vars, NEW q, q \in Counted'
  PROVE  q \in Counted \/ (Walk /\ F.step = "inspect" /\ q = F.path)
<1>1. q \in DOMAIN out' /\ out'[q].what \in Containers /\ out'[q].of \notin Markers
  BY DEF Counted
<1>2. CASE Kept(q)
  BY <1>1, <1>2 DEF Kept, Counted
<1>3. CASE Walk /\ OwnWrite(q, out'[q])
  <2>1. PICK what : /\ q = F.path /\ out'[q] = Entry(what, F.value, F.owner)
                    /\ what \in {"object", "array", "instance"} => F.step = "inspect"
    BY <1>3 DEF OwnWrite
  <2>2. out'[q].what = what
    BY <2>1, EntryParts
  <2>3. QED
    BY <1>1, <1>3, <2>1, <2>2 DEF Containers
<1>4. ~FieldWrite(q, out'[q])
  BY <1>1 DEF FieldWrite, Containers
<1>5. ~MarkerWrite(q, out'[q])
  BY <1>1 DEF MarkerWrite
<1>6. ~EnvelopeWrite(q, out'[q])
  BY <1>1, EntryParts DEF EnvelopeWrite, Containers
<1>7. QED
  BY <1>1, <1>2, <1>3, <1>4, <1>5, <1>6, WalkWrites DEF Written

\* A call at work on its fields leaves its own copy.
LEMMA OwnCopyStays ==
  ASSUME Types, Types', [Next]_vars, NEW p \in Seq(Names), p \in DOMAIN out',
         \/ ~Walk
         \/ F \in Frames /\ F.step \in OpenSteps /\ p = F.path
         \/ F \in Frames /\ Len(p) < Len(F.path)
  PROVE  Kept(p) \/ (Unwind /\ Len(stack) = 1)
<1>1. Kept(p) \/ (Walk /\ Written(p))
  BY WalkWrites
<1>2. CASE Walk /\ F \in Frames /\ Len(p) <= Len(F.path)
  <2>1. PICK r \in Seq(Names) : r = F.path
    BY <1>2, FrameParts
  <2>2. \A k : Len(Append(r, k)) = Len(r) + 1
    BY Appending
  <2>3. Len(r) \in Nat /\ Len(p) \in Nat /\ Len(p) <= Len(r)
    BY <1>2, <2>1, LenProperties
  <2>4. ~FieldWrite(p, out'[p])
    <3>1. \A k : p # Append(r, k)
      BY <2>2, <2>3
    <3>2. QED
      BY <2>1, <3>1 DEF FieldWrite
  <2>5. ~MarkerWrite(p, out'[p])
    <3>1. PICK s : s = Append(r, F.part)
      OBVIOUS
    <3>2. s \in Seq(Names) /\ Len(s) = Len(r) + 1
      BY <1>2, <2>2, <3>1, FrameParts, AppendProperties
    <3>3. \A k : Len(Append(s, k)) = Len(s) + 1
      BY <3>2, Appending
    <3>4. \A k : p # Append(s, k)
      BY <2>3, <3>2, <3>3
    <3>5. QED
      BY <2>1, <3>1, <3>4 DEF MarkerWrite, PartPath
  <2>6. ~OwnWrite(p, out'[p])
    BY <1>2, <2>1, <2>3 DEF OwnWrite, OpenSteps
  <2>7. QED
    BY <1>1, <2>4, <2>5, <2>6 DEF Written, EnvelopeWrite
<1>3. QED
  BY <1>1, <1>2

\* How a step spends the budget: but for the visits and the error that is walked again, a
\* call goes on, ends, throws or makes another, and no visit is counted.
Unspent     == UNCHANGED <<visits, admitted>>
Places      == {F.path} \cup {Append(F.path, k) : k \in Names}
BudgetTurn(f) ==
  /\ Turns(f) /\ SameCall(f) /\ f.step \in OpenSteps /\ F.step \in OpenSteps \cup {"inspect"}
  /\ F.step = "inspect" => \E what \in Containers : Writes(what)
BudgetCall(f, g) ==
  /\ Calls2(f, g) /\ SameCall(f) /\ F.step \in OpenSteps \cup {"inspect"}
  /\ f.step = (IF F.step = "inspect" THEN "follow" ELSE f.step) /\ f.step \in Waiting
  /\ f.step = "follow" => F.step = "inspect"
  /\ g.step = "enter" /\ g.depth = F.depth + 1 /\ g.path \in Places
BudgetMoves ==
  \/ EnterOverBudget \/ Enter \/ CatchError
  \/ Unspent /\ Ends /\ ~Readmits
  \/ Unspent /\ Raise /\ UNCHANGED out /\ F.step \in {"inspect", "fields"}
  \/ Unspent /\ \E f : BudgetTurn(f)
  \/ Unspent /\ UNCHANGED out /\ \E f, g : BudgetCall(f, g)

LEMMA FieldsBudget ==
  ASSUME Walking, FrameTree(out, F), Element \/ Field
  PROVE  BudgetMoves
<1>1. F \in Frames /\ F.step = "fields" /\ F.todo # <<>>
  BY WalkingIs DEF Element, Field, At
<1>2. CopyIn(out, F)
  BY <1>1 DEF FrameTree, OpenSteps
<1>3. PICK k \in Names : k = Head(F.todo)
  BY <1>1, <1>2, NextKey
<1>4. PICK f, h : f = [F EXCEPT !.todo = Tail(@)] /\ h = [f EXCEPT !.written = @ \cup {k}]
  OBVIOUS
<1>5. SameCall(f) /\ SameCall(h) /\ f.step = "fields" /\ h.step = "fields"
  <2>1. SameCall(f) /\ DOMAIN f = DOMAIN F /\ f.step = "fields"
    BY <1>1, <1>4, FIsSame, SameCalls DEF Frames
  <2>2. QED
    BY <1>1, <1>4, <2>1, SameCalls DEF Frames
<1>6. PICK c : c = Append(F.path, k)
  OBVIOUS
<1>7. /\ Unspent
      /\ \/ Raise /\ UNCHANGED out
         \/ Turns(f) \/ Turns(h)
         \/ /\ UNCHANGED out
            /\ \E e \in {f, h} : \E v, ser :
                 Calls2(e, Frame(v, c, F.depth + 1, TRUE, ser, Origin(F.value)))
  <2>1. CASE Element
    <3>1. /\ Unspent
          /\ \/ Raise /\ UNCHANGED out
             \/ /\ UNCHANGED out
                /\ \E v : Calls2(f, Frame(v, c, F.depth + 1, TRUE, F.ser, Origin(F.value)))
      BY <1>3, <1>4, <1>6, <2>1, Zenon DEF Element, Unspent
    <3>2. QED
      BY <3>1, Zenon
  <2>2. CASE Field
    <3>1. PICK ser : ser = (F.ser \/ (~F.honor /\ k \in SerializedKeys))
      OBVIOUS
    <3>2. /\ Unspent
          /\ \/ Raise /\ UNCHANGED out
             \/ Turns(f) \/ Turns(h)
             \/ /\ UNCHANGED out
                /\ \E v : Calls2(h, Frame(v, c, F.depth + 1, TRUE, ser, Origin(F.value)))
      BY <1>3, <1>4, <1>6, <2>2, <3>1, Zenon DEF Field, Unspent
    <3>3. QED
      BY <3>2, Zenon
  <2>3. QED
    BY <2>1, <2>2
<1>8. ASSUME NEW e \in {f, h}, Turns(e) PROVE BudgetMoves
  <2>1. BudgetTurn(e)
    BY <1>1, <1>5, <1>8 DEF BudgetTurn, OpenSteps
  <2>2. QED
    BY <1>7, <2>1 DEF BudgetMoves
<1>9. ASSUME UNCHANGED out,
             \E e \in {f, h} : \E v, ser :
               Calls2(e, Frame(v, c, F.depth + 1, TRUE, ser, Origin(F.value)))
      PROVE  BudgetMoves
  <2> PICK e \in {f, h} : \E v, ser :
             Calls2(e, Frame(v, c, F.depth + 1, TRUE, ser, Origin(F.value)))
    BY <1>9
  <2> PICK v, ser : Calls2(e, Frame(v, c, F.depth + 1, TRUE, ser, Origin(F.value)))
    OBVIOUS
  <2>1. PICK g : g = Frame(v, c, F.depth + 1, TRUE, ser, Origin(F.value))
    OBVIOUS
  <2>2. g.path = c /\ g.step = "enter" /\ g.depth = F.depth + 1
    BY <2>1 DEF Frame
  <2>3. Calls2(e, g) /\ SameCall(e) /\ e.step = "fields"
    BY <1>5, <2>1
  <2>4. g.path \in Places
    BY <1>3, <1>6, <2>2 DEF Places
  <2>5. BudgetCall(e, g)
    BY <1>1, <2>2, <2>3, <2>4 DEF BudgetCall, OpenSteps, Waiting
  <2>6. QED
    BY <1>7, <1>9, <2>5 DEF BudgetMoves
<1>10. Raise /\ UNCHANGED out => BudgetMoves
  BY <1>1, <1>7 DEF BudgetMoves
<1>11. (Turns(f) \/ Turns(h)) => BudgetMoves
  BY <1>8
<1>12. QED
  BY <1>7, <1>9, <1>10, <1>11

LEMMA FollowBudget ==
  ASSUME Walking, FollowToJson
  PROVE  BudgetMoves
<1>1. F \in Frames
  BY WalkingIs
<1>2. /\ F.step = "inspect" /\ Unspent
      /\ \/ Raise /\ UNCHANGED out
         \/ Ends
         \/ /\ UNCHANGED out
            /\ \E result :
                 Calls2([F EXCEPT !.step = "follow"],
                        Frame(result, F.path, F.depth + 1, TRUE, F.ser, F.owner))
  BY Zenon DEF FollowToJson, Inspecting, At, Unspent
<1>3. ASSUME UNCHANGED out, NEW result,
             Calls2([F EXCEPT !.step = "follow"],
                    Frame(result, F.path, F.depth + 1, TRUE, F.ser, F.owner))
      PROVE  BudgetMoves
  <2>1. PICK f : f = [F EXCEPT !.step = "follow"]
    OBVIOUS
  <2>2. SameCall(f) /\ f.step = "follow"
    BY <1>1, <2>1, FIsSame, SameCalls DEF Frames
  <2>3. PICK g : g = Frame(result, F.path, F.depth + 1, TRUE, F.ser, F.owner)
    OBVIOUS
  <2>4. g.path \in Places /\ g.step = "enter" /\ g.depth = F.depth + 1
    BY <2>3 DEF Frame, Places
  <2>5. Calls2(f, g)
    BY <1>3, <2>1, <2>3
  <2>6. BudgetCall(f, g)
    BY <1>2, <2>2, <2>4, <2>5 DEF BudgetCall, Waiting
  <2>7. QED
    BY <1>2, <1>3, <2>6 DEF BudgetMoves
<1>4. ~Readmits
  BY <1>2 DEF Readmits
<1>5. QED
  BY <1>2, <1>3, <1>4 DEF BudgetMoves

LEMMA PartsBudget ==
  ASSUME Walking, ReadPart \/ Link \/ Linked \/ CatchPart
  PROVE  BudgetMoves
<1>1. F \in Frames /\ F.part \in Names
  BY WalkingIs, FrameParts
<1>2. F.step \in {"parts", "link", "linked"} /\ Unspent
  BY Zenon DEF ReadPart, Link, Linked, CatchPart, At, Unspent
<1>3. ASSUME NEW f, SameCall(f), DOMAIN f = DOMAIN F,
             NEW g, g = NextPart(f) \/ g = LostPart(f), Turns(g)
      PROVE  BudgetMoves
  <2>1. SameCall(g) /\ g.step = "parts"
    BY <1>1, <1>3, PartForms
  <2>2. BudgetTurn(g)
    BY <1>2, <1>3, <2>1 DEF BudgetTurn, OpenSteps
  <2>3. QED
    BY <1>2, <2>2 DEF BudgetMoves
<1>4. CASE ReadPart
  <2>1. PICK f : f = [F EXCEPT !.todo = Tail(@), !.part = Head(F.todo)]
    OBVIOUS
  <2>2. \/ Turns(LostPart(f)) \/ Turns(NextPart(f))
        \/ \E v : Turns([f EXCEPT !.step = "link", !.linked = v])
    BY <1>4, <2>1, Zenon DEF ReadPart
  <2>3. SameCall(f) /\ DOMAIN f = DOMAIN F /\ "step" \in DOMAIN f
    BY <1>1, <2>1, FIsSame, SameCalls DEF Frames
  <2>4. ASSUME NEW v, Turns([f EXCEPT !.step = "link", !.linked = v]) PROVE BudgetMoves
    <3>1. PICK g : g = [f EXCEPT !.step = "link", !.linked = v]
      OBVIOUS
    <3>2. SameCall(g) /\ g.step = "link"
      BY <1>1, <2>3, <3>1, SameCalls
    <3>3. BudgetTurn(g)
      BY <1>2, <2>4, <3>1, <3>2 DEF BudgetTurn, OpenSteps
    <3>4. QED
      BY <1>2, <3>3 DEF BudgetMoves
  <2>5. QED
    BY <1>3, <2>2, <2>3, <2>4
<1>5. CASE Link
  <2>1. PICK c : c = Append(F.path, F.part) /\ c = PartPath(F)
    BY DEF PartPath
  <2>2. \/ Turns(LostPart(F)) \/ Turns(NextPart(F))
        \/ /\ UNCHANGED out
           /\ \E b : Calls2([F EXCEPT !.step = "linked", !.before = b],
                            Frame(F.linked, c, F.depth + 1, TRUE, F.ser, Origin(F.value)))
    BY <1>5, <2>1, Zenon DEF Link
  <2>3. ASSUME UNCHANGED out, NEW b,
               Calls2([F EXCEPT !.step = "linked", !.before = b],
                      Frame(F.linked, c, F.depth + 1, TRUE, F.ser, Origin(F.value)))
        PROVE  BudgetMoves
    <3>1. PICK f : f = [F EXCEPT !.step = "linked", !.before = b]
      OBVIOUS
    <3>2. SameCall(f) /\ f.step = "linked"
      BY <1>1, <3>1, FIsSame, SameCalls DEF Frames
    <3>3. PICK g : g = Frame(F.linked, c, F.depth + 1, TRUE, F.ser, Origin(F.value))
      OBVIOUS
    <3>4. g.path = c /\ g.step = "enter" /\ g.depth = F.depth + 1
      BY <3>3 DEF Frame
    <3>5. g.path \in Places
      BY <1>1, <2>1, <3>4 DEF Places
    <3>6. Calls2(f, g)
      BY <2>3, <3>1, <3>3
    <3>7. BudgetCall(f, g)
      BY <1>2, <3>2, <3>4, <3>5, <3>6 DEF BudgetCall, OpenSteps, Waiting
    <3>8. QED
      BY <1>2, <2>3, <3>7 DEF BudgetMoves
  <2>4. SameCall(F) /\ DOMAIN F = DOMAIN F
    BY FIsSame
  <2>5. QED
    BY <1>3, <2>2, <2>3, <2>4
<1>6. CASE Linked \/ CatchPart
  <2>1. Turns(NextPart(F)) \/ Turns(LostPart(F))
    BY <1>6, Zenon DEF Linked, CatchPart
  <2>2. SameCall(F) /\ DOMAIN F = DOMAIN F
    BY FIsSame
  <2>3. QED
    BY <1>3, <2>1, <2>2
<1>7. QED
  BY <1>4, <1>5, <1>6

LEMMA OpenBudget ==
  ASSUME Walking, Open \/ FieldsDone
  PROVE  BudgetMoves
<1>1. F \in Frames
  BY WalkingIs
<1>2. F.step \in {"inspect", "fields"} /\ Unspent
  BY Zenon DEF Open, FieldsDone, Inspecting, At, Unspent
<1>3. \/ Raise /\ UNCHANGED out
      \/ Ends
      \/ /\ F.step = "inspect" => \E what \in Containers : Writes(what)
         /\ \E x : Turns([F EXCEPT !.step = "fields", !.todo = x])
                   \/ Turns([F EXCEPT !.step = "parts", !.todo = x])
  <2>1. CASE Open
    <3>1. PICK what : what = IF IsArray(F.value) THEN "array"
                            ELSE IF IsError(F.value) /\ ~AsData(F) THEN "instance" ELSE "object"
      OBVIOUS
    <3>2. what \in Containers
      BY <3>1 DEF Containers
    <3>3. \/ Raise /\ UNCHANGED out
          \/ Writes(what) /\ Turns([F EXCEPT !.step = "fields", !.todo = heap[F.value].keys])
      BY <2>1, <3>1, Zenon DEF Open
    <3>4. QED
      BY <3>2, <3>3, Zenon
  <2>2. CASE FieldsDone
    <3>1. F.step = "fields"
      BY <2>2 DEF FieldsDone, At
    <3>2. Ends \/ \E x : Turns([F EXCEPT !.step = "parts", !.todo = x])
      BY <2>2, Zenon DEF FieldsDone
    <3>3. F.step # "inspect"
      BY <3>1
    <3>4. QED
      BY <3>2, <3>3, Zenon
  <2>3. QED
    BY <2>1, <2>2
<1>4. ASSUME F.step = "inspect" => \E what \in Containers : Writes(what),
             NEW x, NEW s \in {"fields", "parts"}, Turns([F EXCEPT !.step = s, !.todo = x])
      PROVE  BudgetMoves
  <2>1. PICK f : f = [F EXCEPT !.step = s, !.todo = x]
    OBVIOUS
  <2>2. SameCall(f) /\ f.step = s
    BY <1>1, <2>1, FIsSame, SameCalls DEF Frames
  <2>3. BudgetTurn(f)
    BY <1>2, <1>4, <2>1, <2>2 DEF BudgetTurn, OpenSteps
  <2>4. QED
    BY <1>2, <2>3 DEF BudgetMoves
<1>5. ~Readmits
  BY <1>2 DEF Readmits
<1>6. QED
  BY <1>2, <1>3, <1>4, <1>5 DEF BudgetMoves

LEMMA BudgetMovesAre ==
  ASSUME Types, Walk, ~WalkDegraded, TreeInv, RaisingInv
  PROVE  Walking /\ BudgetMoves
<1>1. Walking
  BY WalkShape
<1>2. F \in Frames /\ FrameTree(out, F)
  BY <1>1, CallsAreTree DEF Walking
<1>3. CASE EnterPrimitive \/ EnterTooDeep
  <2>1. Ends /\ Unspent /\ F.step = "enter" /\ (~IsObject(F.value) \/ F.depth > MaxDepth)
    BY <1>3, Zenon DEF EnterPrimitive, EnterTooDeep, At, Unspent
  <2>2. F.depth > MaxDepth => ~(F.depth <= MaxDepth)
    BY <1>2, FrameParts, RedactionAssumption
  <2>3. ~Readmits
    BY <2>1, <2>2 DEF Readmits
  <2>4. QED
    BY <1>1, <2>1, <2>3 DEF BudgetMoves
<1>4. CASE \/ InspectBinary \/ InspectBuffer \/ Followed \/ InspectFunction \/ PartsDone
  <2>1. Ends /\ Unspent /\ F.step \in {"inspect", "follow", "parts"}
    BY <1>4, Zenon DEF InspectBinary, InspectBuffer, Followed, InspectFunction, PartsDone,
       Inspecting, At, Unspent
  <2>2. ~Readmits
    BY <2>1 DEF Readmits
  <2>3. QED
    BY <1>1, <2>1, <2>2 DEF BudgetMoves
<1>5. CASE Unwind
  <2>1. Ends /\ Unspent /\ raised
    BY <1>5, Zenon DEF Unwind, Unwinding, Unspent
  <2>2. raised = TRUE
    BY <1>1, <2>1, ScalarsAre
  <2>3. ~Readmits
    BY <2>2 DEF Readmits, RaisingInv, Waiting
  <2>4. QED
    BY <1>1, <2>1, <2>3 DEF BudgetMoves
<1>6. CASE InspectRefused
  <2>1. Raise /\ Unspent /\ UNCHANGED out /\ F.step = "inspect"
    BY <1>6, Zenon DEF InspectRefused, At, Unspent
  <2>2. QED
    BY <1>1, <2>1 DEF BudgetMoves
<1>7. CASE EnterOverBudget \/ Enter \/ CatchError
  BY <1>1, <1>7 DEF BudgetMoves
<1>8. QED
  BY <1>1, <1>2, <1>3, <1>4, <1>5, <1>6, <1>7, FieldsBudget, FollowBudget, PartsBudget, OpenBudget,
     Zenon DEF Walk

\* The calls after a step that ends one, goes on or calls.
LEMMA FIsACall ==
  ASSUME StackInv, stack # <<>>
  PROVE  F \in Callers /\ F \in Frames
<1>1. PICK n \in Nat \ {0} : n = Len(stack) /\ DOMAIN stack = 1..n /\ F = stack[n]
  BY FIs
<1>2. n \in DOMAIN stack
  BY <1>1
<1>3. QED
  BY <1>1, <1>2, FIs DEF Callers

LEMMA CallersEnd ==
  ASSUME StackInv, stack # <<>>, Ends, NEW g \in Callers'
  PROVE  g \in Callers /\ g.step \in Waiting
<1>1. PICK n \in Nat \ {0} : n = Len(stack) /\ DOMAIN stack = 1..n
  BY FIs
<1>2. PICK i \in DOMAIN stack' : g = stack'[i]
  BY DEF Callers
<1>3. i \in 1..(n - 1) /\ stack'[i] = stack[i]
  BY <1>1, <1>2, EndsShape
<1>4. i \in DOMAIN stack /\ stack[i].step \in Waiting
  BY <1>1, <1>3, FIs
<1>5. QED
  BY <1>2, <1>3, <1>4 DEF Callers

LEMMA CallersTurn ==
  ASSUME StackInv, stack # <<>>, NEW f, Turns(f), NEW g \in Callers'
  PROVE  g = f \/ (g \in Callers /\ g.step \in Waiting)
<1>1. PICK n \in Nat \ {0} : n = Len(stack) /\ DOMAIN stack = 1..n
  BY FIs
<1>2. PICK i \in DOMAIN stack' : g = stack'[i]
  BY DEF Callers
<1>3. i \in 1..n /\ (i # n => stack'[i] = stack[i]) /\ (i = n => stack'[i] = f)
  BY <1>1, <1>2, TurnsShape
<1>4. i # n => i \in DOMAIN stack /\ stack[i].step \in Waiting
  <2>1. i # n => i \in 1..(n - 1)
    BY <1>3
  <2>2. QED
    BY <1>1, <2>1, FIs
<1>5. QED
  BY <1>2, <1>3, <1>4 DEF Callers

LEMMA CallersCall ==
  ASSUME StackInv, stack # <<>>, NEW f, NEW h, Calls2(f, h), NEW g \in Callers'
  PROVE  g = f \/ g = h \/ (g \in Callers /\ g.step \in Waiting)
<1>1. PICK n \in Nat \ {0} : n = Len(stack) /\ DOMAIN stack = 1..n
  BY FIs
<1>2. PICK i \in DOMAIN stack' : g = stack'[i]
  BY DEF Callers
<1>3. /\ i \in 1..(n + 1) /\ (i < n => stack'[i] = stack[i])
      /\ (i = n => stack'[i] = f) /\ (i = n + 1 => stack'[i] = h)
  BY <1>1, <1>2, CallsShape
<1>4. i < n => i \in DOMAIN stack /\ stack[i].step \in Waiting
  <2>1. i < n => i \in 1..(n - 1)
    BY <1>3
  <2>2. QED
    BY <1>1, <2>1, FIs
<1>5. i < n \/ i = n \/ i = n + 1
  BY <1>3
<1>6. QED
  BY <1>2, <1>3, <1>4, <1>5 DEF Callers

\* However the copy is nested, it is no deeper than the walk is, and the parts and marks
\* it writes beside what it walks.
LEMMA CallersDepth ==
  ASSUME Types, TreeInv, RaisingInv, DepthInv, [Next]_vars, NEW g \in Callers'
  PROVE  DepthOK(g)
<1>1. CASE Walk
  <2>1. Walking /\ stack # <<>> /\ StackInv
    BY <1>1, BudgetMovesAre DEF WalkDegraded, At, Walking, Types
  <2>2. F \in Callers /\ F \in Frames /\ F.depth \in Nat /\ F.path \in Seq(Names) /\ MaxDepth \in Nat
    BY <2>1, FIsACall, FrameParts, RedactionAssumption
  <2>3. DepthOK(F)
    BY <2>2 DEF DepthInv
  <2>4. ASSUME NEW f, Turns(f), f.path = F.path, f.depth = F.depth, F.depth <= MaxDepth
        PROVE  DepthOK(g)
    <3>1. DepthOK(f)
      BY <2>2, <2>3, <2>4 DEF DepthOK
    <3>2. QED
      BY <2>1, <2>4, <3>1, CallersTurn DEF DepthInv
  <2>5. CASE Ends
    BY <2>1, <2>5, CallersEnd DEF DepthInv
  <2>6. CASE WalkDegraded
    <3>1. F.depth <= MaxDepth
      BY <2>3, <2>6 DEF DepthOK, WalkDegraded, At
    <3>2. QED
      BY <2>1, <2>4, <2>6, <3>1, DegradedShape
  <2>7. CASE Enter
    <3>1. F.depth <= MaxDepth /\ (Ends \/ Turns([F EXCEPT !.step = "inspect"]))
      BY <2>7, Zenon DEF Enter
    <3>2. SameCall([F EXCEPT !.step = "inspect"])
      BY <2>2, FIsSame, SameCalls
    <3>3. PICK f : f = [F EXCEPT !.step = "inspect"]
      OBVIOUS
    <3>4. f.path = F.path /\ f.depth = F.depth
      BY <3>2, <3>3 DEF SameCall
    <3>5. QED
      BY <2>4, <2>5, <3>1, <3>3, <3>4
  <2>8. CASE CatchError
    <3>1. raised /\ Turns([F EXCEPT !.step = "degraded"])
      BY <2>8, Zenon DEF CatchError, Unwinding
    <3>2. raised = TRUE
      BY <2>1, <3>1, ScalarsAre
    <3>3. F.depth <= MaxDepth
      BY <2>3, <3>2 DEF DepthOK, RaisingInv, Waiting
    <3>4. SameCall([F EXCEPT !.step = "degraded"])
      BY <2>2, FIsSame, SameCalls
    <3>5. PICK f : f = [F EXCEPT !.step = "degraded"]
      OBVIOUS
    <3>6. f.path = F.path /\ f.depth = F.depth
      BY <3>4, <3>5 DEF SameCall
    <3>7. QED
      BY <2>4, <3>1, <3>3, <3>5, <3>6
  <2>9. CASE Raise
    <3>1. stack' = stack
      BY <2>9 DEF Raise
    <3>2. QED
      BY <3>1 DEF DepthInv, Callers
  <2>10. ASSUME NEW f, BudgetTurn(f) PROVE DepthOK(g)
    <3>1. Turns(f) /\ f.path = F.path /\ f.depth = F.depth /\ F.step # "enter"
      BY <2>10 DEF BudgetTurn, SameCall, OpenSteps
    <3>2. F.depth <= MaxDepth
      BY <2>3, <3>1 DEF DepthOK
    <3>3. QED
      BY <2>4, <3>1, <3>2
  <2>11. ASSUME NEW f, NEW h, BudgetCall(f, h) PROVE DepthOK(g)
    <3>1. /\ Calls2(f, h) /\ f.path = F.path /\ f.depth = F.depth /\ F.step # "enter"
          /\ h.step = "enter" /\ h.depth = F.depth + 1 /\ h.path \in Places
      BY <2>11 DEF BudgetCall, SameCall, OpenSteps
    <3>2. F.depth <= MaxDepth /\ Len(F.path) <= F.depth
      BY <2>3, <3>1 DEF DepthOK
    <3>3. Len(h.path) <= Len(F.path) + 1
      <4>1. PICK p \in Seq(Names) : p = F.path
        BY <2>2
      <4>2. h.path = p \/ \E k : h.path = Append(p, k)
        BY <3>1, <4>1 DEF Places
      <4>3. \A k : Len(Append(p, k)) = Len(p) + 1
        BY Appending
      <4>4. Len(p) \in Nat
        BY LenProperties
      <4>5. QED
        BY <4>1, <4>2, <4>3, <4>4
    <3>4. Len(h.path) <= h.depth
      <4>1. Len(F.path) \in Nat
        BY <2>2, LenProperties
      <4>2. Len(h.path) \in Nat
        <5>1. PICK p \in Seq(Names) : p = F.path
          BY <2>2
        <5>2. h.path = p \/ \E k \in Names : h.path = Append(p, k)
          BY <3>1, <5>1 DEF Places
        <5>3. h.path \in Seq(Names)
          BY <5>2, AppendProperties
        <5>4. QED
          BY <5>3, LenProperties
      <4>3. QED
        BY <2>2, <3>1, <3>2, <3>3, <4>1, <4>2
    <3>5. DepthOK(f) /\ DepthOK(h)
      BY <2>2, <3>1, <3>2, <3>4 DEF DepthOK
    <3>6. QED
      BY <2>1, <3>1, <3>5, CallersCall DEF DepthInv
  <2>12. EnterOverBudget => Ends
    BY DEF EnterOverBudget
  <2>13. QED
    BY <1>1, <2>5, <2>6, <2>7, <2>8, <2>9, <2>10, <2>11, <2>12, BudgetMovesAre DEF BudgetMoves
<1>2. CASE Serialized
  <2>1. PICK f : stack' = <<f>> /\ f.path = <<>> /\ f.depth = 0 /\ f.step = "enter"
    BY <1>2, SerializedShape
  <2>2. g = f
    BY <2>1 DEF Callers
  <2>3. QED
    BY <2>1, <2>2, RedactionAssumption DEF DepthOK
<1>3. CASE Sanitize \/ UNCHANGED vars
  <2>1. stack' = stack
    BY <1>3, Zenon DEF Sanitize, vars, walkVars
  <2>2. QED
    BY <2>1 DEF DepthInv, Callers
<1>4. QED
  BY <1>1, <1>2, <1>3 DEF Next

LEMMA DepthNext ==
  ASSUME Types, TreeInv, RaisingInv, DepthInv, [Next]_vars
  PROVE  DepthInv'
<1>1. ASSUME NEW q \in DOMAIN out'
      PROVE  Len(q) <= MaxDepth + 2
  <2>1. Kept(q) \/ (Walk /\ Written(q))
    BY WalkWrites
  <2>2. CASE Kept(q)
    BY <2>2 DEF Kept, DepthInv
  <2>3. CASE EnvelopeWrite(q, out'[q])
    BY <2>3, RedactionAssumption DEF EnvelopeWrite
  <2>4. CASE Walk /\ ~Kept(q) /\ ~EnvelopeWrite(q, out'[q])
    <3>1. Walking
      BY <2>4, WalkShape DEF WalkDegraded, At, Walking
    <3>2. F \in Callers /\ F \in Frames /\ StackInv
      BY <3>1, FIsACall DEF Walking, Types
    <3>3. DepthOK(F)
      BY <3>2 DEF DepthInv
    <3>4. PICK p \in Seq(Names), n \in Nat, d \in Nat : p = F.path /\ n = Len(p) /\ d = F.depth
      BY <3>2, FrameParts, LenProperties
    <3>5. n <= MaxDepth + 1 /\ (F.step # "enter" => n <= MaxDepth) /\ MaxDepth \in Nat
      BY <3>3, <3>4, RedactionAssumption DEF DepthOK
    <3>6. \A k : Len(Append(p, k)) = n + 1
      BY <3>4, Appending
    <3>7. CASE OwnWrite(q, out'[q])
      BY <3>4, <3>5, <3>7 DEF OwnWrite
    <3>8. CASE FieldWrite(q, out'[q])
      <4>1. (\E k : q = Append(p, k)) /\ F.step # "enter"
        BY <3>4, <3>8 DEF FieldWrite
      <4>2. QED
        BY <3>5, <3>6, <4>1
    <3>9. CASE MarkerWrite(q, out'[q])
      <4>1. PICK s : s = Append(p, F.part) /\ s = PartPath(F)
        BY <3>4 DEF PartPath
      <4>2. s \in Seq(Names) /\ Len(s) = n + 1
        <5>1. PICK k \in Names : k = F.part
          BY <3>2, FrameParts
        <5>2. s = Append(p, k) /\ p \in Seq(Names)
          BY <3>4, <4>1, <5>1
        <5>3. Append(p, k) \in Seq(Names)
          BY <5>1, <5>2, AppendProperties
        <5>4. QED
          BY <3>6, <5>2, <5>3
      <4>3. \A k : Len(Append(s, k)) = n + 2
        BY <4>2, Appending
      <4>4. (\E k : q = Append(s, k)) /\ F.step # "enter"
        BY <3>9, <4>1 DEF MarkerWrite
      <4>5. QED
        BY <3>5, <4>3, <4>4
    <3>10. QED
      BY <2>1, <2>4, <3>7, <3>8, <3>9 DEF Written
  <2>5. QED
    BY <2>1, <2>2, <2>3, <2>4
<1>2. \A g \in Callers' : DepthOK(g)
  BY CallersDepth
<1>3. QED
  BY <1>1, <1>2 DEF DepthInv, DepthOK

\* A throw meets a call at work, or one whose copy is not begun.
LEMMA RaisingNext ==
  ASSUME Types, RaisingInv, [Next]_vars
  PROVE  RaisingInv'
<1> SUFFICES ASSUME raised' = TRUE
             PROVE  stack' # <<>> /\ F'.step \in Waiting \cup {"inspect"}
  BY DEF RaisingInv
<1>1. raised \in BOOLEAN /\ StackInv
  BY DEF Types, ScalarsInv
<1>2. ASSUME stack' = stack, stack # <<>>, F.step \in Waiting \cup {"inspect"}
      PROVE  stack' # <<>> /\ F'.step \in Waiting \cup {"inspect"}
  BY <1>2 DEF F
<1>3. CASE raised = FALSE
  <2>1. Walk
    <3>1. raised' # raised
      BY <1>3
    <3>2. (Sanitize \/ Serialized \/ UNCHANGED vars) => raised' = raised
      BY Zenon DEF Sanitize, Serialized, vars, walkVars
    <3>3. QED
      BY <3>1, <3>2 DEF Next
  <2>2. Raise /\ ThrowsHere /\ Walking
    BY <1>3, <2>1, RaiseShape
  <2>3. stack' = stack /\ stack # <<>> /\ F.step \in {"inspect", "fields"}
    BY <2>2 DEF Raise, ThrowsHere, Walking
  <2>4. QED
    BY <1>2, <2>3 DEF Waiting
<1>4. CASE raised = TRUE
  <2>1. stack # <<>> /\ F.step \in Waiting \cup {"inspect"}
    BY <1>4 DEF RaisingInv
  <2>2. Unwind \/ stack' = stack
    BY <1>4, <2>1, ThrowPasses
  <2>3. CASE Unwind
    <3>1. Ends /\ Len(stack) # 1
      <4>1. Ends /\ (Len(stack) = 1 => raised' = FALSE)
        BY <2>3, Zenon DEF Unwind
      <4>2. QED
        BY <4>1
    <3>2. PICK n \in Nat \ {0} : /\ n = Len(stack) /\ Len(stack') = n - 1
                                 /\ DOMAIN stack' = 1..(n - 1)
                                 /\ \A i \in 1..(n - 1) : stack'[i] = stack[i]
      BY <1>1, <2>1, <3>1, EndsShape
    <3>3. n - 1 \in 1..(n - 1)
      BY <3>1, <3>2
    <3>4. stack'[n - 1] = stack[n - 1] /\ stack[n - 1].step \in Waiting
      BY <1>1, <2>1, <3>2, <3>3, FIs
    <3>5. stack' # <<>>
      BY <3>2, <3>3
    <3>6. QED
      BY <3>2, <3>4, <3>5 DEF F
  <2>4. QED
    BY <1>2, <2>1, <2>2, <2>3
<1>5. QED
  BY <1>1, <1>3, <1>4

\* A copy stays what it was begun as while the call of its value is at work.
LEMMA OuterCopies ==
  ASSUME Types, Types', TreeInv, OpenInv, [Next]_vars, stack # <<>>,
         NEW i \in 1..(Len(stack) - 1), stack[i].step \in OpenSteps, stack[i].path \in DOMAIN out'
  PROVE  out'[stack[i].path].what \in Containers
<1>1. StackInv
  BY DEF Types
<1>2. PICK n \in Nat \ {0} : n = Len(stack) /\ F \in Frames
  BY <1>1, FIs
<1>3. PICK f \in Frames : /\ f = stack[i] /\ f \in Callers /\ Within(i, f, F)
  BY CallsAreTree DEF Callers
<1>4. f.step \in OpenSteps /\ f.step # "follow"
  BY <1>3 DEF OpenSteps
<1>5. PICK k \in Names : Under(Append(f.path, k), F.path)
  BY <1>3, <1>4 DEF Within
<1>6. PICK p \in Seq(Names), r \in Seq(Names) : p = f.path /\ r = F.path
  BY <1>2, <1>3, FrameParts
<1>7. Len(p) < Len(r)
  <2>1. PICK c : c = Append(p, k)
    OBVIOUS
  <2>2. c \in Seq(Names) /\ Len(c) = Len(p) + 1
    BY <2>1, NameBelow
  <2>3. Len(c) <= Len(r)
    BY <1>5, <1>6, <2>1, <2>2, UnderOrder
  <2>4. Len(p) \in Nat /\ Len(r) \in Nat
    BY LenProperties
  <2>5. QED
    BY <2>2, <2>3, <2>4
<1>8. Kept(p) \/ (Unwind /\ Len(stack) = 1)
  BY <1>2, <1>3, <1>6, <1>7, OwnCopyStays
<1>9. Len(stack) # 1
  BY <1>2
<1>10. out[p].what \in Containers
  BY <1>3, <1>4, <1>6 DEF OpenInv
<1>11. QED
  BY <1>3, <1>6, <1>8, <1>9, <1>10 DEF Kept

LEMMA OpenNext ==
  ASSUME Types, Types', TreeInv, TreeInv', RaisingInv, OpenInv, [Next]_vars
  PROVE  OpenInv'
<1> SUFFICES ASSUME NEW g \in Callers', g.step \in OpenSteps
             PROVE  out'[g.path].what \in Containers
  BY DEF OpenInv
<1>1. g.path \in DOMAIN out'
  BY DEF TreeInv, FrameTree, CopyIn
<1>2. PICK j \in DOMAIN stack' : g = stack'[j]
  BY DEF Callers
<1>3. StackInv
  BY DEF Types
<1>4. ASSUME UNCHANGED out, UNCHANGED stack
      PROVE  out'[g.path].what \in Containers
  BY <1>4 DEF OpenInv, Callers
<1>5. ASSUME stack # <<>>, j \in 1..(Len(stack) - 1), stack'[j] = stack[j]
      PROVE  out'[g.path].what \in Containers
  BY <1>1, <1>2, <1>5, OuterCopies
<1>6. CASE Walk /\ ~WalkDegraded
  <2>1. Walking /\ BudgetMoves /\ stack # <<>>
    BY <1>6, BudgetMovesAre DEF Walking
  <2>2. PICK n \in Nat \ {0} : n = Len(stack)
    BY <1>3, <2>1, FIs
  <2>3. F \in Callers /\ F \in Frames /\ F.path \in Seq(Names)
    BY <1>3, <2>1, FIsACall, FrameParts
  <2>4. CASE Ends
    <3>1. j \in 1..(n - 1) /\ stack'[j] = stack[j]
      BY <1>2, <1>3, <2>1, <2>2, <2>4, EndsShape
    <3>2. QED
      BY <1>5, <2>1, <2>2, <3>1
  <2>5. ASSUME NEW f, Turns(f), f.step \in OpenSteps => out'[f.path].what \in Containers
        PROVE  out'[g.path].what \in Containers
    <3>1. j \in 1..n /\ stack'[n] = f /\ \A i \in 1..(n - 1) : stack'[i] = stack[i]
      BY <1>2, <1>3, <2>1, <2>2, <2>5, TurnsShape
    <3>2. CASE j = n
      BY <1>2, <2>5, <3>1, <3>2
    <3>3. CASE j # n
      <4>1. j \in 1..(n - 1) /\ stack'[j] = stack[j]
        BY <3>1, <3>3
      <4>2. QED
        BY <1>5, <2>1, <2>2, <4>1
    <3>4. QED
      BY <3>2, <3>3
  <2>6. CASE Enter \/ CatchError
    <3>1. PICK s \in {"inspect", "degraded"} : Ends \/ Turns([F EXCEPT !.step = s])
      BY <2>6, Zenon DEF Enter, CatchError
    <3>2. PICK f : f = [F EXCEPT !.step = s]
      OBVIOUS
    <3>3. f.step = s
      BY <2>3, <3>2 DEF Frames
    <3>4. f.step \notin OpenSteps
      BY <3>3 DEF OpenSteps
    <3>5. QED
      BY <2>4, <2>5, <3>1, <3>2, <3>4
  <2>7. CASE Raise /\ UNCHANGED out
    <3>1. stack' = stack
      BY <2>7 DEF Raise
    <3>2. QED
      BY <1>4, <2>7, <3>1
  <2>8. ASSUME NEW f, BudgetTurn(f) PROVE out'[g.path].what \in Containers
    <3>1. Turns(f) /\ f.path = F.path
      BY <2>8 DEF BudgetTurn, SameCall
    <3>2. CASE F.step \in OpenSteps
      <4>1. ASSUME F.path \in DOMAIN out' PROVE out'[F.path].what \in Containers
        <5>1. Kept(F.path) \/ (Unwind /\ Len(stack) = 1)
          BY <2>3, <3>2, <4>1, OwnCopyStays
        <5>2. CASE Kept(F.path)
          BY <2>3, <3>2, <5>2 DEF OpenInv, Kept
        <5>3. CASE Unwind /\ Len(stack) = 1
          <6>1. Ends
            BY <5>3 DEF Unwind
          <6>2. Len(stack') = n - 1 /\ Len(stack') = n
            BY <1>3, <2>1, <2>2, <3>1, <6>1, EndsShape, TurnsShape
          <6>3. QED
            BY <2>2, <6>2
        <5>4. QED
          BY <5>1, <5>2, <5>3
      <4>2. f \in Callers' /\ (f.step \in OpenSteps => f.path \in DOMAIN out')
        <5>1. n \in DOMAIN stack' /\ stack'[n] = f
          BY <1>3, <2>1, <2>2, <3>1, TurnsShape
        <5>2. f \in Callers'
          BY <5>1 DEF Callers
        <5>3. QED
          BY <5>2 DEF TreeInv, FrameTree, CopyIn
      <4>3. QED
        BY <2>5, <3>1, <4>1, <4>2
    <3>3. CASE F.step = "inspect"
      <4>1. PICK what \in Containers : Writes(what)
        BY <2>8, <3>3 DEF BudgetTurn
      <4>2. FrameTree(out, F)
        BY <2>3 DEF TreeInv
      <4>3. out'[F.path] = Entry(what, F.value, F.owner)
        BY <2>3, <3>3, <4>1, <4>2, OwnPlace
      <4>4. out'[F.path].what \in Containers
        BY <4>3, EntryParts
      <4>5. QED
        BY <2>5, <3>1, <4>4
    <3>4. QED
      BY <2>8, <3>2, <3>3 DEF BudgetTurn
  <2>9. ASSUME UNCHANGED out, NEW f, NEW h, BudgetCall(f, h)
        PROVE  out'[g.path].what \in Containers
    <3>1. Calls2(f, h) /\ f.path = F.path /\ h.step = "enter"
      BY <2>9 DEF BudgetCall, SameCall
    <3>2. g = f \/ g = h \/ g \in Callers
      BY <1>3, <2>1, <3>1, CallersCall
    <3>3. g # h
      BY <3>1 DEF OpenSteps
    <3>4. CASE g \in Callers
      BY <2>9, <3>4 DEF OpenInv
    <3>5. CASE g = f
      <4>1. F.step \in OpenSteps
        BY <2>9, <3>5 DEF BudgetCall, OpenSteps
      <4>2. QED
        BY <2>3, <2>9, <3>1, <3>5, <4>1 DEF OpenInv
    <3>6. QED
      BY <3>2, <3>3, <3>4, <3>5
  <2>10. EnterOverBudget => Ends
    BY DEF EnterOverBudget
  <2>11. QED
    BY <2>1, <2>4, <2>6, <2>7, <2>8, <2>9, <2>10 DEF BudgetMoves
<1>7. CASE WalkDegraded
  <2>1. Walking /\ stack # <<>>
    BY <1>7 DEF WalkDegraded, At, Walking
  <2>2. PICK f : Turns(f) /\ f.step = "enter"
    BY <1>7, <2>1, DegradedShape
  <2>3. PICK n \in Nat \ {0} : n = Len(stack)
    BY <1>3, <2>1, FIs
  <2>4. j \in 1..n /\ stack'[n] = f /\ \A i \in 1..(n - 1) : stack'[i] = stack[i]
    BY <1>2, <1>3, <2>1, <2>2, <2>3, TurnsShape
  <2>5. j # n
    BY <1>2, <2>2, <2>4 DEF OpenSteps
  <2>6. j \in 1..(n - 1) /\ stack'[j] = stack[j]
    BY <2>4, <2>5
  <2>7. QED
    BY <1>5, <2>1, <2>3, <2>6
<1>8. CASE Serialized
  <2>1. PICK f : stack' = <<f>> /\ f.step = "enter"
    BY <1>8, SerializedShape
  <2>2. g = f
    BY <1>2, <2>1
  <2>3. QED
    BY <2>1, <2>2 DEF OpenSteps
<1>9. CASE Sanitize \/ UNCHANGED vars
  <2>1. stack' = stack /\ out' = out
    BY <1>9, Zenon DEF Sanitize, vars, walkVars
  <2>2. QED
    BY <1>4, <2>1
<1>10. QED
  BY <1>6, <1>7, <1>8, <1>9 DEF Next, Walk

\* The node an error degrades to is being made, or is there.
LEMMA RemadeNext ==
  ASSUME Types, CallsInv, TreeInv, RaisingInv, RemadeInv, [Next]_vars
  PROVE  RemadeInv'
<1> SUFFICES ASSUME stack' # <<>>, F'.step = "degraded"
             PROVE  \/ Id(Len(stack'), <<>>) \in DOMAIN made'
                    \/ tasks' # <<>> /\ tasks'[1].id = Id(Len(stack'), <<>>)
  BY DEF RemadeInv
<1>1. StackInv /\ TasksInv /\ HeapInv /\ MadeInv
  BY DEF Types
<1>2. CASE Sanitize
  <2>1. Sane /\ SanitizerStep /\ Sanitizing
    BY <1>2, StepIsSane DEF Sane
  <2>2. stack' = stack
    BY <1>2, Zenon DEF Sanitize, walkVars
  <2>3. MadeTop /\ Len(tasks) \in Nat \ {0} /\ DOMAIN tasks = 1..Len(tasks) /\ Top = tasks[Len(tasks)]
    BY <1>1, <2>1, TopCall, TopIs
  <2>4. PICK id : id = Id(Len(stack), <<>>)
    OBVIOUS
  <2>5. id \in DOMAIN made \/ tasks[1].id = id
    BY <2>2, <2>4 DEF RemadeInv, F
  <2>6. (\A i \in DOMAIN made : i \in DOMAIN made') /\ (Top.step = "identify" => Top.id \in DOMAIN made')
    <3>1. CASE Opens \/ Closes
      BY <3>1 DEF Opens, Closes, Remade
    <3>2. CASE Fills
      BY <3>2 DEF Fills, MadeGrows
    <3>3. QED
      BY <2>1, <2>3, <3>1, <3>2, SanitizerShape
  <2>7. tasks[1].id \in DOMAIN made'
    <3>1. CASE Len(tasks) = 1
      BY <2>3, <2>6, <3>1 DEF MadeTop
    <3>2. CASE Len(tasks) # 1
      <4>1. 1 \in DOMAIN tasks
        BY <2>3
      <4>2. tasks[1].step \in {"errors", "members"}
        BY <1>1, <3>2, <4>1 DEF TasksInv
      <4>3. tasks[1].id \in DOMAIN made
        BY <4>1, <4>2 DEF CallsInv, CallOK
      <4>4. QED
        BY <2>6, <4>3
    <3>3. QED
      BY <3>1, <3>2
  <2>8. QED
    BY <2>2, <2>4, <2>5, <2>6, <2>7
<1>3. CASE CatchError
  <2>1. Walking /\ stack # <<>>
    BY <1>3, WalkShape DEF Walk, WalkDegraded, At, CatchError, Unwinding, Walking
  <2>2. PICK n \in Nat : n = Len(stack)
    BY <1>1, <2>1, FIs
  <2>3. StartSanitizing(F.value, n) /\ Turns([F EXCEPT !.step = "degraded"])
    BY <1>3, <2>2, Zenon DEF CatchError
  <2>4. tasks' = <<Task(F.value, Id(n, <<>>), 0)>>
    BY <1>1, <2>3, StartIs
  <2>5. Len(stack') = n
    BY <1>1, <2>1, <2>2, <2>3, TurnsShape
  <2>6. QED
    BY <2>4, <2>5 DEF Task
<1>4. CASE Walk /\ ~WalkDegraded /\ ~CatchError
  <2>1. Walking /\ BudgetMoves /\ stack # <<>>
    BY <1>4, BudgetMovesAre DEF Walking
  <2>2. F \in Frames
    BY <1>1, <2>1, FIs
  <2>3. CASE Ends
    <3>1. PICK n \in Nat \ {0} : /\ n = Len(stack) /\ Len(stack') = n - 1
                                 /\ DOMAIN stack' = 1..(n - 1)
                                 /\ \A i \in 1..(n - 1) : stack'[i] = stack[i]
      BY <1>1, <2>1, <2>3, EndsShape
    <3>2. n - 1 \in 1..(n - 1)
      <4>1. n # 1
        BY <3>1, EmptySeq
      <4>2. QED
        BY <4>1
    <3>3. stack'[n - 1] = stack[n - 1] /\ stack[n - 1].step \in Waiting
      BY <1>1, <2>1, <3>1, <3>2, FIs
    <3>4. QED
      BY <3>1, <3>3 DEF Waiting, F
  <2>4. CASE Enter
    <3>1. Ends \/ Turns([F EXCEPT !.step = "inspect"])
      BY <2>4, Zenon DEF Enter
    <3>2. PICK f : f = [F EXCEPT !.step = "inspect"]
      OBVIOUS
    <3>3. f.step = "inspect"
      BY <2>2, <3>2 DEF Frames
    <3>4. Turns(f) => F' = f
      BY <1>1, <2>1, TurnsShape
    <3>5. QED
      BY <2>3, <3>1, <3>2, <3>3, <3>4
  <2>5. CASE Raise /\ F.step \in {"inspect", "fields"}
    <3>1. stack' = stack
      BY <2>5 DEF Raise
    <3>2. QED
      BY <2>5, <3>1 DEF F
  <2>6. ASSUME NEW f, BudgetTurn(f) PROVE FALSE
    <3>1. F' = f /\ f.step \in OpenSteps
      BY <1>1, <2>1, <2>6, TurnsShape DEF BudgetTurn
    <3>2. QED
      BY <3>1 DEF OpenSteps
  <2>7. ASSUME NEW f, NEW h, BudgetCall(f, h) PROVE FALSE
    <3>1. F' = h /\ h.step = "enter"
      BY <1>1, <2>1, <2>7, CallsShape DEF BudgetCall
    <3>2. QED
      BY <3>1
  <2>8. EnterOverBudget => Ends
    BY DEF EnterOverBudget
  <2>9. QED
    BY <1>4, <2>1, <2>3, <2>4, <2>5, <2>6, <2>7, <2>8 DEF BudgetMoves
<1>5. CASE WalkDegraded
  <2>1. Walking /\ stack # <<>>
    BY <1>5 DEF WalkDegraded, At, Walking
  <2>2. PICK f : Turns(f) /\ f.step = "enter"
    BY <1>5, <2>1, DegradedShape
  <2>3. F' = f
    BY <1>1, <2>1, <2>2, TurnsShape
  <2>4. QED
    BY <2>2, <2>3
<1>6. CASE Serialized
  <2>1. PICK f : stack' = <<f>> /\ f.step = "enter"
    BY <1>6, SerializedShape
  <2>2. F' = f
    BY <2>1 DEF F
  <2>3. QED
    BY <2>1, <2>2
<1>7. CASE UNCHANGED vars
  <2>1. stack' = stack /\ made' = made /\ tasks' = tasks
    BY <1>7, Zenon DEF vars, walkVars, sanitizerVars
  <2>2. QED
    BY <2>1 DEF RemadeInv, F
<1>8. QED
  BY <1>2, <1>3, <1>4, <1>5, <1>6, <1>7 DEF Next, Walk

Moved(S, T, x) ==
  /\ IsFiniteSet(T) /\ Cardinality(S) \in Nat /\ Cardinality(T) \in Nat
  /\ Cardinality(T) <= Cardinality(S) + 1
  /\ x \notin T \/ x \in S => Cardinality(T) <= Cardinality(S)
  /\ x \notin T /\ x \in S => Cardinality(T) <= Cardinality(S) - 1

LEMMA SetsMove ==
  ASSUME BudgetInv, NEW p, NEW n, Counted' \ {p} \subseteq Counted,
         Inspected' \ {n} \subseteq Inspected, Failing' \ {n} \subseteq Failing
  PROVE  /\ Moved(Counted, Counted', p) /\ Moved(Inspected, Inspected', n)
         /\ Moved(Failing, Failing', n) /\ Credit \in {0, 1} /\ Credit' \in {0, 1}
<1>1. IsFiniteSet(Counted) /\ IsFiniteSet(Inspected) /\ IsFiniteSet(Failing)
  BY DEF BudgetInv
<1>2. Moved(Counted, Counted', p)
  BY <1>1, CountMoves DEF Moved
<1>3. Moved(Inspected, Inspected', n)
  BY <1>1, CountMoves DEF Moved
<1>4. Moved(Failing, Failing', n)
  BY <1>1, CountMoves DEF Moved
<1>5. Credit \in {0, 1} /\ Credit' \in {0, 1}
  BY DEF Credit
<1>6. QED
  BY <1>2, <1>3, <1>4, <1>5

\* What a step that ends a call, goes on or calls does to the calls that are counted.
LEMMA TopCounts ==
  ASSUME StackInv, stack # <<>>
  PROVE  /\ Len(stack) \in Inspected <=> F.step \in {"inspect", "follow"}
         /\ Len(stack) \in Failing <=> F.step \notin {"enter", "degraded"} /\ IsError(F.value)
<1>1. PICK n \in Nat \ {0} : n = Len(stack) /\ DOMAIN stack = 1..n /\ F = stack[n]
  BY FIs
<1>2. n \in DOMAIN stack
  BY <1>1
<1>3. QED
  BY <1>1, <1>2 DEF Inspected, Failing

LEMMA FailingStays ==
  ASSUME Types, Types', [Next]_vars, NEW i, i \in Failing'
  PROVE  /\ i \in DOMAIN stack' /\ stack'[i].step \notin {"enter", "degraded"}
         /\ IsError(stack'[i].value)
<1>1. i \in DOMAIN stack' /\ stack'[i].step \notin {"enter", "degraded"}
  BY DEF Failing
<1>2. PICK o \in Values : o = stack'[i].value
  <2>1. stack'[i] \in Frames
    BY <1>1 DEF Types, StackInv
  <2>2. QED
    BY <2>1, FrameParts
<1>3. IsError(o)'
  BY <1>2 DEF Failing, IsError, IsKind, IsObject
<1>4. IsError(o)
  BY <1>3, ErrorsStay
<1>5. QED
  BY <1>1, <1>2, <1>4

LEMMA EndCounts ==
  ASSUME Types, Types', [Next]_vars, stack # <<>>, Ends
  PROVE  Inspected' \subseteq Inspected \ {Len(stack)} /\ Failing' \subseteq Failing \ {Len(stack)}
<1>1. PICK n \in Nat \ {0} : /\ n = Len(stack) /\ DOMAIN stack = 1..n /\ DOMAIN stack' = 1..(n - 1)
                             /\ \A i \in 1..(n - 1) : stack'[i] = stack[i]
  BY EndsShape DEF Types
<1>2. \A i \in DOMAIN stack' : i \in DOMAIN stack /\ i # n /\ stack'[i] = stack[i]
  BY <1>1
<1>3. Inspected' \subseteq Inspected \ {n}
  BY <1>2 DEF Inspected
<1>4. \A i \in Failing' : i \in DOMAIN stack' /\ i \in Failing /\ i # n
  <2> TAKE i \in Failing'
  <2>1. i \in DOMAIN stack' /\ stack'[i].step \notin {"enter", "degraded"} /\ IsError(stack'[i].value)
    BY FailingStays
  <2>2. QED
    BY <1>2, <2>1 DEF Failing
<1>5. QED
  BY <1>1, <1>3, <1>4

Turned(f) ==
  /\ Inspected' \ {Len(stack)} \subseteq Inspected /\ Failing' \ {Len(stack)} \subseteq Failing
  /\ Len(stack) \in Inspected' => f.step \in {"inspect", "follow"}
  /\ Len(stack) \in Failing' => f.step \notin {"enter", "degraded"} /\ IsError(f.value)

LEMMA TurnCounts ==
  ASSUME Types, Types', [Next]_vars, stack # <<>>, NEW f,
         Turns(f) \/ \E g : Calls2(f, g) /\ g.step = "enter"
  PROVE  Turned(f)
<1>1. StackInv
  BY DEF Types
<1>2. PICK n \in Nat \ {0} :
        /\ n = Len(stack) /\ DOMAIN stack = 1..n /\ n \in DOMAIN stack' /\ stack'[n] = f
        /\ DOMAIN stack' \subseteq 1..(n + 1)
        /\ \A i \in 1..(n - 1) : stack'[i] = stack[i]
        /\ n + 1 \in DOMAIN stack' => stack'[n + 1].step = "enter"
  <2>1. CASE Turns(f)
    <3>1. /\ Len(stack) \in Nat \ {0} /\ DOMAIN stack' = 1..Len(stack)
          /\ DOMAIN stack = 1..Len(stack) /\ stack'[Len(stack)] = f
          /\ \A i \in 1..(Len(stack) - 1) : stack'[i] = stack[i]
      BY <1>1, <2>1, TurnsShape
    <3>2. PICK n \in Nat \ {0} : n = Len(stack)
      BY <3>1
    <3>3. n \in 1..n /\ 1..n \subseteq 1..(n + 1) /\ n + 1 \notin 1..n
      OBVIOUS
    <3>4. QED
      BY <3>1, <3>2, <3>3
  <2>2. CASE \E g : Calls2(f, g) /\ g.step = "enter"
    <3>1. PICK g : Calls2(f, g) /\ g.step = "enter"
      BY <2>2
    <3>2. /\ Len(stack) \in Nat \ {0} /\ DOMAIN stack' = 1..(Len(stack) + 1)
          /\ DOMAIN stack = 1..Len(stack) /\ stack'[Len(stack)] = f
          /\ stack'[Len(stack) + 1] = g
          /\ \A i \in 1..(Len(stack) - 1) : stack'[i] = stack[i]
      BY <1>1, <3>1, CallsShape
    <3>3. PICK n \in Nat \ {0} : n = Len(stack)
      BY <3>2
    <3>4. n \in 1..(n + 1)
      OBVIOUS
    <3>5. QED
      BY <3>1, <3>2, <3>3, <3>4
  <2>3. QED
    BY <2>1, <2>2
<1>3. \A i \in DOMAIN stack' : i = n \/ i = n + 1 \/ (i \in DOMAIN stack /\ stack'[i] = stack[i])
  <2>1. \A i \in 1..(n + 1) : i = n \/ i = n + 1 \/ i \in 1..(n - 1)
    OBVIOUS
  <2>2. \A i \in 1..(n - 1) : i \in DOMAIN stack
    BY <1>2
  <2>3. QED
    BY <1>2, <2>1, <2>2
<1>4. n + 1 \notin Inspected' /\ n + 1 \notin Failing'
  BY <1>2 DEF Inspected, Failing
<1>5. Inspected' \ {n} \subseteq Inspected
  BY <1>3, <1>4 DEF Inspected
<1>6. Failing' \ {n} \subseteq Failing
  <2>1. ASSUME NEW i \in Failing', i # n PROVE i \in Failing
    <3>1. i \in DOMAIN stack' /\ stack'[i].step \notin {"enter", "degraded"} /\ IsError(stack'[i].value)
      BY FailingStays
    <3>2. QED
      BY <1>3, <1>4, <2>1, <3>1 DEF Failing
  <2>2. QED
    BY <2>1
<1>7. n \in Inspected' => f.step \in {"inspect", "follow"}
  BY <1>2 DEF Inspected
<1>8. n \in Failing' => f.step \notin {"enter", "degraded"} /\ IsError(f.value)
  BY <1>2, FailingStays DEF Failing
<1>9. QED
  BY <1>2, <1>5, <1>6, <1>7, <1>8 DEF Turned

LEMMA SameCounts ==
  ASSUME Types, Types', [Next]_vars, UNCHANGED stack
  PROVE  Inspected' \subseteq Inspected /\ Failing' \subseteq Failing
<1>1. Inspected' \subseteq Inspected
  BY DEF Inspected
<1>2. ASSUME NEW i \in Failing' PROVE i \in Failing
  <2>1. i \in DOMAIN stack' /\ stack'[i].step \notin {"enter", "degraded"} /\ IsError(stack'[i].value)
    BY FailingStays
  <2>2. QED
    BY <2>1 DEF Failing
<1>3. QED
  BY <1>1, <1>2

LEMMA OutCounts ==
  ASSUME UNCHANGED out
  PROVE  Counted' \subseteq Counted
BY DEF Counted

\* The three sets after a step of the walk that counts no visit.
LEMMA UnspentFits ==
  ASSUME ScalarsInv, BudgetInv, NEW p, NEW n, Unspent,
         Counted' \ {p} \subseteq Counted, Inspected' \ {n} \subseteq Inspected,
         Failing' \ {n} \subseteq Failing, n \in Failing' => n \in Failing,
         p \notin Counted' \/ p \in Counted \/ (n \in Inspected /\ n \notin Inspected'),
         n \in Inspected' => n \in Inspected, Credit <= Credit'
  PROVE  BudgetInv'
<1>1. /\ Moved(Counted, Counted', p) /\ Moved(Inspected, Inspected', n)
      /\ Moved(Failing, Failing', n) /\ Credit \in {0, 1} /\ Credit' \in {0, 1}
  BY SetsMove
<1>2. PICK c \in Nat, i \in Nat, f \in Nat, c2 \in Nat, i2 \in Nat, f2 \in Nat :
        /\ c = Cardinality(Counted) /\ c2 = Cardinality(Counted')
        /\ i = Cardinality(Inspected) /\ i2 = Cardinality(Inspected')
        /\ f = Cardinality(Failing) /\ f2 = Cardinality(Failing')
  BY <1>1 DEF Moved
<1>3. c2 + i2 <= c + i
  BY <1>1, <1>2 DEF Moved
<1>4. f2 <= f
  BY <1>1, <1>2 DEF Moved
<1>5. PICK v \in Int, a \in Nat, r \in {0, 1}, r2 \in {0, 1} :
        v = visits /\ a = admitted /\ r = Credit /\ r2 = Credit' /\ r <= r2
  BY <1>1 DEF ScalarsInv
<1>6. Fits(v, a, c, i, f, r)
  BY <1>2, <1>5 DEF BudgetInv
<1>7. Fits(v, a, c2, i2, f2, r2)
  BY <1>2, <1>3, <1>4, <1>5, <1>6, RedactionAssumption DEF Fits, Used
<1>8. v = visits' /\ a = admitted'
  BY <1>5 DEF Unspent
<1>9. Fits(visits', admitted', Cardinality(Counted'), Cardinality(Inspected'),
           Cardinality(Failing'), Credit')
  BY <1>2, <1>5, <1>7, <1>8
<1>10. QED
  BY <1>1, <1>9 DEF BudgetInv, Moved, Fits, Used

\* No promise is made to a call that goes on at work.
LEMMA NoCredit ==
  ASSUME ~Readmits
  PROVE  Credit = 0
BY DEF Credit

LEMMA MovesFit ==
  ASSUME Types, Types', [Next]_vars, BudgetInv, Walking, BudgetMoves, Walk,
         ~EnterOverBudget, ~Enter, ~CatchError
  PROVE  BudgetInv'
<1>1. PICK n : n = Len(stack)
  OBVIOUS
<1>2. PICK p : p = F.path
  OBVIOUS
<1>3. StackInv /\ ScalarsInv /\ stack # <<>>
  BY DEF Walking, Types
<1>4. Unspent
  BY DEF BudgetMoves
<1>5. /\ n \in Inspected <=> F.step \in {"inspect", "follow"}
      /\ n \in Failing <=> F.step \notin {"enter", "degraded"} /\ IsError(F.value)
  BY <1>1, <1>3, TopCounts
<1>6. Counted' \ {p} \subseteq Counted /\ (p \notin Counted' \/ p \in Counted \/ n \in Inspected)
  <2>1. ASSUME NEW q \in Counted' PROVE q \in Counted \/ (F.step = "inspect" /\ q = p)
    BY <1>2, CountedGrows
  <2>2. QED
    BY <1>5, <2>1
<1>7. Credit' \in {0, 1}
  BY DEF Credit
<1>8. CASE Ends /\ ~Readmits
  <2>1. Inspected' \subseteq Inspected \ {n} /\ Failing' \subseteq Failing \ {n}
    BY <1>1, <1>3, <1>8, EndCounts
  <2>2. Credit <= Credit'
    BY <1>7, <1>8, NoCredit
  <2>3. QED
    BY <1>3, <1>4, <1>6, <2>1, <2>2, UnspentFits
<1>9. ASSUME NEW f, SameCall(f), F.step \in OpenSteps \cup {"inspect"}, f.step \notin {"inspect"},
             f.step = "follow" => F.step = "inspect" /\ UNCHANGED out,
             Turns(f) \/ \E g : Calls2(f, g) /\ g.step = "enter"
      PROVE  BudgetInv'
  <2>1. Turned(f)
    BY <1>3, <1>9, TurnCounts
  <2>2. /\ Inspected' \ {n} \subseteq Inspected /\ Failing' \ {n} \subseteq Failing
        /\ n \in Inspected' => f.step = "follow"
        /\ n \in Failing' => n \in Failing
    BY <1>1, <1>5, <1>9, <2>1 DEF Turned, SameCall, OpenSteps
  <2>3. p \notin Counted' \/ p \in Counted \/ (n \in Inspected /\ n \notin Inspected')
    <3>1. n \in Inspected' => Counted' \subseteq Counted
      BY <1>9, <2>2, OutCounts
    <3>2. QED
      BY <1>6, <3>1
  <2>4. Credit <= Credit'
    <3>1. ~Readmits
      BY <1>9 DEF Readmits, OpenSteps
    <3>2. QED
      BY <1>7, <3>1, NoCredit
  <2>5. n \in Inspected' => n \in Inspected
    BY <1>5, <1>9, <2>2
  <2>6. QED
    BY <1>3, <1>4, <1>6, <2>2, <2>3, <2>4, <2>5, UnspentFits
<1>10. CASE Raise /\ UNCHANGED out /\ F.step \in {"inspect", "fields"}
  <2>1. UNCHANGED stack /\ UNCHANGED out
    BY <1>10 DEF Raise
  <2>2. Inspected' \subseteq Inspected /\ Failing' \subseteq Failing /\ Counted' \subseteq Counted
    BY <2>1, SameCounts, OutCounts
  <2>3. Credit <= Credit'
    <3>1. ~Readmits
      BY <1>10 DEF Readmits
    <3>2. QED
      BY <1>7, <3>1, NoCredit
  <2>4. QED
    BY <1>3, <1>4, <2>2, <2>3, UnspentFits
<1>11. ASSUME NEW f, BudgetTurn(f) PROVE BudgetInv'
  BY <1>9, <1>11 DEF BudgetTurn, OpenSteps
<1>12. ASSUME UNCHANGED out, NEW f, NEW g, BudgetCall(f, g) PROVE BudgetInv'
  <2>1. /\ SameCall(f) /\ F.step \in OpenSteps \cup {"inspect"} /\ Calls2(f, g) /\ g.step = "enter"
        /\ f.step \in Waiting /\ (f.step = "follow" => F.step = "inspect")
    BY <1>12 DEF BudgetCall
  <2>2. \E h : Calls2(f, h) /\ h.step = "enter"
    BY <2>1
  <2>3. f.step \notin {"inspect"}
    BY <2>1 DEF Waiting
  <2>4. QED
    BY <1>9, <1>12, <2>1, <2>2, <2>3
<1>13. QED
  BY <1>8, <1>10, <1>11, <1>12 DEF BudgetMoves

LEMMA EnterFits ==
  ASSUME Types, Types', [Next]_vars, BudgetInv, Walking, EnterOverBudget \/ Enter
  PROVE  BudgetInv'
<1>1. PICK n : n = Len(stack)
  OBVIOUS
<1>2. PICK p : p = F.path
  OBVIOUS
<1>3. /\ F.step = "enter" /\ IsObject(F.value) /\ F.depth <= MaxDepth /\ visits' = visits + 1
      /\ EnterOverBudget \/ Ends => admitted' = admitted
  <2>1. CASE EnterOverBudget
    BY <2>1, Zenon DEF EnterOverBudget, At
  <2>2. CASE Enter
    <3>1. F.step = "enter" /\ IsObject(F.value) /\ F.depth <= MaxDepth /\ visits' = visits + 1
      BY <2>2, Zenon DEF Enter, At
    <3>2. \/ Ends /\ admitted' = admitted
          \/ Turns([F EXCEPT !.step = "inspect"])
      BY <2>2, Zenon DEF Enter
    <3>3. Turns([F EXCEPT !.step = "inspect"]) => ~Ends
      <4>1. StackInv /\ stack # <<>>
        BY DEF Walking, Types
      <4>2. PICK f : f = [F EXCEPT !.step = "inspect"]
        OBVIOUS
      <4>3. Turns(f) => Len(stack') = Len(stack) /\ Len(stack) \in Nat
        BY <4>1, TurnsShape
      <4>4. Ends => Len(stack') = Len(stack) - 1
        BY <4>1, EndsShape
      <4>5. QED
        BY <4>2, <4>3, <4>4
    <3>4. EnterOverBudget => admitted' = admitted
      BY DEF EnterOverBudget
    <3>5. QED
      BY <3>1, <3>2, <3>3, <3>4
  <2>3. QED
    BY <2>1, <2>2
<1>4. StackInv /\ ScalarsInv /\ stack # <<>> /\ F \in Frames
  BY WalkingIs DEF Walking
<1>5. n \notin Inspected /\ n \notin Failing
  BY <1>1, <1>3, <1>4, TopCounts
<1>6. Counted' \subseteq Counted
  BY <1>3, CountedGrows
<1>7. \/ Ends
      \/ /\ Enter /\ admitted' = admitted + 1
         /\ \E f : f = [F EXCEPT !.step = "inspect"] /\ Turns(f)
  <2>1. CASE EnterOverBudget
    BY <2>1 DEF EnterOverBudget
  <2>2. CASE Enter
    <3>1. PICK f : f = [F EXCEPT !.step = "inspect"]
      OBVIOUS
    <3>2. Ends \/ (Turns(f) /\ admitted' = admitted + 1)
      BY <2>2, <3>1, Zenon DEF Enter
    <3>3. QED
      BY <2>2, <3>1, <3>2
  <2>3. QED
    BY <2>1, <2>2
<1>8. EnterOverBudget => visits + 1 > MaxVisits /\ Ends
  BY Zenon DEF EnterOverBudget, OverBudget
<1>9. Enter => ~(visits + 1 > MaxVisits)
  BY Zenon DEF Enter, OverBudget
<1>10. visits + 1 > MaxVisits => Credit = 0
  <2>1. visits \in Int /\ MaxVisits \in Nat
    BY <1>4, RedactionAssumption DEF ScalarsInv
  <2>2. visits + 1 > MaxVisits => ~(visits < MaxVisits)
    BY <2>1
  <2>3. QED
    BY <2>2 DEF Credit
<1>11. CASE Ends
  <2>1. Inspected' \subseteq Inspected \ {n} /\ Failing' \subseteq Failing \ {n}
    BY <1>1, <1>4, <1>11, EndCounts
  <2>2. /\ Moved(Counted, Counted', p) /\ Moved(Inspected, Inspected', n)
        /\ Moved(Failing, Failing', n) /\ Credit \in {0, 1} /\ Credit' \in {0, 1}
    BY <1>6, <2>1, SetsMove
  <2>3. PICK c \in Nat, i \in Nat, f \in Nat, c2 \in Nat, i2 \in Nat, f2 \in Nat :
          /\ c = Cardinality(Counted) /\ c2 = Cardinality(Counted')
          /\ i = Cardinality(Inspected) /\ i2 = Cardinality(Inspected')
          /\ f = Cardinality(Failing) /\ f2 = Cardinality(Failing')
    BY <2>2 DEF Moved
  <2>4. c2 <= c /\ i2 <= i /\ f2 <= f
    <3>1. n \notin Inspected' /\ n \notin Failing'
      BY <2>1
    <3>2. p \notin Counted' \/ p \in Counted
      BY <1>6
    <3>3. QED
      BY <2>2, <2>3, <3>1, <3>2 DEF Moved
  <2>5. PICK v \in Int, a \in Nat, r \in {0, 1}, r2 \in {0, 1} :
          v = visits /\ a = admitted /\ r = Credit /\ r2 = Credit'
    BY <1>4, <2>2 DEF ScalarsInv
  <2>6. Fits(v, a, c, i, f, r)
    BY <2>3, <2>5 DEF BudgetInv
  <2>7. v + 1 > MaxVisits => r = 0
    BY <1>10, <2>5
  <2>8. Fits(v + 1, a, c2, i2, f2, r2)
    BY <2>3, <2>4, <2>5, <2>6, <2>7, RedactionAssumption DEF Fits, Used
  <2>9. visits' = v + 1 /\ admitted' = a
    BY <1>3, <1>11, <2>5
  <2>10. Fits(visits', admitted', Cardinality(Counted'), Cardinality(Inspected'),
              Cardinality(Failing'), Credit')
    BY <2>3, <2>5, <2>8, <2>9
  <2>11. QED
    BY <2>2, <2>10 DEF BudgetInv, Moved, Fits, Used
<1>12. CASE Enter /\ admitted' = admitted + 1 /\ \E f : f = [F EXCEPT !.step = "inspect"] /\ Turns(f)
  <2> PICK g : g = [F EXCEPT !.step = "inspect"] /\ Turns(g)
    BY <1>12
  <2>1. g.value = F.value /\ Turned(g)
    BY <1>4, TurnCounts DEF Frames
  <2>2. /\ Inspected' \ {n} \subseteq Inspected /\ Failing' \ {n} \subseteq Failing
        /\ n \in Failing' => IsError(F.value)
    BY <1>1, <2>1 DEF Turned
  <2>3. /\ Moved(Counted, Counted', p) /\ Moved(Inspected, Inspected', n)
        /\ Moved(Failing, Failing', n) /\ Credit \in {0, 1} /\ Credit' \in {0, 1}
    BY <1>6, <2>2, SetsMove
  <2>4. PICK c \in Nat, i \in Nat, f \in Nat, c2 \in Nat, i2 \in Nat, f2 \in Nat :
          /\ c = Cardinality(Counted) /\ c2 = Cardinality(Counted')
          /\ i = Cardinality(Inspected) /\ i2 = Cardinality(Inspected')
          /\ f = Cardinality(Failing) /\ f2 = Cardinality(Failing')
    BY <2>3 DEF Moved
  <2>5. PICK v \in Int, a \in Nat, r \in {0, 1}, r2 \in {0, 1} :
          v = visits /\ a = admitted /\ r = Credit /\ r2 = Credit'
    BY <1>4, <2>3 DEF ScalarsInv
  <2>6. c2 <= c /\ i2 <= i + 1 /\ f2 <= f + 1 /\ (r = 0 \/ f2 <= f)
    <3>1. p \notin Counted' \/ p \in Counted
      BY <1>6
    <3>2. CASE IsError(F.value)
      <4>1. ~Readmits
        BY <1>3, <3>2 DEF Readmits
      <4>2. r = 0
        BY <2>5, <4>1, NoCredit
      <4>3. QED
        BY <2>3, <2>4, <3>1, <4>2 DEF Moved
    <3>3. CASE n \notin Failing'
      BY <2>3, <2>4, <3>1, <3>3 DEF Moved
    <3>4. QED
      BY <2>2, <3>2, <3>3
  <2>7. Fits(v, a, c, i, f, r)
    BY <2>4, <2>5 DEF BudgetInv
  <2>8. ~(v + 1 > MaxVisits)
    BY <1>9, <1>12, <2>5
  <2>9. Fits(v + 1, a + 1, c2, i2, f2, r2)
    BY <2>4, <2>5, <2>6, <2>7, <2>8, RedactionAssumption DEF Fits, Used
  <2>10. visits' = v + 1 /\ admitted' = a + 1
    BY <1>3, <1>12, <2>5
  <2>11. Fits(visits', admitted', Cardinality(Counted'), Cardinality(Inspected'),
              Cardinality(Failing'), Credit')
    BY <2>4, <2>5, <2>9, <2>10
  <2>12. QED
    BY <2>3, <2>11 DEF BudgetInv, Moved, Fits, Used
<1>13. QED
  BY <1>7, <1>11, <1>12

LEMMA CatchFits ==
  ASSUME Types, Types', [Next]_vars, TreeInv, OpenInv, RaisingInv, BudgetInv, Walking, CatchError
  PROVE  BudgetInv'
<1>1. PICK n : n = Len(stack)
  OBVIOUS
<1>2. StackInv /\ ScalarsInv /\ HeapInv /\ stack # <<>> /\ F \in Frames /\ F \in Callers
  BY WalkingIs, FIsACall DEF Walking
<1>3. PICK p \in Seq(Names) : p = F.path
  BY <1>2, FrameParts
<1>4. /\ raised /\ F.step # "linked" /\ IsError(F.value)
      /\ visits' = visits - 1 /\ admitted' = admitted /\ out' = Dropped(F.path)
      /\ Turns([F EXCEPT !.step = "degraded"])
  BY Zenon DEF CatchError, Catches, Unwinding
<1>5. F.step \in {"inspect", "follow", "fields"}
  <2>1. raised = TRUE
    BY <1>4, ScalarsAre
  <2>2. QED
    BY <1>4, <2>1 DEF RaisingInv, Waiting
<1>6. PICK g : g = [F EXCEPT !.step = "degraded"] /\ Turns(g)
  BY <1>4
<1>7. g.step = "degraded" /\ Turned(g)
  BY <1>2, <1>6, TurnCounts DEF Frames
<1>8. /\ Inspected' \ {n} \subseteq Inspected /\ n \notin Inspected'
      /\ Failing' \ {n} \subseteq Failing /\ n \notin Failing' /\ n \in Failing
      /\ F.step \in {"inspect", "follow"} => n \in Inspected
  BY <1>1, <1>2, <1>4, <1>5, <1>7, TopCounts DEF Turned
<1>9. Counted' \subseteq Counted \ {p}
  <2>1. ASSUME NEW q \in Counted' PROVE q \in Counted /\ q # p
    <3>1. q \in DOMAIN out' /\ out'[q].what \in Containers /\ out'[q].of \notin Markers
      BY DEF Counted
    <3>2. PICK d : d = Dropped(p)
      OBVIOUS
    <3>3. out' = d /\ q \in DOMAIN d
      BY <1>3, <1>4, <3>1, <3>2
    <3>4. q \in DOMAIN out /\ ~Under(p, q) /\ d[q] = out[q]
      BY <3>2, <3>3, DropShape
    <3>5. Under(p, p)
      BY UnderOrder
    <3>6. QED
      BY <3>1, <3>3, <3>4, <3>5 DEF Counted
  <2>2. QED
    BY <2>1
<1>10. F.step = "fields" => p \in Counted
  <2>1. ASSUME F.step = "fields" PROVE p \in Counted
    <3>1. FrameTree(out, F) /\ out[p].what \in Containers
      BY <1>2, <1>3, <2>1 DEF TreeInv, OpenInv, OpenSteps
    <3>2. p \in DOMAIN out /\ out[p].of = F.value
      BY <1>3, <2>1, <3>1 DEF FrameTree, CopyIn, OpenSteps
    <3>3. F.value \in Graph
      BY <1>2, <1>4, ErrorsAreOfTheGraph DEF IsError
    <3>4. F.value \notin Markers
      BY <3>3, ValuesApart
    <3>5. QED
      BY <3>1, <3>2, <3>4 DEF Counted
  <2>2. QED
    BY <2>1
<1>11. /\ Moved(Counted, Counted', p) /\ Moved(Inspected, Inspected', n)
       /\ Moved(Failing, Failing', n) /\ Credit \in {0, 1} /\ Credit' \in {0, 1}
  BY <1>8, <1>9, SetsMove
<1>12. PICK c \in Nat, i \in Nat, f \in Nat, c2 \in Nat, i2 \in Nat, f2 \in Nat :
         /\ c = Cardinality(Counted) /\ c2 = Cardinality(Counted')
         /\ i = Cardinality(Inspected) /\ i2 = Cardinality(Inspected')
         /\ f = Cardinality(Failing) /\ f2 = Cardinality(Failing')
  BY <1>11 DEF Moved
<1>12a. c \in Nat /\ i \in Nat /\ f \in Nat /\ c2 \in Nat /\ i2 \in Nat /\ f2 \in Nat
  BY <1>12
<1>13. c2 + i2 <= c + i - 1 /\ f2 <= f - 1
  <2>1. p \notin Counted' /\ n \notin Inspected' /\ n \notin Failing' /\ n \in Failing
    BY <1>8, <1>9
  <2>2. c2 <= c /\ i2 <= i /\ f2 <= f - 1
    BY <1>11, <1>12, <2>1 DEF Moved
  <2>3. p \in Counted => c2 <= c - 1
    BY <1>11, <1>12, <2>1 DEF Moved
  <2>4. n \in Inspected => i2 <= i - 1
    BY <1>11, <1>12, <2>1 DEF Moved
  <2>5. p \in Counted \/ n \in Inspected
    BY <1>5, <1>8, <1>10
  <2>6. CASE p \in Counted
    <3>1. c2 <= c - 1
      BY <2>3, <2>6
    <3>2. QED
      BY <1>12a, <2>2, <3>1
  <2>7. CASE n \in Inspected
    <3>1. i2 <= i - 1
      BY <2>4, <2>7
    <3>2. QED
      BY <1>12a, <2>2, <3>1
  <2>8. QED
    BY <2>5, <2>6, <2>7
<1>14. PICK v \in Int, a \in Nat, r \in {0, 1}, r2 \in {0, 1} :
         v = visits /\ a = admitted /\ r = Credit /\ r2 = Credit'
  BY <1>2, <1>11 DEF ScalarsInv
<1>15. visits' = v - 1 /\ admitted' = a
  BY <1>4, <1>14
<1>16. r = 0
  <2>1. ~Readmits
    BY <1>5 DEF Readmits
  <2>2. QED
    BY <1>14, <2>1, NoCredit
<1>17. v - 1 < MaxVisits => r2 = 1
  <2>1. stack' # <<>> /\ F' = g
    <3>1. F' = g /\ DOMAIN stack' = 1..Len(stack) /\ Len(stack) \in Nat \ {0}
      BY <1>2, <1>6, TurnsShape
    <3>2. QED
      BY <3>1
  <2>2. Readmits'
    BY <1>7, <2>1 DEF Readmits
  <2>3. QED
    BY <1>14, <1>15, <2>2 DEF Credit
<1>18. Fits(v, a, c, i, f, r)
  BY <1>12, <1>14 DEF BudgetInv
<1>19. Fits(v - 1, a, c2, i2, f2, r2)
  <2>1. PICK m \in Nat : m = MaxVisits
    BY RedactionAssumption
  <2>2. PICK u \in Int, w \in Int : u = Used(v) /\ w = Used(v - 1)
    BY <1>14, <2>1 DEF Used
  <2>3. c + i <= u /\ a + f <= 2 * u
    BY <1>12, <1>14, <1>16, <1>18, <2>2 DEF Fits
  <2>4. /\ u - 1 <= w
        /\ w = u \/ r2 = 1
    <3>1. CASE v - 1 < m
      BY <1>14, <1>17, <2>1, <2>2, <3>1 DEF Used
    <3>2. CASE ~(v - 1 < m)
      BY <1>14, <2>1, <2>2, <3>2 DEF Used
    <3>3. QED
      BY <3>1, <3>2
  <2>4a. a \in Int /\ u \in Int /\ w \in Int /\ r2 \in {0, 1}
    BY <1>14, <2>2
  <2>5. c2 + i2 <= w
    BY <1>13, <1>12a, <2>3, <2>4, <2>4a
  <2>6. a + f2 <= 2 * w + r2
    <3>1. CASE w = u
      BY <1>13, <1>12a, <2>4a, <2>3, <3>1
    <3>2. CASE r2 = 1
      BY <1>13, <1>12a, <2>4a, <2>3, <2>4, <3>2
    <3>3. QED
      BY <2>4, <3>1, <3>2
  <2>7. QED
    BY <2>2, <2>5, <2>6 DEF Fits
<1>20. Fits(visits', admitted', Cardinality(Counted'), Cardinality(Inspected'),
            Cardinality(Failing'), Credit')
  BY <1>12, <1>14, <1>15, <1>19
<1>21. QED
  BY <1>11, <1>20 DEF BudgetInv, Moved, Fits, Used

LEMMA OtherFits ==
  ASSUME Types, Types', [Next]_vars, NodesInv, RemadeInv, DepthInv, BudgetInv,
         WalkDegraded \/ Sanitize \/ Serialized \/ UNCHANGED vars
  PROVE  BudgetInv'
<1>1. ScalarsInv /\ StackInv /\ TasksInv /\ HeapInv
  BY DEF Types
<1>2. Unspent /\ UNCHANGED out
  BY Zenon DEF Unspent, WalkDegraded, Sanitize, Serialized, vars, walkVars
<1>3. Counted' \subseteq Counted
  BY <1>2, OutCounts
<1>4. Credit' \in {0, 1} /\ Credit \in {0, 1}
  BY DEF Credit
<1>5. ASSUME Inspected' \subseteq Inspected, Failing' \subseteq Failing, Credit <= Credit'
      PROVE  BudgetInv'
  <2>1. PICK p : p = F.path
    OBVIOUS
  <2>2. PICK n : n = Len(stack)
    OBVIOUS
  <2>3. QED
    BY <1>1, <1>2, <1>3, <1>5, UnspentFits
<1>6. CASE Sanitize
  <2>1. stack' = stack /\ visits' = visits
    BY <1>6, Zenon DEF Sanitize, walkVars
  <2>2. Inspected' \subseteq Inspected /\ Failing' \subseteq Failing
    BY <2>1, SameCounts
  <2>3. Sanitizing
    BY <1>6, StepIsSane DEF Sane
  <2>4. stack # <<>> => Readmits'
    BY <1>1, <2>1, <2>3 DEF TasksInv, Readmits, F
  <2>5. stack = <<>> => ~Readmits
    BY DEF Readmits
  <2>6. Credit <= Credit'
    BY <2>1, <2>4, <2>5 DEF Credit
  <2>7. QED
    BY <1>5, <2>2, <2>6
<1>7. CASE UNCHANGED vars
  <2>1. stack' = stack /\ visits' = visits /\ heap' = heap
    BY <1>7, Zenon DEF vars, walkVars, sanitizerVars
  <2>2. Inspected' \subseteq Inspected /\ Failing' \subseteq Failing
    BY <2>1, SameCounts
  <2>3. Readmits' <=> Readmits
    BY <2>1 DEF Readmits, F, IsObject, IsError, IsKind
  <2>4. Credit <= Credit'
    BY <1>4, <2>1, <2>3 DEF Credit
  <2>5. QED
    BY <1>5, <2>2, <2>4
<1>8. CASE Serialized
  <2>1. PICK f : stack' = <<f>> /\ f.step = "enter"
    BY <1>8, SerializedShape
  <2>2. stack = <<>>
    BY <1>1, <1>8 DEF Serialized, TasksInv
  <2>3. Inspected' = {} /\ Failing' = {}
    BY <2>1 DEF Inspected, Failing
  <2>4. Credit = 0
    BY <2>2, NoCredit DEF Readmits
  <2>5. QED
    BY <1>4, <1>5, <2>3, <2>4
<1>9. CASE WalkDegraded
  <2>1. Walking /\ stack # <<>> /\ F.step = "degraded" /\ visits' = visits /\ heap' = heap
    BY <1>9, Zenon DEF WalkDegraded, At, Walking, sanitizerVars
  <2>2. PICK f : /\ Turns(f) /\ f.value = Id(Len(stack), <<>>) /\ f.depth = F.depth
                 /\ f.step = "enter" /\ f.value \in NodeIds
    BY <1>9, <2>1, DegradedShape
  <2>3. Turned(f)
    BY <2>1, <2>2, TurnCounts
  <2>4. Inspected' \subseteq Inspected /\ Failing' \subseteq Failing
    BY <2>2, <2>3 DEF Turned
  <2>5. Readmits'
    <3>1. tasks = <<>>
      BY <2>1, WalkingIs
    <3>2. f.value \in DOMAIN made
      BY <2>1, <2>2, <3>1 DEF RemadeInv
    <3>3. f.value \in DOMAIN heap
      BY <3>2 DEF NodesInv
    <3>4. heap[f.value].kind # "error"
      BY <1>1, <2>2, <3>3 DEF HeapInv, LibraryNode
    <3>5. F.depth <= MaxDepth
      <4>1. DepthOK(F)
        BY <1>1, <2>1, FIsACall DEF DepthInv
      <4>2. QED
        BY <2>1, <4>1 DEF DepthOK
    <3>6. F' = f /\ stack' # <<>>
      <4>1. F' = f /\ DOMAIN stack' = 1..Len(stack) /\ Len(stack) \in Nat \ {0}
        BY <1>1, <2>1, <2>2, TurnsShape
      <4>2. QED
        BY <4>1
    <3>7. QED
      BY <2>1, <2>2, <3>3, <3>4, <3>5, <3>6 DEF Readmits, IsObject, IsError, IsKind
  <2>6. Credit <= Credit'
    BY <1>4, <2>1, <2>5 DEF Credit
  <2>7. QED
    BY <1>5, <2>4, <2>6
<1>10. QED
  BY <1>6, <1>7, <1>8, <1>9

LEMMA BudgetNext ==
  ASSUME Types, Types', NodesInv, TreeInv, OpenInv, RaisingInv, RemadeInv, DepthInv, BudgetInv,
         [Next]_vars
  PROVE  BudgetInv'
<1>1. CASE Walk /\ ~WalkDegraded
  <2>1. Walking /\ BudgetMoves
    BY <1>1, BudgetMovesAre
  <2>2. CASE EnterOverBudget \/ Enter
    BY <2>1, <2>2, EnterFits
  <2>3. CASE CatchError
    BY <2>1, <2>3, CatchFits
  <2>4. CASE ~EnterOverBudget /\ ~Enter /\ ~CatchError
    BY <1>1, <2>1, <2>4, MovesFit
  <2>5. QED
    BY <2>2, <2>3, <2>4
<1>2. CASE WalkDegraded \/ Sanitize \/ Serialized \/ UNCHANGED vars
  BY <1>2, OtherFits
<1>3. QED
  BY <1>1, <1>2 DEF Next

LEMMA BudgetInit == Init => OpenInv /\ RaisingInv /\ RemadeInv /\ DepthInv /\ BudgetInv
<1> SUFFICES ASSUME Init PROVE OpenInv /\ RaisingInv /\ RemadeInv /\ DepthInv /\ BudgetInv
  OBVIOUS
<1>1. DOMAIN out = {} /\ raised = FALSE /\ visits = 0 /\ admitted = 0
  BY DEF Init
<1>2. PICK f : f = Frame(Record, <<>>, 0, FALSE, FALSE, Record)
  OBVIOUS
<1>3. f.step = "enter" /\ f.path = <<>> /\ f.depth = 0
  BY <1>2 DEF Frame
<1>4. stack = <<>> \/ stack = <<f>>
  BY <1>2 DEF Init
<1>5. ASSUME NEW i \in DOMAIN stack PROVE stack[i] = f
  BY <1>4
<1>6. \A g \in Callers : g = f
  BY <1>5 DEF Callers
<1>7. stack # <<>> => F = f
  BY <1>4 DEF F
<1>8. OpenInv
  BY <1>3, <1>6 DEF OpenInv, OpenSteps
<1>9. RaisingInv
  BY <1>1 DEF RaisingInv
<1>10. RemadeInv
  BY <1>3, <1>7 DEF RemadeInv
<1>11. DepthInv
  <2>1. PICK m \in Nat : m = MaxDepth
    BY RedactionAssumption
  <2>2. Len(f.path) = 0
    BY <1>3
  <2>3. DepthOK(f)
    BY <1>3, <2>1, <2>2 DEF DepthOK
  <2>4. QED
    BY <1>1, <1>6, <2>3 DEF DepthInv
<1>12. Counted = {}
  BY <1>1 DEF Counted
<1>13. Inspected = {} /\ Failing = {}
  BY <1>3, <1>5 DEF Inspected, Failing
<1>14. BudgetInv
  <2>1. PICK r \in {0, 1} : r = Credit
    BY DEF Credit
  <2>2. IsFiniteSet({}) /\ Cardinality({}) = 0
    BY FS_EmptySet
  <2>3. PICK m \in Nat \ {0} : m = MaxVisits
    BY RedactionAssumption
  <2>4. Fits(0, 0, 0, 0, 0, r)
    BY <2>1, <2>3 DEF Fits, Used
  <2>5. Fits(visits, admitted, Cardinality(Counted), Cardinality(Inspected),
             Cardinality(Failing), Credit)
    BY <1>1, <1>12, <1>13, <2>1, <2>2, <2>4
  <2>6. QED
    BY <1>12, <1>13, <2>2, <2>5 DEF BudgetInv
<1>15. QED
  BY <1>8, <1>9, <1>10, <1>11, <1>14

LEMMA BudgetBounds ==
  ASSUME Types, DepthInv, BudgetInv
  PROVE  BudgetBoundsTheWalk
<1>1. PICK c \in Nat, i \in Nat, f \in Nat :
        c = Cardinality(Counted) /\ i = Cardinality(Inspected) /\ f = Cardinality(Failing)
  BY FS_CardinalityType DEF BudgetInv
<1>2. PICK v \in Int, a \in Nat, r \in {0, 1} : v = visits /\ a = admitted /\ r = Credit
  BY DEF Types, ScalarsInv, Credit
<1>3. PICK m \in Nat \ {0} : m = MaxVisits
  BY RedactionAssumption
<1>4. PICK u \in Int : u = Used(v)
  BY <1>2, <1>3 DEF Used
<1>5. c + i <= u /\ a + f <= 2 * u + r
  BY <1>1, <1>2, <1>4 DEF BudgetInv, Fits
<1>6. c \in Nat /\ i \in Nat /\ f \in Nat /\ a \in Nat /\ m \in Nat
  BY <1>1, <1>2, <1>3
<1>7. u <= m /\ (r = 0 \/ (r = 1 /\ u <= m - 1))
  <2>1. r = 1 => v < m
    BY <1>2, <1>3 DEF Credit
  <2>2. QED
    BY <1>2, <1>3, <1>4, <2>1 DEF Used
<1>8. u \in Int
  BY <1>4
<1>9. c <= m /\ a <= 2 * m
  <2>1. c <= m
    BY <1>5, <1>6, <1>7, <1>8
  <2>2. CASE r = 0
    BY <1>5, <1>6, <1>7, <1>8, <2>2
  <2>3. CASE r = 1 /\ u <= m - 1
    <3>1. a <= 2 * u + 1
      BY <1>5, <1>6, <1>8, <2>3
    <3>2. QED
      BY <1>6, <1>8, <2>1, <2>3, <3>1
  <2>4. QED
    BY <1>7, <2>1, <2>2, <2>3
<1>10. Cardinality(Counted) <= MaxVisits /\ admitted <= 2 * MaxVisits
  BY <1>1, <1>2, <1>3, <1>9
<1>11. QED
  BY <1>10 DEF BudgetBoundsTheWalk, DepthInv, Counted

\* The work of a walk is bounded, whatever the graph is (walk, walkError): the copy has at most
\* as many containers as the budget has visits, an error costs at most the walk of itself and
\* that of its node, no path is longer than the depth allows, and every node the sanitizer
\* made is a tree within the sanitizer's own bounds.
THEOREM WorkBounded == Spec => []WorkIsBounded
<1>1. Init => /\ Types /\ CallsInv /\ NodesInv /\ FormsInv /\ PolicyInv /\ TreeInv
              /\ OpenInv /\ RaisingInv /\ RemadeInv /\ DepthInv /\ BudgetInv
  BY InitTypes, NodesInit, PolicyInit, TreeInit, BudgetInit
<1>2. ASSUME Types, CallsInv, NodesInv, FormsInv, PolicyInv, TreeInv,
             OpenInv, RaisingInv, RemadeInv, DepthInv, BudgetInv, [Next]_vars
      PROVE  (/\ Types /\ CallsInv /\ NodesInv /\ FormsInv /\ PolicyInv /\ TreeInv
              /\ OpenInv /\ RaisingInv /\ RemadeInv /\ DepthInv /\ BudgetInv)'
  <2>1. Types' /\ CallsInv' /\ NodesInv' /\ FormsInv' /\ PolicyInv' /\ TreeInv'
    BY <1>2, NextTypes, CallsNext, NodesNext, PolicyNext, TreeNext
  <2>2. OpenInv' /\ RaisingInv' /\ RemadeInv'
    BY <1>2, <2>1, OpenNext, RaisingNext, RemadeNext
  <2>3. DepthInv' /\ BudgetInv'
    BY <1>2, <2>1, DepthNext, BudgetNext
  <2>4. QED
    BY <2>1, <2>2, <2>3
<1>3. Types /\ DepthInv /\ BudgetInv => BudgetBoundsTheWalk
  BY BudgetBounds
<1>4. NodeIsBounded /\ BudgetBoundsTheWalk => WorkIsBounded
  BY DEF WorkIsBounded
<1>5. QED
  BY <1>1, <1>2, <1>3, <1>4, NodesAreTrees, PTL DEF Spec
=============================================================================
