--------------------------- MODULE PrettyDevProofs ---------------------------
(***************************************************************************)
(* Proofs about one PrettyDevDestination, for any limits, entry sizes and  *)
(* number of writes, and any caller that follows the lifecycle.            *)
(***************************************************************************)
EXTENDS PrettyDevDestination, NaturalsInduction, WellFoundedInduction, TLAPS

USE PrettyAssumption

HeldEntry  == [entry : Nat, bytes : Sizes]
Resolution == [entry : Nat, as : Outcomes]

TypeInv ==
  /\ stream \in {"none", "open", "ended"}
  /\ initFailed \in BOOLEAN
  /\ bufferOverflowed \in BOOLEAN
  /\ buffer \in Seq(HeldEntry)
  /\ bufferedBytes \in Nat
  /\ resolved \in Seq(Resolution)
  /\ written \in Nat

\* Where the caller is decides whether there is a transform; and nothing is held
\* once there is one, or once the buffer has overflowed.
LifecycleInv ==
  /\ phase \in {"constructed", "importing"} => stream = "none" /\ ~initFailed
  /\ phase \in {"initialized", "ready"} => stream # "none"
  /\ stream # "none" \/ bufferOverflowed => buffer = <<>>

-----------------------------------------------------------------------------
(***************************************************************************)
(* Draining what is held into the history.                                 *)
(***************************************************************************)

Drain(how) == resolved \o [i \in DOMAIN buffer |-> As(how[i], buffer[i].entry)]

LEMMA HeldType ==
  ASSUME TypeInv
  PROVE  /\ Len(buffer) \in Nat /\ DOMAIN buffer = 1..Len(buffer)
         /\ \A i \in DOMAIN buffer : buffer[i].entry \in Nat /\ buffer[i].bytes \in Sizes
<1>1. buffer \in Seq(HeldEntry)
  BY DEF TypeInv
<1>2. ASSUME NEW i \in DOMAIN buffer
      PROVE  buffer[i] \in HeldEntry
  <2> HIDE DEF HeldEntry
  <2>1. QED
    BY <1>1
<1>3. QED
  BY <1>1, <1>2 DEF HeldEntry

LEMMA ConcatElements ==
  ASSUME NEW S, NEW s \in Seq(S), NEW t \in Seq(S)
  PROVE  /\ s \o t \in Seq(S)
         /\ Len(s \o t) = Len(s) + Len(t)
         /\ \A i \in 1..Len(s) : (s \o t)[i] = s[i]
         /\ \A j \in 1..Len(t) : (s \o t)[Len(s) + j] = t[j]
<1>1. s \o t \in Seq(S) /\ Len(s \o t) = Len(s) + Len(t)
  OBVIOUS
<1>2. \A i \in 1..Len(s) : (s \o t)[i] = s[i]
  OBVIOUS
<1>3. ASSUME NEW j \in 1..Len(t)
      PROVE  (s \o t)[Len(s) + j] = t[j]
  OBVIOUS
<1>4. QED
  BY <1>1, <1>2, <1>3

\* The drained history, index by index.
LEMMA DrainElements ==
  ASSUME TypeInv, NEW how \in [DOMAIN buffer -> Outcomes]
  PROVE  /\ Drain(how) \in Seq(Resolution)
         /\ Len(Drain(how)) = Len(resolved) + Len(buffer)
         /\ \A i \in 1..Len(resolved) : Drain(how)[i] = resolved[i]
         /\ \A j \in 1..Len(buffer) :
              Drain(how)[Len(resolved) + j] = As(how[j], buffer[j].entry)
<1> DEFINE add == [i \in DOMAIN buffer |-> As(how[i], buffer[i].entry)]
<1>1. DOMAIN buffer = 1..Len(buffer) /\ Len(buffer) \in Nat
  BY HeldType
<1>2. ASSUME NEW i \in DOMAIN buffer
      PROVE  As(how[i], buffer[i].entry) \in Resolution
  BY HeldType DEF As, Resolution
<1>3. add \in Seq(Resolution) /\ Len(add) = Len(buffer)
  <2> HIDE DEF Resolution, As
  <2>1. add \in [1..Len(buffer) -> Resolution]
    BY <1>1, <1>2
  <2> HIDE DEF add
  <2>2. QED
    BY <1>1, <2>1
<1>4. \A j \in 1..Len(buffer) : add[j] = As(how[j], buffer[j].entry)
  BY <1>1
<1>5. resolved \in Seq(Resolution) /\ Drain(how) = resolved \o add
  BY DEF TypeInv, Drain
<1> HIDE DEF add, Resolution
<1>6. QED
  BY <1>3, <1>4, <1>5, ConcatElements

LEMMA ResolutionType ==
  ASSUME NEW how \in Outcomes, NEW e \in Nat
  PROVE  As(how, e) \in Resolution /\ As(how, e).as = how /\ As(how, e).entry = e
  BY DEF As, Resolution

LEMMA AppendResolution ==
  ASSUME NEW h \in Seq(Resolution), NEW x \in Resolution
  PROVE  /\ Append(h, x) \in Seq(Resolution)
         /\ Len(Append(h, x)) = Len(h) + 1
         /\ \A i \in 1..Len(h) : Append(h, x)[i] = h[i]
         /\ Append(h, x)[Len(h) + 1] = x
<1> HIDE DEF Resolution
<1>1. QED
  OBVIOUS

-----------------------------------------------------------------------------
(***************************************************************************)
(* What a step may do to the buffer and the history.                       *)
(***************************************************************************)

Keeps == UNCHANGED <<buffer, bufferedBytes, resolved, written>>

Emptied == buffer' = <<>> /\ bufferedBytes' = 0

Drains ==
  /\ Emptied
  /\ \E how \in [DOMAIN buffer -> Outcomes \ {"dropped"}] : resolved' = Drain(how)
  /\ written' = written

\* A write that is decided at once: shown only when nothing is held, dropped only
\* by a destination that failed or closed.
Resolves ==
  /\ UNCHANGED <<buffer, bufferedBytes>>
  /\ \E how \in Outcomes :
       /\ resolved' = Append(resolved, As(how, written + 1))
       /\ how \in Shown => buffer = <<>>
       /\ how = "dropped" => initFailed \/ stream = "ended"
  /\ written' = written + 1

\* A write that finds the buffer full.
Overflowing ==
  /\ Emptied
  /\ \E how \in [DOMAIN buffer -> Outcomes \ {"dropped"}] :
       resolved' = Append(Drain(how), As("raw", written + 1))
  /\ written' = written + 1

Holds ==
  /\ \E bytes \in Sizes :
       /\ ~Overflows(bytes)
       /\ buffer' = Append(buffer, [entry |-> written + 1, bytes |-> bytes])
       /\ bufferedBytes' = bufferedBytes + bytes
  /\ resolved' = resolved
  /\ written' = written + 1

LEMMA FlushDrains ==
  ASSUME NEW outcome \in Outcomes \ {"dropped"}, FlushBuffer(outcome), written' = written
  PROVE  Drains
<1> DEFINE how == [i \in DOMAIN buffer |-> outcome]
<1>1. how \in [DOMAIN buffer -> Outcomes \ {"dropped"}]
  OBVIOUS
<1>2. Drain(how) = resolved \o Flushed(outcome)
  BY DEF Drain, Flushed
<1>3. resolved' = Drain(how) /\ Emptied
  BY <1>2 DEF FlushBuffer, EmptyBuffer, Emptied
<1>4. QED
  BY <1>1, <1>3 DEF Drains

\* Every step is one of the five.
LEMMA StepKinds ==
  ASSUME TypeInv, LifecycleInv, [Next]_vars
  PROVE  Keeps \/ Drains \/ Resolves \/ Overflowing \/ Holds
<1>1. CASE UNCHANGED vars \/ Closed \/ CallOnInit
  BY <1>1 DEF vars, prettyVars, Closed, CallOnInit, Keeps
<1>2. CASE CallOnInitRefused \/ ImportFails
  BY <1>2 DEF CallOnInitRefused, ImportFails, InitFails, Keeps
<1>3. CASE ImportResolves
  <2>1. PICK replay \in [DOMAIN buffer -> Shown] :
          resolved' = resolved \o [i \in DOMAIN buffer |-> As(replay[i], buffer[i].entry)]
    BY <1>3 DEF ImportResolves, InitSucceeds
  <2>2. replay \in [DOMAIN buffer -> Outcomes \ {"dropped"}] /\ resolved' = Drain(replay)
    BY <2>1 DEF Drain, Shown, Outcomes
  <2>3. Emptied /\ written' = written
    BY <1>3 DEF ImportResolves, InitSucceeds, EmptyBuffer, Emptied
  <2>4. QED
    BY <2>2, <2>3 DEF Drains
<1>4. CASE CallOnRegistryReady
  <2>1. written' = written /\ (FlushBuffer("discarded") \/ FlushBuffer("raw"))
    BY <1>4 DEF CallOnRegistryReady, OnRegistryReady
  <2>2. QED
    BY <2>1, FlushDrains DEF Outcomes
<1>5. CASE CallOnShutdown
  <2>1. written' = written /\ (FlushBuffer("raw") \/ Keeps)
    BY <1>5 DEF CallOnShutdown, OnShutdown, ShutdownBeforeInit, ShutdownStream, Keeps
  <2>2. QED
    BY <2>1, FlushDrains DEF Outcomes
<1>6. CASE CallWrite
  <2>1. PICK bytes \in Sizes : WriteEntry(written + 1, bytes)
    BY <1>6 DEF CallWrite
  <2>2. written' = written + 1
    BY <1>6 DEF CallWrite
  <2>3. CASE WriteToStream(written + 1)
    <3>1. buffer = <<>> /\ (stream = "open" \/ stream = "ended")
      BY <2>3 DEF WriteToStream, LifecycleInv, TypeInv
    <3>2. UNCHANGED <<buffer, bufferedBytes>>
      BY <2>3 DEF WriteToStream
    <3>3. CASE stream = "open"
      <4>1. resolved' = Append(resolved, As("rendered", written + 1))
        BY <2>3, <3>3 DEF WriteToStream
      <4>2. QED
        BY <2>2, <3>1, <3>2, <4>1 DEF Resolves, Outcomes
    <3>4. CASE stream = "ended"
      <4>1. resolved' = Append(resolved, As("dropped", written + 1))
        BY <2>3, <3>4 DEF WriteToStream
      <4>2. QED
        BY <2>2, <3>1, <3>2, <3>4, <4>1 DEF Resolves, Outcomes
    <3>5. QED
      BY <3>1, <3>3, <3>4
  <2>4. CASE WriteWhenFailed(written + 1) \/ WriteWhenOverflowed(written + 1)
    BY <2>2, <2>4 DEF WriteWhenFailed, WriteWhenOverflowed, Resolves, Outcomes, Shown,
       LifecycleInv
  <2>5. CASE WriteOverflows(written + 1, bytes)
    <3> DEFINE how == [i \in DOMAIN buffer |-> "raw"]
    <3>1. how \in [DOMAIN buffer -> Outcomes \ {"dropped"}]
      BY DEF Outcomes
    <3>2. Drain(how) = resolved \o Flushed("raw")
      BY DEF Drain, Flushed
    <3>3. resolved' = Append(Drain(how), As("raw", written + 1)) /\ Emptied
      BY <2>5, <3>2 DEF WriteOverflows, EmptyBuffer, Emptied
    <3> HIDE DEF how
    <3>4. QED
      BY <2>2, <3>1, <3>3 DEF Overflowing
  <2>6. CASE WriteHolds(written + 1, bytes)
    BY <2>2, <2>6 DEF WriteHolds, Holds
  <2>7. QED
    BY <2>1, <2>3, <2>4, <2>5, <2>6 DEF WriteEntry
<1>7. QED
  BY <1>1, <1>2, <1>3, <1>4, <1>5, <1>6 DEF Next

-----------------------------------------------------------------------------
(***************************************************************************)
(* Types and lifecycle.                                                    *)
(***************************************************************************)

LEMMA TypeInvInit == Init => TypeInv /\ LifecycleInv
<1>1. Init => LifecycleInv
  BY DEF Init, PrettyInit, LifecycleInv
<1>2. \A S : <<>> \in Seq(S)
  OBVIOUS
<1>3. Init => TypeInv
  <2>1. <<>> \in Seq(HeldEntry) /\ <<>> \in Seq(Resolution)
    BY <1>2
  <2>2. FALSE \in BOOLEAN /\ 0 \in Nat
    OBVIOUS
  <2>3. QED
    BY <2>1, <2>2, Zenon DEF Init, PrettyInit, TypeInv
<1>4. QED
  BY <1>1, <1>3

LEMMA FlagTypes ==
  ASSUME TypeInv, [Next]_vars
  PROVE  /\ stream' \in {"none", "open", "ended"}
         /\ initFailed' \in BOOLEAN
         /\ bufferOverflowed' \in BOOLEAN
<1>1. CASE UNCHANGED vars \/ Closed \/ CallOnInit
  BY <1>1 DEF vars, prettyVars, Closed, CallOnInit, TypeInv
<1>2. CASE CallOnInitRefused \/ ImportFails \/ ImportResolves
  BY <1>2 DEF CallOnInitRefused, ImportFails, InitFails, ImportResolves, InitSucceeds, TypeInv
<1>3. CASE CallOnRegistryReady \/ CallOnShutdown
  BY <1>3 DEF CallOnRegistryReady, OnRegistryReady, CallOnShutdown, OnShutdown,
     ShutdownBeforeInit, ShutdownStream, TypeInv
<1>4. CASE CallWrite
  BY <1>4 DEF CallWrite, WriteEntry, WriteToStream, WriteWhenFailed, WriteWhenOverflowed,
     WriteOverflows, WriteHolds, TypeInv
<1>5. QED
  BY <1>1, <1>2, <1>3, <1>4 DEF Next

LEMMA AppendHeld ==
  ASSUME TypeInv, NEW bytes \in Sizes
  PROVE  /\ Append(buffer, [entry |-> written + 1, bytes |-> bytes]) \in Seq(HeldEntry)
<1> DEFINE new == [entry |-> written + 1, bytes |-> bytes]
<1>1. new \in HeldEntry /\ buffer \in Seq(HeldEntry)
  BY DEF TypeInv, HeldEntry
<1> HIDE DEF new, HeldEntry
<1>2. Append(buffer, new) \in Seq(HeldEntry)
  BY <1>1
<1>3. QED
  BY <1>2 DEF new

LEMMA TypeInvStep ==
  ASSUME TypeInv, LifecycleInv, [Next]_vars
  PROVE  TypeInv'
<1>1. /\ written \in Nat /\ bufferedBytes \in Nat /\ resolved \in Seq(Resolution)
      /\ buffer \in Seq(HeldEntry) /\ <<>> \in Seq(HeldEntry)
  BY DEF TypeInv
<1>2. /\ buffer' \in Seq(HeldEntry)
      /\ bufferedBytes' \in Nat
      /\ resolved' \in Seq(Resolution)
      /\ written' \in Nat
  <2>1. CASE Keeps
    BY <1>1, <2>1 DEF Keeps
  <2>2. CASE Drains
    <3> HIDE DEF HeldEntry, Resolution
    <3>1. QED
      BY <1>1, <2>2, DrainElements DEF Drains, Emptied
  <2>3. CASE Resolves
    <3>1. PICK how \in Outcomes : resolved' = Append(resolved, As(how, written + 1))
      BY <2>3 DEF Resolves
    <3>2. As(how, written + 1) \in Resolution
      BY <1>1, ResolutionType
    <3> HIDE DEF HeldEntry, Resolution
    <3>3. QED
      BY <1>1, <2>3, <3>1, <3>2 DEF Resolves
  <2>4. CASE Overflowing
    <3>1. PICK how \in [DOMAIN buffer -> Outcomes] :
            resolved' = Append(Drain(how), As("raw", written + 1))
      BY <2>4 DEF Overflowing
    <3>2. As("raw", written + 1) \in Resolution
      BY <1>1, ResolutionType DEF Outcomes
    <3> HIDE DEF HeldEntry, Resolution
    <3>3. Drain(how) \in Seq(Resolution)
      BY DrainElements
    <3>4. resolved' \in Seq(Resolution)
      BY <3>1, <3>2, <3>3, AppendResolution
    <3>5. QED
      BY <1>1, <2>4, <3>4 DEF Overflowing, Emptied
  <2>5. CASE Holds
    <3> HIDE DEF HeldEntry, Resolution
    <3>1. QED
      BY <1>1, <2>5, AppendHeld DEF Holds
  <2>6. QED
    BY <2>1, <2>2, <2>3, <2>4, <2>5, StepKinds
<1>3. QED
  BY <1>2, FlagTypes DEF TypeInv

LEMMA LifecycleInvStep ==
  ASSUME TypeInv, LifecycleInv, [Next]_vars
  PROVE  LifecycleInv'
<1>1. CASE UNCHANGED vars \/ Closed \/ CallOnInit
  BY <1>1 DEF vars, prettyVars, Closed, CallOnInit, LifecycleInv
<1>2. CASE CallOnInitRefused \/ ImportFails \/ ImportResolves
  BY <1>2 DEF CallOnInitRefused, ImportFails, InitFails, ImportResolves, InitSucceeds,
     EmptyBuffer, LifecycleInv
<1>3. CASE CallOnRegistryReady \/ CallOnShutdown
  BY <1>3 DEF CallOnRegistryReady, OnRegistryReady, FlushBuffer, EmptyBuffer, CallOnShutdown,
     OnShutdown, ShutdownBeforeInit, ShutdownStream, LifecycleInv
<1>4. CASE CallWrite
  BY <1>4 DEF CallWrite, WriteEntry, WriteToStream, WriteWhenFailed, WriteWhenOverflowed,
     WriteOverflows, EmptyBuffer, WriteHolds, LifecycleInv
<1>5. QED
  BY <1>1, <1>2, <1>3, <1>4 DEF Next

-----------------------------------------------------------------------------
(***************************************************************************)
(* What is shown, then what is held, ascends.                              *)
(***************************************************************************)

Ascending(h) == \A i, j \in DOMAIN h : i < j => h[i].entry < h[j].entry

ShownAscending(h) ==
  \A i, j \in DOMAIN h :
    i < j /\ h[i].as \in Shown /\ h[j].as \in Shown => h[i].entry < h[j].entry

ShownBelow(h, e) == \A i \in DOMAIN h : h[i].as \in Shown => h[i].entry < e

OrderInv ==
  /\ ShownAscending(resolved)
  /\ Ascending(buffer)
  /\ \A j \in DOMAIN buffer : ShownBelow(resolved, buffer[j].entry)
  /\ ShownBelow(resolved, written + 1)
  /\ \A j \in DOMAIN buffer : buffer[j].entry < written + 1

\* Where an element of the drained history comes from.
LEMMA DrainAt ==
  ASSUME TypeInv, NEW how \in [DOMAIN buffer -> Outcomes], NEW i \in DOMAIN Drain(how)
  PROVE  \/ i \in DOMAIN resolved /\ Drain(how)[i] = resolved[i]
         \/ \E j \in DOMAIN buffer :
              i = Len(resolved) + j /\ Drain(how)[i].entry = buffer[j].entry
<1>1. /\ Len(resolved) \in Nat /\ DOMAIN resolved = 1..Len(resolved)
      /\ Len(buffer) \in Nat /\ DOMAIN buffer = 1..Len(buffer)
  BY DEF TypeInv
<1>2. DOMAIN Drain(how) = 1..(Len(resolved) + Len(buffer))
  <2> HIDE DEF Resolution
  <2>1. Drain(how) \in Seq(Resolution) /\ Len(Drain(how)) = Len(resolved) + Len(buffer)
    BY DrainElements
  <2>2. QED
    BY <2>1
<1>3. CASE i <= Len(resolved)
  BY <1>1, <1>2, <1>3, DrainElements
<1>4. CASE i > Len(resolved)
  <2>1. i - Len(resolved) \in 1..Len(buffer) /\ i = Len(resolved) + (i - Len(resolved))
    BY <1>1, <1>2, <1>4
  <2>2. Drain(how)[i] = As(how[i - Len(resolved)], buffer[i - Len(resolved)].entry)
    BY <2>1, DrainElements
  <2>3. Drain(how)[i].entry = buffer[i - Len(resolved)].entry
    BY <2>2 DEF As
  <2>4. QED
    BY <1>1, <2>1, <2>3
<1>5. QED
  BY <1>1, <1>2, <1>3, <1>4

LEMMA DrainOrder ==
  ASSUME TypeInv, OrderInv, NEW how \in [DOMAIN buffer -> Outcomes]
  PROVE  ShownAscending(Drain(how)) /\ ShownBelow(Drain(how), written + 1)
<1>1. /\ Len(resolved) \in Nat /\ DOMAIN resolved = 1..Len(resolved)
      /\ Len(buffer) \in Nat /\ DOMAIN buffer = 1..Len(buffer)
  BY DEF TypeInv
<1>2. DOMAIN Drain(how) \subseteq Nat
  BY <1>1, DrainAt
<1>3. ASSUME NEW i \in DOMAIN Drain(how), NEW j \in DOMAIN Drain(how), i < j,
             Drain(how)[i].as \in Shown, Drain(how)[j].as \in Shown
      PROVE  Drain(how)[i].entry < Drain(how)[j].entry
  <2>1. CASE j \in DOMAIN resolved /\ Drain(how)[j] = resolved[j]
    <3>1. i \in DOMAIN resolved /\ Drain(how)[i] = resolved[i]
      BY <1>1, <1>3, <2>1, DrainAt
    <3>2. QED
      BY <1>3, <2>1, <3>1 DEF OrderInv, ShownAscending
  <2>2. ASSUME NEW k \in DOMAIN buffer,
               j = Len(resolved) + k, Drain(how)[j].entry = buffer[k].entry
        PROVE  Drain(how)[i].entry < Drain(how)[j].entry
    <3>1. CASE i \in DOMAIN resolved /\ Drain(how)[i] = resolved[i]
      BY <1>3, <2>2, <3>1 DEF OrderInv, ShownBelow
    <3>2. ASSUME NEW l \in DOMAIN buffer,
                 i = Len(resolved) + l, Drain(how)[i].entry = buffer[l].entry
          PROVE  Drain(how)[i].entry < Drain(how)[j].entry
      <4>1. l < k
        BY <1>1, <1>3, <2>2, <3>2
      <4>2. QED
        BY <2>2, <3>2, <4>1 DEF OrderInv, Ascending
    <3>3. QED
      BY <3>1, <3>2, DrainAt
  <2>3. QED
    BY <2>1, <2>2, DrainAt
<1>4. ASSUME NEW i \in DOMAIN Drain(how), Drain(how)[i].as \in Shown
      PROVE  Drain(how)[i].entry < written + 1
  BY <1>4, DrainAt DEF OrderInv, ShownBelow
<1>5. QED
  BY <1>3, <1>4 DEF ShownAscending, ShownBelow

\* A history that ends with what was written last.
LEMMA AppendOrder ==
  ASSUME NEW h \in Seq(Resolution), NEW e \in Nat, NEW how \in Outcomes,
         ShownAscending(h), ShownBelow(h, e)
  PROVE  /\ ShownAscending(Append(h, As(how, e)))
         /\ ShownBelow(Append(h, As(how, e)), e + 1)
<1> DEFINE x == As(how, e)
           r == Append(h, x)
<1>1. x \in Resolution /\ x.entry = e
  BY ResolutionType
<1>2. \A i \in DOMAIN h : h[i] \in Resolution
  <2> HIDE DEF Resolution
  <2>1. QED
    OBVIOUS
<1>3. Len(h) \in Nat /\ DOMAIN h = 1..Len(h)
  OBVIOUS
<1>4. /\ r \in Seq(Resolution) /\ Len(r) = Len(h) + 1 /\ r[Len(h) + 1] = x
      /\ \A i \in 1..Len(h) : r[i] = h[i]
  BY <1>1, AppendResolution
<1>5. DOMAIN r = 1..(Len(h) + 1)
  <2> HIDE DEF r, Resolution
  <2>1. QED
    BY <1>4
<1> HIDE DEF x, r
<1>6. ASSUME NEW i \in DOMAIN r, NEW j \in DOMAIN r, i < j, r[i].as \in Shown, r[j].as \in Shown
      PROVE  r[i].entry < r[j].entry
  <2>1. i \in DOMAIN h /\ r[i] = h[i]
    BY <1>3, <1>4, <1>5, <1>6
  <2>2. CASE j \in DOMAIN h /\ r[j] = h[j]
    BY <1>6, <2>1, <2>2 DEF ShownAscending
  <2>3. CASE r[j] = x
    BY <1>1, <1>6, <2>1, <2>3 DEF ShownBelow
  <2>4. QED
    BY <1>3, <1>4, <1>5, <2>2, <2>3
<1>7. ASSUME NEW i \in DOMAIN r, r[i].as \in Shown
      PROVE  r[i].entry < e + 1
  <2>1. CASE i \in DOMAIN h /\ r[i] = h[i]
    <3>1. h[i].entry \in Nat /\ h[i].entry < e
      BY <1>2, <1>7, <2>1 DEF ShownBelow, Resolution
    <3>2. QED
      BY <2>1, <3>1
  <2>2. CASE r[i] = x
    BY <1>1, <2>2
  <2>3. QED
    BY <1>3, <1>4, <1>5, <2>1, <2>2
<1>8. QED
  BY <1>6, <1>7 DEF ShownAscending, ShownBelow, r, x

\* A history that grows by what is not shown.
LEMMA AppendUnshown ==
  ASSUME NEW h \in Seq(Resolution), NEW x \in Resolution, x.as \notin Shown
  PROVE  /\ ShownAscending(h) => ShownAscending(Append(h, x))
         /\ \A e : ShownBelow(h, e) => ShownBelow(Append(h, x), e)
<1> DEFINE r == Append(h, x)
<1>1. Len(h) \in Nat /\ DOMAIN h = 1..Len(h)
  OBVIOUS
<1>2. /\ r \in Seq(Resolution) /\ Len(r) = Len(h) + 1 /\ r[Len(h) + 1] = x
      /\ \A i \in 1..Len(h) : r[i] = h[i]
  BY AppendResolution
<1>3. DOMAIN r = 1..(Len(h) + 1)
  <2> HIDE DEF r, Resolution
  <2>1. QED
    BY <1>2
<1> HIDE DEF r
<1>4. \A i \in DOMAIN r : r[i].as \in Shown => i \in DOMAIN h /\ r[i] = h[i]
  BY <1>1, <1>2, <1>3
<1>5. ShownAscending(h) => ShownAscending(r)
  BY <1>4 DEF ShownAscending
<1>6. \A e : ShownBelow(h, e) => ShownBelow(r, e)
  BY <1>4 DEF ShownBelow
<1>7. QED
  BY <1>5, <1>6 DEF r

LEMMA OrderInvInit == Init => OrderInv
  BY DEF Init, PrettyInit, OrderInv, ShownAscending, Ascending, ShownBelow

\* What is below a bound is below a later one.
LEMMA BelowLater ==
  ASSUME NEW h \in Seq(Resolution), NEW e \in Nat, ShownBelow(h, e)
  PROVE  ShownBelow(h, e + 1)
<1>1. \A i \in DOMAIN h : h[i].entry \in Nat
  <2>1. \A i \in DOMAIN h : h[i] \in Resolution
    <3> HIDE DEF Resolution
    <3>1. QED
      OBVIOUS
  <2>2. QED
    BY <2>1 DEF Resolution
<1>2. QED
  BY <1>1 DEF ShownBelow

LEMMA OrderInvStep ==
  ASSUME TypeInv, LifecycleInv, OrderInv, [Next]_vars
  PROVE  OrderInv'
<1>1. written + 1 \in Nat /\ resolved \in Seq(Resolution)
  BY DEF TypeInv
<1>2. CASE Keeps
  BY <1>2 DEF Keeps, OrderInv
<1>3. CASE Drains
  <2>1. PICK how \in [DOMAIN buffer -> Outcomes] : resolved' = Drain(how)
    BY <1>3 DEF Drains
  <2>2. ShownAscending(resolved') /\ ShownBelow(resolved', written' + 1)
    BY <1>3, <2>1, DrainOrder DEF Drains
  <2>3. buffer' = <<>>
    BY <1>3 DEF Drains, Emptied
  <2>4. QED
    BY <2>2, <2>3 DEF OrderInv, Ascending
<1>4. CASE Resolves
  <2>1. PICK how \in Outcomes :
          resolved' = Append(resolved, As(how, written + 1)) /\ (how \in Shown => buffer = <<>>)
    BY <1>4 DEF Resolves
  <2>2. buffer' = buffer /\ written' = written + 1
    BY <1>4 DEF Resolves
  <2>3. ShownAscending(resolved') /\ ShownBelow(resolved', written' + 1)
    BY <1>1, <2>1, <2>2, AppendOrder DEF OrderInv
  <2>4. CASE buffer = <<>>
    BY <2>2, <2>3, <2>4 DEF OrderInv, Ascending
  <2>5. CASE how \notin Shown
    <3>1. As(how, written + 1) \in Resolution /\ As(how, written + 1).as \notin Shown
      BY <1>1, <2>5, ResolutionType
    <3>2. \A j \in DOMAIN buffer : ShownBelow(resolved', buffer[j].entry)
      BY <1>1, <2>1, <3>1, AppendUnshown DEF OrderInv
    <3>3. \A j \in DOMAIN buffer : buffer[j].entry < written' + 1
      BY <2>2, HeldType DEF OrderInv, TypeInv
    <3>4. QED
      BY <2>2, <2>3, <3>2, <3>3 DEF OrderInv
  <2>6. QED
    BY <2>1, <2>4, <2>5
<1>5. CASE Overflowing
  <2>1. PICK how \in [DOMAIN buffer -> Outcomes] :
          resolved' = Append(Drain(how), As("raw", written + 1))
    BY <1>5 DEF Overflowing
  <2>2. /\ ShownAscending(Drain(how)) /\ ShownBelow(Drain(how), written + 1)
        /\ Drain(how) \in Seq(Resolution)
    BY DrainOrder, DrainElements
  <2>3. ShownAscending(resolved') /\ ShownBelow(resolved', written' + 1)
    BY <1>1, <1>5, <2>1, <2>2, AppendOrder DEF Overflowing, Outcomes
  <2>4. buffer' = <<>>
    BY <1>5 DEF Overflowing, Emptied
  <2>5. QED
    BY <2>3, <2>4 DEF OrderInv, Ascending
<1>6. CASE Holds
  <2>1. PICK bytes \in Sizes :
          buffer' = Append(buffer, [entry |-> written + 1, bytes |-> bytes])
    BY <1>6 DEF Holds
  <2>2. resolved' = resolved /\ written' = written + 1
    BY <1>6 DEF Holds
  <2>3. /\ DOMAIN buffer' = 1..(Len(buffer) + 1)
        /\ \A i \in DOMAIN buffer : buffer'[i] = buffer[i]
        /\ buffer'[Len(buffer) + 1].entry = written + 1
    <3> DEFINE new == [entry |-> written + 1, bytes |-> bytes]
    <3>1. buffer \in Seq(HeldEntry) /\ new \in HeldEntry /\ new.entry = written + 1
      BY <1>1 DEF TypeInv, HeldEntry
    <3>2. buffer' = Append(buffer, new)
      BY <2>1
    <3> HIDE DEF new, HeldEntry
    <3>3. QED
      BY <3>1, <3>2
  <2>4. /\ Len(buffer) \in Nat /\ DOMAIN buffer = 1..Len(buffer)
        /\ \A i \in DOMAIN buffer : buffer[i].entry \in Nat
    BY HeldType
  <2>5. \A i \in DOMAIN buffer' : \/ i \in DOMAIN buffer /\ buffer'[i] = buffer[i]
                                  \/ i = Len(buffer) + 1 /\ buffer'[i].entry = written + 1
    BY <2>3, <2>4
  <2>6. Ascending(buffer')
    BY <1>1, <2>4, <2>5 DEF OrderInv, Ascending
  <2>7. \A j \in DOMAIN buffer' : ShownBelow(resolved, buffer'[j].entry)
    BY <2>5 DEF OrderInv
  <2>8. \A j \in DOMAIN buffer' : buffer'[j].entry < written' + 1
    BY <1>1, <2>2, <2>4, <2>5 DEF OrderInv
  <2>9. ShownBelow(resolved, written' + 1)
    BY <1>1, <2>2, BelowLater DEF OrderInv
  <2>10. QED
    BY <2>2, <2>6, <2>7, <2>8, <2>9 DEF OrderInv
<1>7. QED
  BY <1>2, <1>3, <1>4, <1>5, <1>6, StepKinds

-----------------------------------------------------------------------------
(***************************************************************************)
(* What is held, and its size.                                             *)
(***************************************************************************)

\* The running totals of the sizes held: the byte count is the last of them.
IsTotal(total, held) ==
  /\ total \in [0..Len(held) -> Nat]
  /\ total[0] = 0
  /\ \A i \in 1..Len(held) : total[i] = total[i - 1] + held[i].bytes

SizeInv ==
  /\ Len(buffer) <= MaxBuffered
  /\ bufferedBytes <= MaxBytes
  /\ \E total : IsTotal(total, buffer) /\ total[Len(buffer)] = bufferedBytes

LEMMA EmptyTotal == \E total : IsTotal(total, <<>>) /\ total[Len(<<>>)] = 0
<1> DEFINE total == [i \in 0..0 |-> 0]
<1>1. total \in [0..Len(<<>>) -> Nat] /\ total[0] = 0
  OBVIOUS
<1>2. IsTotal(total, <<>>)
  BY <1>1 DEF IsTotal
<1>3. QED
  BY <1>1, <1>2

LEMMA SizeInvStep ==
  ASSUME TypeInv, LifecycleInv, SizeInv, [Next]_vars
  PROVE  SizeInv'
<1>1. CASE Keeps \/ Resolves
  BY <1>1 DEF Keeps, Resolves, SizeInv, IsTotal
<1>2. CASE Drains \/ Overflowing
  <2>1. buffer' = <<>> /\ bufferedBytes' = 0
    BY <1>2 DEF Drains, Overflowing, Emptied
  <2>2. Len(buffer') = 0 /\ 0 <= MaxBuffered /\ 0 <= MaxBytes
    BY <2>1 DEF PrettyAssumption
  <2>3. QED
    BY <2>1, <2>2, EmptyTotal DEF SizeInv
<1>3. CASE Holds
  <2>1. PICK bytes \in Sizes :
          /\ ~Overflows(bytes)
          /\ buffer' = Append(buffer, [entry |-> written + 1, bytes |-> bytes])
          /\ bufferedBytes' = bufferedBytes + bytes
    BY <1>3 DEF Holds
  <2>2. PICK total : IsTotal(total, buffer) /\ total[Len(buffer)] = bufferedBytes
    BY DEF SizeInv
  <2>3. /\ Len(buffer) \in Nat /\ DOMAIN buffer = 1..Len(buffer) /\ bufferedBytes \in Nat
        /\ bytes \in Nat
    BY HeldType DEF TypeInv, PrettyAssumption
  <2>4. /\ Len(buffer') = Len(buffer) + 1
        /\ \A i \in 1..Len(buffer) : buffer'[i] = buffer[i]
        /\ buffer'[Len(buffer) + 1].bytes = bytes
    <3> DEFINE new == [entry |-> written + 1, bytes |-> bytes]
    <3>1. buffer \in Seq(HeldEntry) /\ new \in HeldEntry /\ new.bytes = bytes
      BY DEF TypeInv, HeldEntry
    <3>2. buffer' = Append(buffer, new)
      BY <2>1
    <3> HIDE DEF new, HeldEntry
    <3>3. QED
      BY <3>1, <3>2
  <2> DEFINE n    == Len(buffer)
             more == [i \in 0..(n + 1) |-> IF i = n + 1 THEN bufferedBytes + bytes ELSE total[i]]
  <2>5. /\ more \in [0..(n + 1) -> Nat]
        /\ more[n + 1] = bufferedBytes + bytes
        /\ \A i \in 0..n : more[i] = total[i]
    BY <2>2, <2>3 DEF IsTotal
  <2> HIDE DEF more
  <2>6. \A i \in 1..(n + 1) : more[i] = more[i - 1] + buffer'[i].bytes
    <3>1. ASSUME NEW i \in 1..n
          PROVE  more[i] = more[i - 1] + buffer'[i].bytes
      <4>1. i \in 0..n /\ i - 1 \in 0..n
        BY <2>3
      <4>2. more[i] = total[i] /\ more[i - 1] = total[i - 1] /\ buffer'[i] = buffer[i]
        BY <2>4, <2>5, <4>1
      <4>3. total[i] = total[i - 1] + buffer[i].bytes
        BY <2>2 DEF IsTotal
      <4>4. QED
        BY <4>2, <4>3
    <3>2. more[n + 1] = more[(n + 1) - 1] + buffer'[n + 1].bytes
      BY <2>2, <2>3, <2>4, <2>5
    <3>3. QED
      BY <2>3, <3>1, <3>2
  <2>7. IsTotal(more, buffer')
    BY <2>2, <2>3, <2>4, <2>5, <2>6 DEF IsTotal
  <2>8. Len(buffer') <= MaxBuffered /\ bufferedBytes' <= MaxBytes
    BY <2>1, <2>3, <2>4 DEF Overflows, PrettyAssumption
  <2>9. QED
    BY <2>1, <2>4, <2>5, <2>7, <2>8 DEF SizeInv
<1>4. QED
  BY <1>1, <1>2, <1>3, StepKinds

LEMMA LeastIndex ==
  ASSUME NEW T, T \subseteq Nat, T # {}
  PROVE  \E i \in T : \A j \in T : i <= j
<1>1. PICK i \in T : \A j \in T : ~ (<<j, i>> \in OpToRel(<, Nat))
  BY NatLessThanWellFounded, WFMin
<1>2. ASSUME NEW j \in T
      PROVE  i <= j
  <2>1. ~ (j < i)
    BY <1>1 DEF OpToRel
  <2>2. QED
    BY <2>1
<1>3. QED
  BY <1>2

\* There is one function of running totals, and HeldBytes is its last value.
LEMMA HeldBytesIsTotal ==
  ASSUME TypeInv, NEW total, IsTotal(total, buffer)
  PROVE  HeldBytes = total[Len(buffer)]
<1> DEFINE n       == Len(buffer)
           Sum(f)  == [i \in 0..n |-> IF i = 0 THEN 0 ELSE f[i - 1] + buffer[i].bytes]
           chosen  == CHOOSE f : f = Sum(f)
<1>1. n \in Nat
  BY HeldType
<1>2. total = Sum(total)
  BY <1>1 DEF IsTotal
<1>3. chosen = Sum(chosen)
  BY <1>2
<1>4. HeldBytes = chosen[n]
  BY DEF HeldBytes
<1> HIDE DEF chosen
<1>5. \A i \in 0..n : chosen[i] = IF i = 0 THEN 0 ELSE chosen[i - 1] + buffer[i].bytes
  BY <1>3
<1> DEFINE T == {i \in 0..n : chosen[i] # total[i]}
<1>6. ASSUME T # {} PROVE FALSE
  <2>0. T \subseteq Nat
    BY <1>1
  <2>1. PICK i \in T : \A j \in T : i <= j
    <3> HIDE DEF T
    <3>1. QED
      BY <1>6, <2>0, LeastIndex
  <2>2. i # 0
    BY <1>1, <1>5, <2>1 DEF IsTotal
  <2>3. i - 1 \in 0..n /\ i - 1 \notin T
    BY <1>1, <2>1, <2>2
  <2>4. chosen[i] = chosen[i - 1] + buffer[i].bytes
    BY <1>1, <1>5, <2>1, <2>2
  <2>5. i \in 1..n
    BY <1>1, <2>1, <2>2
  <2>6. total[i] = total[i - 1] + buffer[i].bytes
    BY <2>5 DEF IsTotal
  <2>7. chosen[i - 1] = total[i - 1]
    BY <2>3
  <2>8. QED
    BY <2>1, <2>4, <2>6, <2>7
<1>7. QED
  BY <1>1, <1>4, <1>6

-----------------------------------------------------------------------------
(***************************************************************************)
(* What becomes of each entry.                                             *)
(***************************************************************************)

In(e, s) == \E i \in DOMAIN s : s[i].entry = e

AccountInv == \A e : e \in 1..written <=> In(e, buffer) \/ In(e, resolved)

\* What is dropped came after a failed initialization or to an ended transform.
Unwelcoming == initFailed \/ stream = "ended"
DropInv     == \A i \in DOMAIN resolved : resolved[i].as = "dropped" => Unwelcoming

\* Draining moves every held entry to the history.
LEMMA DrainIn ==
  ASSUME TypeInv, NEW how \in [DOMAIN buffer -> Outcomes], NEW e
  PROVE  In(e, Drain(how)) <=> In(e, buffer) \/ In(e, resolved)
<1>1. /\ Len(resolved) \in Nat /\ DOMAIN resolved = 1..Len(resolved)
      /\ Len(buffer) \in Nat /\ DOMAIN buffer = 1..Len(buffer)
  BY DEF TypeInv
<1>2. DOMAIN Drain(how) = 1..(Len(resolved) + Len(buffer))
  <2> HIDE DEF Resolution
  <2>1. Drain(how) \in Seq(Resolution) /\ Len(Drain(how)) = Len(resolved) + Len(buffer)
    BY DrainElements
  <2>2. QED
    BY <2>1
<1>3. \A i \in DOMAIN resolved : i \in DOMAIN Drain(how) /\ Drain(how)[i] = resolved[i]
  BY <1>1, <1>2, DrainElements
<1>4. ASSUME NEW j \in DOMAIN buffer
      PROVE  \E i \in DOMAIN Drain(how) : Drain(how)[i].entry = buffer[j].entry
  <2>1. Len(resolved) + j \in DOMAIN Drain(how)
    BY <1>1, <1>2
  <2>2. Drain(how)[Len(resolved) + j] = As(how[j], buffer[j].entry)
    BY <1>1, DrainElements
  <2>3. QED
    BY <2>1, <2>2 DEF As
<1>5. QED
  BY <1>3, <1>4, DrainAt DEF In

LEMMA AppendIn ==
  ASSUME NEW S, NEW s \in Seq(S), NEW x \in S, NEW e
  PROVE  In(e, Append(s, x)) <=> In(e, s) \/ e = x.entry
<1> DEFINE r == Append(s, x)
<1>1. /\ DOMAIN r = 1..(Len(s) + 1) /\ DOMAIN s = 1..Len(s) /\ Len(s) \in Nat
      /\ \A i \in 1..Len(s) : r[i] = s[i]
      /\ r[Len(s) + 1] = x
  OBVIOUS
<1> HIDE DEF r
<1>2. In(e, r) <=> In(e, s) \/ e = x.entry
  <2>1. In(e, s) => In(e, r)
    BY <1>1 DEF In
  <2>2. Len(s) + 1 \in DOMAIN r /\ r[Len(s) + 1] = x
    BY <1>1
  <2>3. \A i \in DOMAIN r : (i \in DOMAIN s /\ r[i] = s[i]) \/ r[i] = x
    BY <1>1
  <2>4. QED
    BY <2>1, <2>2, <2>3 DEF In
<1>3. QED
  BY <1>2 DEF r

LEMMA AccountInvInit == Init => SizeInv /\ AccountInv /\ DropInv
<1>1. SUFFICES ASSUME Init PROVE SizeInv /\ AccountInv /\ DropInv
  OBVIOUS
<1>2. buffer = <<>> /\ resolved = <<>> /\ written = 0 /\ bufferedBytes = 0
  BY <1>1 DEF Init, PrettyInit
<1>3. SizeInv
  <2>1. Len(buffer) = 0 /\ 0 <= MaxBuffered /\ 0 <= MaxBytes
    BY <1>2 DEF PrettyAssumption
  <2>2. QED
    BY <1>2, <2>1, EmptyTotal DEF SizeInv
<1>4. \A e : e \notin 1..written
  BY <1>2
<1>5. QED
  BY <1>2, <1>3, <1>4 DEF AccountInv, DropInv, In

LEMMA AccountInvStep ==
  ASSUME TypeInv, LifecycleInv, AccountInv, [Next]_vars
  PROVE  AccountInv'
<1>1. /\ written \in Nat /\ written + 1 \in Nat
      /\ resolved \in Seq(Resolution) /\ buffer \in Seq(HeldEntry)
  BY DEF TypeInv
<1>2. \A e : e \in 1..(written + 1) <=> e \in 1..written \/ e = written + 1
  BY <1>1
<1>3. CASE Keeps
  BY <1>3 DEF Keeps, AccountInv
<1>4. CASE Drains
  <2>1. PICK how \in [DOMAIN buffer -> Outcomes] : resolved' = Drain(how)
    BY <1>4 DEF Drains
  <2>2. buffer' = <<>> /\ written' = written
    BY <1>4 DEF Drains, Emptied
  <2>3. \A e : In(e, resolved') <=> In(e, buffer) \/ In(e, resolved)
    BY <2>1, DrainIn
  <2>4. \A e : ~In(e, buffer')
    BY <2>2 DEF In
  <2>5. QED
    BY <2>2, <2>3, <2>4 DEF AccountInv
<1>5. CASE Resolves
  <2>1. PICK how \in Outcomes : resolved' = Append(resolved, As(how, written + 1))
    BY <1>5 DEF Resolves
  <2>2. buffer' = buffer /\ written' = written + 1
    BY <1>5 DEF Resolves
  <2>3. As(how, written + 1) \in Resolution /\ As(how, written + 1).entry = written + 1
    BY <1>1, ResolutionType
  <2>4. ASSUME NEW e
        PROVE  In(e, resolved') <=> In(e, resolved) \/ e = written + 1
    <3> HIDE DEF Resolution
    <3>1. QED
      BY <1>1, <2>1, <2>3, AppendIn
  <2>5. QED
    BY <1>2, <2>2, <2>4 DEF AccountInv
<1>6. CASE Overflowing
  <2>1. PICK how \in [DOMAIN buffer -> Outcomes] :
          resolved' = Append(Drain(how), As("raw", written + 1))
    BY <1>6 DEF Overflowing
  <2>2. buffer' = <<>> /\ written' = written + 1
    BY <1>6 DEF Overflowing, Emptied
  <2>3. As("raw", written + 1) \in Resolution /\ As("raw", written + 1).entry = written + 1
    BY <1>1, ResolutionType DEF Outcomes
  <2>4. Drain(how) \in Seq(Resolution)
    BY DrainElements
  <2>5. ASSUME NEW e
        PROVE  In(e, resolved') <=> In(e, Drain(how)) \/ e = written + 1
    <3> HIDE DEF Resolution
    <3>1. QED
      BY <2>1, <2>3, <2>4, AppendIn
  <2>6. \A e : In(e, Drain(how)) <=> In(e, buffer) \/ In(e, resolved)
    BY DrainIn
  <2>7. \A e : ~In(e, buffer')
    BY <2>2 DEF In
  <2>8. QED
    BY <1>2, <2>2, <2>5, <2>6, <2>7 DEF AccountInv
<1>7. CASE Holds
  <2>1. PICK bytes \in Sizes :
          buffer' = Append(buffer, [entry |-> written + 1, bytes |-> bytes])
    BY <1>7 DEF Holds
  <2>2. resolved' = resolved /\ written' = written + 1
    BY <1>7 DEF Holds
  <2> DEFINE new == [entry |-> written + 1, bytes |-> bytes]
  <2>3. new \in HeldEntry /\ new.entry = written + 1
    BY <1>1 DEF HeldEntry
  <2>4. ASSUME NEW e
        PROVE  In(e, buffer') <=> In(e, buffer) \/ e = written + 1
    <3>1. buffer' = Append(buffer, new)
      BY <2>1
    <3> HIDE DEF new, HeldEntry
    <3>2. QED
      BY <1>1, <2>3, <3>1, AppendIn
  <2>5. QED
    BY <1>2, <2>2, <2>4 DEF AccountInv
<1>8. QED
  BY <1>3, <1>4, <1>5, <1>6, <1>7, StepKinds

\* A destination that dropped an entry goes on dropping.
LEMMA UnwelcomingStays ==
  ASSUME TypeInv, LifecycleInv, Unwelcoming, [Next]_vars
  PROVE  Unwelcoming'
<1>1. CASE UNCHANGED vars \/ Closed \/ CallOnInit
  BY <1>1 DEF vars, prettyVars, Closed, CallOnInit, Unwelcoming
<1>2. CASE CallOnInitRefused \/ ImportFails \/ ImportResolves
  BY <1>2 DEF CallOnInitRefused, ImportFails, InitFails, ImportResolves, InitSucceeds,
     LifecycleInv, Unwelcoming
<1>3. CASE CallOnRegistryReady \/ CallOnShutdown
  BY <1>3 DEF CallOnRegistryReady, OnRegistryReady, CallOnShutdown, OnShutdown,
     ShutdownBeforeInit, ShutdownStream, Unwelcoming
<1>4. CASE CallWrite
  BY <1>4 DEF CallWrite, WriteEntry, WriteToStream, WriteWhenFailed, WriteWhenOverflowed,
     WriteOverflows, WriteHolds, Unwelcoming
<1>5. QED
  BY <1>1, <1>2, <1>3, <1>4 DEF Next

\* A history that grows by one resolution, dropped only where it may be.
LEMMA AppendDropped ==
  ASSUME NEW h \in Seq(Resolution), NEW x \in Resolution, NEW may,
         \A i \in DOMAIN h : h[i].as = "dropped" => may,
         x.as = "dropped" => may,
         NEW i \in DOMAIN Append(h, x), Append(h, x)[i].as = "dropped"
  PROVE  may
<1>1. DOMAIN Append(h, x) = 1..(Len(h) + 1) /\ DOMAIN h = 1..Len(h) /\ Len(h) \in Nat
  <2> HIDE DEF Resolution
  <2>1. QED
    OBVIOUS
<1>2. CASE i \in 1..Len(h)
  BY <1>1, <1>2, AppendResolution
<1>3. CASE i = Len(h) + 1
  BY <1>1, <1>3, AppendResolution
<1>4. QED
  BY <1>1, <1>2, <1>3

\* Draining drops nothing.
LEMMA DrainDropped ==
  ASSUME TypeInv, NEW how \in [DOMAIN buffer -> Outcomes \ {"dropped"}],
         NEW i \in DOMAIN Drain(how), Drain(how)[i].as = "dropped"
  PROVE  i \in DOMAIN resolved /\ resolved[i].as = "dropped"
<1>1. /\ Len(resolved) \in Nat /\ DOMAIN resolved = 1..Len(resolved)
      /\ Len(buffer) \in Nat /\ DOMAIN buffer = 1..Len(buffer)
  BY DEF TypeInv
<1>2. how \in [DOMAIN buffer -> Outcomes]
  OBVIOUS
<1>3. CASE i \in DOMAIN resolved /\ Drain(how)[i] = resolved[i]
  BY <1>3
<1>4. ASSUME NEW j \in DOMAIN buffer, i = Len(resolved) + j
      PROVE  FALSE
  <2>1. Drain(how)[i] = As(how[j], buffer[j].entry)
    BY <1>1, <1>2, <1>4, DrainElements
  <2>2. how[j] # "dropped"
    OBVIOUS
  <2>3. QED
    BY <2>1, <2>2 DEF As
<1>5. QED
  BY <1>2, <1>3, <1>4, DrainAt

LEMMA DropInvStep ==
  ASSUME TypeInv, LifecycleInv, DropInv, [Next]_vars
  PROVE  DropInv'
<1>1. /\ written + 1 \in Nat /\ resolved \in Seq(Resolution)
      /\ Unwelcoming => Unwelcoming'
  BY UnwelcomingStays DEF TypeInv
<1>2. \A i \in DOMAIN resolved : resolved[i].as = "dropped" => Unwelcoming'
  BY <1>1 DEF DropInv
<1>3. CASE Keeps \/ Holds
  BY <1>2, <1>3 DEF Keeps, Holds, DropInv
<1>4. CASE Drains
  <2>1. PICK how \in [DOMAIN buffer -> Outcomes \ {"dropped"}] : resolved' = Drain(how)
    BY <1>4 DEF Drains
  <2>2. QED
    BY <1>2, <2>1, DrainDropped DEF DropInv
<1>5. CASE Resolves
  <2>1. PICK how \in Outcomes : /\ resolved' = Append(resolved, As(how, written + 1))
                                /\ how = "dropped" => Unwelcoming
    BY <1>5 DEF Resolves, Unwelcoming
  <2>2. As(how, written + 1) \in Resolution /\ As(how, written + 1).as = how
    BY <1>1, ResolutionType
  <2>3. QED
    BY <1>1, <1>2, <2>1, <2>2, AppendDropped DEF DropInv
<1>6. CASE Overflowing
  <2>1. PICK how \in [DOMAIN buffer -> Outcomes \ {"dropped"}] :
          resolved' = Append(Drain(how), As("raw", written + 1))
    BY <1>6 DEF Overflowing
  <2>2. As("raw", written + 1) \in Resolution /\ As("raw", written + 1).as # "dropped"
    BY <1>1, ResolutionType DEF Outcomes
  <2>3. Drain(how) \in Seq(Resolution)
    BY DrainElements
  <2>4. \A i \in DOMAIN Drain(how) : Drain(how)[i].as = "dropped" => Unwelcoming'
    BY <1>2, DrainDropped
  <2>5. QED
    BY <2>1, <2>2, <2>3, <2>4, AppendDropped DEF DropInv
<1>7. QED
  BY <1>3, <1>4, <1>5, <1>6, StepKinds

-----------------------------------------------------------------------------

Inv == TypeInv /\ LifecycleInv /\ OrderInv /\ SizeInv /\ AccountInv /\ DropInv

LEMMA InvHolds == Spec => []Inv
<1>1. Init => Inv
  BY TypeInvInit, OrderInvInit, AccountInvInit DEF Inv
<1>2. Inv /\ [Next]_vars => Inv'
  BY TypeInvStep, LifecycleInvStep, OrderInvStep, SizeInvStep, AccountInvStep, DropInvStep
     DEF Inv
<1>3. QED
  BY <1>1, <1>2, PTL DEF Spec

\* Whatever mix of replay, overflow, drain and direct writes shows them, entries
\* are shown in the order they were written, for every limit and every caller.
THEOREM EntriesAreShownInOrder == Spec => []ShownInOrder
<1>1. Inv => ShownInOrder
  BY DEF Inv, OrderInv, ShownAscending, ShownInOrder
<1>2. QED
  BY <1>1, InvHolds, PTL

\* The buffer respects both limits, the byte count is the size of what is held,
\* and every entry written is held or was resolved, dropped only after a failed
\* initialization or the end of the transform.
THEOREM NothingHeldIsLost == Spec => []BufferIsExact
<1>1. ASSUME Inv
      PROVE  BufferIsBounded
  <2>1. PICK total : IsTotal(total, buffer) /\ total[Len(buffer)] = bufferedBytes
    BY <1>1 DEF Inv, SizeInv
  <2>2. bufferedBytes = HeldBytes
    BY <1>1, <2>1, HeldBytesIsTotal DEF Inv
  <2>3. QED
    BY <1>1, <2>2 DEF Inv, SizeInv, BufferIsBounded
<1>2. ASSUME Inv
      PROVE  EveryWriteIsAccountedFor
  <2>1. ASSUME NEW i \in DOMAIN resolved
        PROVE  resolved[i] \in Resolution
    <3> HIDE DEF Resolution
    <3>1. QED
      BY <1>2 DEF Inv, TypeInv
  <2>2. \A i \in DOMAIN resolved : resolved[i].as \in Outcomes
    BY <2>1 DEF Resolution
  <2>3. \A e : e \in Entries(Outcomes) <=> In(e, resolved)
    BY <2>2 DEF Entries, In
  <2>4. \A e : e \in Held <=> In(e, buffer)
    BY DEF Held, In
  <2>5. Held \cup Entries(Outcomes) = 1..written
    BY <1>2, <2>3, <2>4 DEF Inv, AccountInv
  <2>6. Entries({"dropped"}) # {} => Unwelcoming
    BY <1>2 DEF Inv, DropInv, Entries
  <2>7. QED
    BY <2>5, <2>6 DEF EveryWriteIsAccountedFor, Unwelcoming
<1>3. QED
  BY <1>1, <1>2, InvHolds, PTL DEF BufferIsExact
=============================================================================
