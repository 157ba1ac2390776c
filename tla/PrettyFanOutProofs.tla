-------------------------- MODULE PrettyFanOutProofs --------------------------
(***************************************************************************)
(* Proofs about the pretty sink in the fan-out, for any number of other    *)
(* destinations, any of their behaviours and any buffer limit.             *)
(***************************************************************************)
EXTENDS PrettyFanOut, DestinationFanOutProofs

USE HealthAssumption, FanOutAssumption, PrettyFanOutAssumption

-----------------------------------------------------------------------------
(***************************************************************************)
(* The composition adds no behaviour to the fan-out.                       *)
(***************************************************************************)

LEMMA StepIsFanOutStep ==
  ASSUME [PrettyFanOutNext]_fanOutVars
  PROVE  [Next]_vars
<1>1. CASE UNCHANGED fanOutVars
  BY <1>1 DEF fanOutVars
<1>2. CASE PrettyStep
  BY <1>2 DEF PrettyStep, PrettyOnInit, PrettyOnInitBuilds, PrettyOnInitRejects,
     PrettyOnRegistryReady, PrettyOnShutdown, Next, InitLoop, ReadyLoop, ShutdownLoop
<1>3. CASE PrettyChunk
  <2>1. PICK e \in Entries : PrettyWrite(e) \/ PrettyWriteThrows(e) \/ PrettyPassedOver(e)
    BY <1>3 DEF PrettyChunk
  <2>2. Chunk(PrettyDest, e)
    BY <2>1 DEF PrettyWrite, PrettyWriteThrows, PrettyPassedOver, Chunk
  <2>3. QED
    BY <2>2 DEF Next, Streams
<1>4. CASE OtherStreams
  BY <1>4 DEF OtherStreams, Next, Streams
<1>5. ASSUME NEW level \in AppLevels, PrettyLog(level)
      PROVE  [Next]_vars
  BY <1>5 DEF PrettyLog, Next
<1>6. CASE OtherInit \/ OtherReady \/ OtherShutdown
  BY <1>6 DEF OtherInit, OtherReady, OtherShutdown, Next
<1>7. QED
  BY <1>1, <1>2, <1>3, <1>4, <1>5, <1>6 DEF PrettyFanOutNext

\* Every behaviour of the composition is a behaviour of the fan-out: what is
\* proved of DestinationFanOut holds with a pretty sink in it.
THEOREM PrettyImplementsFanOut == PrettyFanOutSpec => Spec
<1>1. PrettyFanOutInit => Init
  BY DEF PrettyFanOutInit
<1>2. [PrettyFanOutNext]_fanOutVars => [Next]_vars
  BY StepIsFanOutStep
<1>3. QED
  BY <1>1, <1>2, PTL DEF PrettyFanOutSpec, Spec

-----------------------------------------------------------------------------
(***************************************************************************)
(* What the sink holds and discards.                                       *)
(***************************************************************************)

HeldEntry == [entry : Nat, bytes : {1}]
Resolution == [entry : Nat, as : Pretty!Outcomes]

BufferType ==
  /\ buffer \in Seq(HeldEntry)
  /\ resolved \in Seq(Resolution)

\* Held and discarded, index by index.
HeldInv ==
  \A i \in DOMAIN buffer :
    buffer[i].entry \in Entries /\ fate[PrettyDest][buffer[i].entry] = "accepted"

Elsewhere(e) == e \in Entries /\ \E d \in Healthy \ {PrettyDest} : fate[d][e] = "accepted"

\* The same after a step, of an entry known before it.
ElsewhereNext(e) ==
  e \in Entries' /\ \E d \in Healthy' \ {PrettyDest} : fate'[d][e] = "accepted"

DiscardInv ==
  \A i \in DOMAIN resolved : resolved[i].as = "discarded" => Elsewhere(resolved[i].entry)

\* What a step may do to the buffer and the history.
BufferKept    == UNCHANGED <<buffer, resolved>>
BufferFlushed(outcome) ==
  /\ buffer' = <<>>
  /\ resolved' = resolved \o [i \in DOMAIN buffer |-> [entry |-> buffer[i].entry, as |-> outcome]]
BufferReplayed ==
  /\ buffer' = <<>>
  /\ \E replay \in [DOMAIN buffer -> {"rendered", "raw"}] :
       resolved' = resolved \o [i \in DOMAIN buffer |-> [entry |-> buffer[i].entry, as |-> replay[i]]]

\* The effect of a write on the buffer and the history, by the state of the sink.
LEMMA WriteEffect ==
  ASSUME NEW e \in Entries, Pretty!WriteEntry(e, 1)
  PROVE  \/ /\ buffer' = buffer
            /\ \E as \in {"rendered", "raw", "dropped"} :
                 resolved' = Append(resolved, [entry |-> e, as |-> as])
         \/ /\ buffer' = <<>>
            /\ resolved' = Append(resolved \o [i \in DOMAIN buffer |->
                             [entry |-> buffer[i].entry, as |-> "raw"]],
                             [entry |-> e, as |-> "raw"])
         \/ /\ buffer' = Append(buffer, [entry |-> e, bytes |-> 1])
            /\ resolved' = resolved
            /\ stream = "none" /\ ~initFailed
<1>1. CASE Pretty!WriteToStream(e) \/ Pretty!WriteWhenFailed(e) \/ Pretty!WriteWhenOverflowed(e)
  BY <1>1 DEF Pretty!WriteToStream, Pretty!WriteWhenFailed, Pretty!WriteWhenOverflowed, Pretty!As
<1>2. CASE Pretty!WriteOverflows(e, 1)
  BY <1>2 DEF Pretty!WriteOverflows, Pretty!EmptyBuffer, Pretty!Flushed, Pretty!As
<1>3. CASE Pretty!WriteHolds(e, 1)
  BY <1>3 DEF Pretty!WriteHolds
<1>4. QED
  BY <1>1, <1>2, <1>3 DEF Pretty!WriteEntry

\* Every step keeps the buffer, replays it, flushes it, or writes one entry.
LEMMA SinkSteps ==
  ASSUME [PrettyFanOutNext]_fanOutVars
  PROVE  \/ BufferKept
         \/ BufferReplayed
         \/ BufferFlushed("raw")
         \/ /\ BufferFlushed("discarded")
            /\ Quiet
            /\ DeliveredByHealthySink(PrettyDest, EffectiveLevel(PrettyDest))
            /\ UNCHANGED <<fate, emitted, healthVars>>
         \/ \E e \in Entries : PrettyWrite(e)
<1>1. CASE UNCHANGED fanOutVars
  BY <1>1 DEF fanOutVars, prettyVars, BufferKept
<1>2. CASE PrettyOnInit
  BY <1>2 DEF PrettyOnInit, Pretty!InitFails, prettyVars, BufferKept
<1>3. CASE PrettyOnInitBuilds
  BY <1>3 DEF PrettyOnInitBuilds, Pretty!InitSucceeds, Pretty!EmptyBuffer, Pretty!As,
     Pretty!Shown, BufferReplayed
<1>4. CASE PrettyOnInitRejects
  BY <1>4 DEF PrettyOnInitRejects, Pretty!InitFails, prettyVars, BufferKept
<1>5. CASE PrettyOnRegistryReady
  <2>1. /\ RegistryReadyCalled
        /\ Pretty!OnRegistryReady(DeliveredByHealthySink(PrettyDest, EffectiveLevel(PrettyDest)))
    BY <1>5 DEF PrettyOnRegistryReady
  <2>2. Quiet /\ UNCHANGED <<fate, emitted, healthVars>>
    BY <2>1 DEF RegistryReadyCalled, streamVars
  <2>3. CASE DeliveredByHealthySink(PrettyDest, EffectiveLevel(PrettyDest))
    <3>1. BufferFlushed("discarded")
      BY <2>1, <2>3 DEF Pretty!OnRegistryReady, Pretty!FlushBuffer, Pretty!EmptyBuffer,
         Pretty!Flushed, Pretty!As, BufferFlushed
    <3>2. QED
      BY <2>2, <2>3, <3>1
  <2>4. CASE ~DeliveredByHealthySink(PrettyDest, EffectiveLevel(PrettyDest))
    BY <2>1, <2>4 DEF Pretty!OnRegistryReady, Pretty!FlushBuffer, Pretty!EmptyBuffer,
       Pretty!Flushed, Pretty!As, BufferFlushed
  <2>5. QED
    BY <2>3, <2>4
<1>6. CASE PrettyOnShutdown
  BY <1>6 DEF PrettyOnShutdown, Pretty!OnShutdown, Pretty!ShutdownBeforeInit,
     Pretty!ShutdownStream, Pretty!FlushBuffer, Pretty!EmptyBuffer, Pretty!Flushed,
     Pretty!As, BufferFlushed, BufferKept
<1>7. CASE PrettyChunk
  BY <1>7 DEF PrettyChunk, PrettyWriteThrows, PrettyPassedOver, prettyVars, BufferKept
<1>8. ASSUME NEW level \in AppLevels, PrettyLog(level)
      PROVE  BufferKept
  BY <1>8 DEF PrettyLog, prettyVars, BufferKept
<1>9. CASE OtherStreams \/ OtherInit \/ OtherReady \/ OtherShutdown
  BY <1>9 DEF OtherStreams, OtherInit, OtherReady, OtherShutdown, prettyVars, BufferKept
<1>10. QED
  BY <1>1, <1>2, <1>3, <1>4, <1>5, <1>6, <1>7, <1>8, <1>9 DEF PrettyFanOutNext, PrettyStep

-----------------------------------------------------------------------------
(***************************************************************************)
(* Sequences.                                                              *)
(***************************************************************************)

\* Resolving what is held keeps the history's type and adds only what is held.
LEMMA FlushType ==
  ASSUME BufferType, NEW as \in [DOMAIN buffer -> Pretty!Outcomes]
  PROVE  [i \in DOMAIN buffer |-> [entry |-> buffer[i].entry, as |-> as[i]]] \in Seq(Resolution)
<1>1. buffer \in Seq(HeldEntry)
  BY DEF BufferType
<1>2. ASSUME NEW i \in DOMAIN buffer
      PROVE  [entry |-> buffer[i].entry, as |-> as[i]] \in Resolution
  <2>1. buffer[i] \in HeldEntry
    <3> HIDE DEF HeldEntry
    <3>1. QED
      BY <1>1
  <2>2. QED
    BY <2>1 DEF HeldEntry, Resolution
<1>3. DOMAIN buffer = 1..Len(buffer) /\ Len(buffer) \in Nat
  BY <1>1
<1> DEFINE flushed == [i \in DOMAIN buffer |-> [entry |-> buffer[i].entry, as |-> as[i]]]
<1>4. flushed \in [1..Len(buffer) -> Resolution]
  <2> HIDE DEF Resolution
  <2>1. QED
    BY <1>2, <1>3
<1>5. QED
  <2> HIDE DEF flushed, Resolution
  <2>1. flushed \in Seq(Resolution)
    BY <1>3, <1>4
  <2>2. QED
    BY <2>1 DEF flushed

LEMMA ConcatElements ==
  ASSUME NEW S, NEW s \in Seq(S), NEW t \in Seq(S)
  PROVE  /\ s \o t \in Seq(S)
         /\ \A i \in DOMAIN (s \o t) :
              \/ i \in DOMAIN s /\ (s \o t)[i] = s[i]
              \/ \E j \in DOMAIN t : (s \o t)[i] = t[j]
<1>1. s \o t \in Seq(S) /\ Len(s \o t) = Len(s) + Len(t)
  OBVIOUS
<1>2. ASSUME NEW i \in 1..(Len(s) + Len(t)), i > Len(s)
      PROVE  \E j \in DOMAIN t : (s \o t)[i] = t[j]
  <2>1. i - Len(s) \in DOMAIN t /\ (s \o t)[i] = t[i - Len(s)]
    BY <1>2
  <2>2. QED
    BY <2>1
<1>3. QED
  BY <1>1, <1>2

LEMMA AppendElements ==
  ASSUME NEW S, NEW s \in Seq(S), NEW x \in S
  PROVE  /\ Append(s, x) \in Seq(S)
         /\ \A i \in DOMAIN Append(s, x) :
              \/ i \in DOMAIN s /\ Append(s, x)[i] = s[i]
              \/ Append(s, x)[i] = x
  OBVIOUS

-----------------------------------------------------------------------------
(***************************************************************************)
(* The sink's invariant.                                                   *)
(***************************************************************************)

SinkInv == BufferType /\ HeldInv /\ DiscardInv

LEMMA SinkInvInit == PrettyFanOutInit => SinkInv
  BY DEF PrettyFanOutInit, Pretty!PrettyInit, SinkInv, BufferType, HeldInv, DiscardInv

\* What another live sink accepted stays so.
LEMMA ElsewhereStays ==
  ASSUME TypeOK, HealthInv, [Next]_vars, NEW e, Elsewhere(e)
  PROVE  ElsewhereNext(e)
<1>1. PICK d \in Healthy \ {PrettyDest} : fate[d][e] = "accepted"
  BY DEF Elsewhere
<1>2. e \in Entries /\ d \in Dest
  BY <1>1 DEF Elsewhere, Healthy
<1>3. e \in Entries' /\ fate'[d][e] = "accepted"
  BY <1>1, <1>2, AcceptedStays
<1>4. d \in Healthy'
  BY <1>1, HealthyGrows
<1>5. QED
  BY <1>1, <1>3, <1>4 DEF ElsewhereNext

\* Adding resolutions keeps the history's part of the invariant, if each entry
\* added as discarded is elsewhere.
LEMMA AddResolutions ==
  ASSUME BufferType, DiscardInv, TypeOK, HealthInv, [Next]_vars,
         NEW add \in Seq(Resolution), resolved' = resolved \o add,
         \A j \in DOMAIN add : add[j].as = "discarded" => ElsewhereNext(add[j].entry)
  PROVE  resolved' \in Seq(Resolution) /\ DiscardInv'
<1>1. resolved \in Seq(Resolution)
  BY DEF BufferType
<1>2. /\ resolved' \in Seq(Resolution)
      /\ \A i \in DOMAIN resolved' :
           \/ i \in DOMAIN resolved /\ resolved'[i] = resolved[i]
           \/ \E j \in DOMAIN add : resolved'[i] = add[j]
  <2> HIDE DEF Resolution
  <2>1. QED
    BY <1>1, ConcatElements
<1>3. ASSUME NEW i \in DOMAIN resolved', resolved'[i].as = "discarded"
      PROVE  ElsewhereNext(resolved'[i].entry)
  <2>1. CASE i \in DOMAIN resolved /\ resolved'[i] = resolved[i]
    <3>1. Elsewhere(resolved[i].entry)
      BY <1>3, <2>1 DEF DiscardInv
    <3>2. QED
      BY <2>1, <3>1, ElsewhereStays
  <2>2. CASE \E j \in DOMAIN add : resolved'[i] = add[j]
    BY <1>3, <2>2
  <2>3. QED
    BY <1>2, <1>3, <2>1, <2>2
<1>4. QED
  BY <1>2, <1>3 DEF DiscardInv, Elsewhere, ElsewhereNext

\* What the sink holds was accepted, and stays accepted.
LEMMA HeldStays ==
  ASSUME BufferType, HeldInv, TypeOK, [Next]_vars, NEW i \in DOMAIN buffer
  PROVE  buffer[i].entry \in Entries' /\ fate'[PrettyDest][buffer[i].entry] = "accepted"
  BY AcceptedStays DEF HeldInv

\* Flushing or replaying what is held.
LEMMA FlushStep ==
  ASSUME BufferType, HeldInv, DiscardInv, TypeOK, HealthInv, [Next]_vars,
         NEW as \in [DOMAIN buffer -> Pretty!Outcomes],
         buffer' = <<>>,
         resolved' = resolved \o [i \in DOMAIN buffer |->
                                    [entry |-> buffer[i].entry, as |-> as[i]]],
         \A i \in DOMAIN buffer : as[i] = "discarded" => ElsewhereNext(buffer[i].entry)
  PROVE  SinkInv'
<1> DEFINE add == [i \in DOMAIN buffer |-> [entry |-> buffer[i].entry, as |-> as[i]]]
<1>1. add \in Seq(Resolution)
  BY FlushType
<1>2. \A j \in DOMAIN add : add[j].as = "discarded" => ElsewhereNext(add[j].entry)
  OBVIOUS
<1>3. resolved' = resolved \o add
  OBVIOUS
<1>4. resolved' \in Seq(Resolution) /\ DiscardInv'
  <2> HIDE DEF add
  <2>1. QED
    BY <1>1, <1>2, <1>3, AddResolutions
<1>5. BufferType' /\ HeldInv'
  BY <1>4 DEF BufferType, HeldInv
<1>6. QED
  BY <1>4, <1>5 DEF SinkInv

\* One entry resolved without touching the buffer: shown, or dropped.
LEMMA ResolveStep ==
  ASSUME BufferType, DiscardInv, TypeOK, HealthInv, [Next]_vars,
         NEW before \in Seq(Resolution), NEW e \in Entries,
         NEW as \in {"rendered", "raw", "dropped"},
         \A i \in DOMAIN before : before[i].as = "discarded" => ElsewhereNext(before[i].entry),
         resolved' = Append(before, [entry |-> e, as |-> as])
  PROVE  resolved' \in Seq(Resolution) /\ DiscardInv'
<1> DEFINE new == [entry |-> e, as |-> as]
<1>0. e \in Nat
  BY EntriesAre
<1>1. new \in Resolution /\ new.as # "discarded"
  BY <1>0 DEF Resolution, Pretty!Outcomes
<1>2. /\ resolved' \in Seq(Resolution)
      /\ \A i \in DOMAIN resolved' :
           \/ i \in DOMAIN before /\ resolved'[i] = before[i]
           \/ resolved'[i] = new
  <2> HIDE DEF Resolution
  <2>1. QED
    BY <1>1, AppendElements
<1>3. \A i \in DOMAIN resolved' :
        resolved'[i].as = "discarded" => ElsewhereNext(resolved'[i].entry)
  <2> HIDE DEF new
  <2>1. QED
    BY <1>1, <1>2
<1>4. QED
  BY <1>2, <1>3 DEF DiscardInv, Elsewhere, ElsewhereNext

LEMMA HistoryStays ==
  ASSUME DiscardInv, TypeOK, HealthInv, [Next]_vars
  PROVE  \A i \in DOMAIN resolved :
           resolved[i].as = "discarded" => ElsewhereNext(resolved[i].entry)
  BY ElsewhereStays DEF DiscardInv

LEMMA WriteStep ==
  ASSUME SinkInv, TypeOK, HealthInv, [Next]_vars, NEW e \in Entries, PrettyWrite(e)
  PROVE  SinkInv'
<1>1. BufferType /\ HeldInv /\ DiscardInv
  BY DEF SinkInv
<1>2. /\ Entries' = Entries
      /\ fate'[PrettyDest][e] = "accepted"
  <2>1. Becomes(PrettyDest, e, "accepted") /\ "accepted" \in Fates /\ emitted' = emitted
    BY DEF PrettyWrite, WriteReturns, Fates, Settled
  <2>2. QED
    BY <2>1, BecomesType DEF Entries
<1>3. Pretty!WriteEntry(e, 1)
  BY DEF PrettyWrite
<1>4. CASE /\ buffer' = buffer
           /\ \E as \in {"rendered", "raw", "dropped"} :
                resolved' = Append(resolved, [entry |-> e, as |-> as])
  <2>1. resolved' \in Seq(Resolution) /\ DiscardInv'
    BY <1>1, <1>4, ResolveStep, HistoryStays DEF BufferType
  <2>2. HeldInv'
    BY <1>1, <1>4, HeldStays DEF HeldInv
  <2>3. QED
    BY <1>1, <1>4, <2>1, <2>2 DEF SinkInv, BufferType
<1>5. CASE /\ buffer' = <<>>
           /\ resolved' = Append(resolved \o [i \in DOMAIN buffer |->
                            [entry |-> buffer[i].entry, as |-> "raw"]],
                            [entry |-> e, as |-> "raw"])
  <2> DEFINE as == [i \in DOMAIN buffer |-> "raw"]
             add == [i \in DOMAIN buffer |-> [entry |-> buffer[i].entry, as |-> "raw"]]
             before == resolved \o add
  <2>1. as \in [DOMAIN buffer -> Pretty!Outcomes]
    BY DEF Pretty!Outcomes
  <2>2. add = [i \in DOMAIN buffer |-> [entry |-> buffer[i].entry, as |-> as[i]]]
    OBVIOUS
  <2>3. add \in Seq(Resolution)
    BY <1>1, <2>1, <2>2, FlushType
  <2>4. resolved \in Seq(Resolution)
    BY <1>1 DEF BufferType
  <2>5. \A j \in DOMAIN add : add[j].as # "discarded"
    OBVIOUS
  <2>6. /\ before \in Seq(Resolution)
        /\ \A i \in DOMAIN before :
             \/ i \in DOMAIN resolved /\ before[i] = resolved[i]
             \/ \E j \in DOMAIN add : before[i] = add[j]
    <3> HIDE DEF Resolution, add
    <3>1. QED
      BY <2>3, <2>4, ConcatElements
  <2>7. \A i \in DOMAIN before :
          before[i].as = "discarded" => ElsewhereNext(before[i].entry)
    <3> HIDE DEF add, before
    <3>1. QED
      BY <1>1, <2>5, <2>6, HistoryStays
  <2>8. resolved' = Append(before, [entry |-> e, as |-> "raw"])
    BY <1>5
  <2>9. resolved' \in Seq(Resolution) /\ DiscardInv'
    <3> HIDE DEF before
    <3>1. QED
      BY <1>1, <2>6, <2>7, <2>8, ResolveStep
  <2>10. QED
    BY <1>5, <2>9 DEF SinkInv, BufferType, HeldInv
<1>6. CASE /\ buffer' = Append(buffer, [entry |-> e, bytes |-> 1])
           /\ resolved' = resolved
  <2> DEFINE new == [entry |-> e, bytes |-> 1]
  <2>1. new \in HeldEntry
    BY EntriesAre DEF HeldEntry
  <2>2. /\ buffer' \in Seq(HeldEntry)
        /\ \A i \in DOMAIN buffer' :
             (i \in DOMAIN buffer /\ buffer'[i] = buffer[i]) \/ buffer'[i] = new
    <3>1. buffer \in Seq(HeldEntry) /\ buffer' = Append(buffer, new)
      BY <1>1, <1>6 DEF BufferType
    <3> HIDE DEF HeldEntry, new
    <3>2. QED
      BY <2>1, <3>1, AppendElements
  <2>3. HeldInv'
    BY <1>1, <1>2, <2>2, HeldStays DEF HeldInv
  <2>4. DiscardInv'
    BY <1>1, <1>6, HistoryStays DEF DiscardInv, Elsewhere, ElsewhereNext
  <2>5. QED
    BY <1>1, <1>6, <2>2, <2>3, <2>4 DEF SinkInv, BufferType
<1>7. QED
  BY <1>3, <1>4, <1>5, <1>6, WriteEffect

\* A flush or replay as one outcome per held entry.
LEMMA FlushedAs ==
  ASSUME SinkInv, TypeOK, HealthInv, [Next]_vars,
         NEW outcome \in Pretty!Outcomes, BufferFlushed(outcome),
         outcome = "discarded" =>
           \A i \in DOMAIN buffer : ElsewhereNext(buffer[i].entry)
  PROVE  SinkInv'
<1> DEFINE as == [i \in DOMAIN buffer |-> outcome]
<1>1. as \in [DOMAIN buffer -> Pretty!Outcomes]
  OBVIOUS
<1>2. \A i \in DOMAIN buffer : as[i] = "discarded" => ElsewhereNext(buffer[i].entry)
  OBVIOUS
<1>3. /\ buffer' = <<>>
      /\ resolved' = resolved \o [i \in DOMAIN buffer |->
                                    [entry |-> buffer[i].entry, as |-> as[i]]]
  BY DEF BufferFlushed
<1>4. QED
  <2> HIDE DEF as
  <2>1. QED
    BY <1>1, <1>2, <1>3, FlushStep DEF SinkInv

\* What readiness lets the sink discard, another live sink accepted.
LEMMA DiscardStep ==
  ASSUME SinkInv, DeliveryInv, [Next]_vars, Quiet,
         DeliveredByHealthySink(PrettyDest, EffectiveLevel(PrettyDest)),
         BufferFlushed("discarded")
  PROVE  SinkInv'
<1>1. TypeOK /\ HealthInv /\ FateInv /\ CountInv
  BY DEF DeliveryInv, LifecycleInv
<1>2. ASSUME NEW i \in DOMAIN buffer
      PROVE  ElsewhereNext(buffer[i].entry)
  <2>1. buffer[i].entry \in Entries /\ fate[PrettyDest][buffer[i].entry] = "accepted"
    BY DEF SinkInv, HeldInv
  <2>2. buffer[i].entry \in Offered(PrettyDest)
    BY <2>1 DEF Offered
  <2>3. Elsewhere(buffer[i].entry)
    BY <1>1, <2>1, <2>2, WitnessAccepted DEF Elsewhere
  <2>4. QED
    BY <1>1, <2>3, ElsewhereStays
<1>3. "discarded" \in Pretty!Outcomes
  BY DEF Pretty!Outcomes
<1>4. QED
  BY <1>1, <1>2, <1>3, FlushedAs

LEMMA SinkInvStep ==
  ASSUME SinkInv, DeliveryInv, [PrettyFanOutNext]_fanOutVars
  PROVE  SinkInv'
<1>1. [Next]_vars
  BY StepIsFanOutStep
<1>2. TypeOK /\ HealthInv
  BY DEF DeliveryInv, LifecycleInv
<1>3. BufferType /\ HeldInv /\ DiscardInv
  BY DEF SinkInv
<1>4. CASE BufferKept
  <2>1. HeldInv'
    BY <1>1, <1>2, <1>3, <1>4, HeldStays DEF HeldInv, BufferKept
  <2>2. DiscardInv'
    BY <1>1, <1>2, <1>3, <1>4, HistoryStays DEF DiscardInv, BufferKept, Elsewhere, ElsewhereNext
  <2>3. BufferType'
    BY <1>3, <1>4 DEF BufferType, BufferKept
  <2>4. QED
    BY <2>1, <2>2, <2>3 DEF SinkInv
<1>5. CASE BufferReplayed
  <2>1. PICK replay \in [DOMAIN buffer -> {"rendered", "raw"}] :
          resolved' = resolved \o [i \in DOMAIN buffer |->
                                     [entry |-> buffer[i].entry, as |-> replay[i]]]
    BY <1>5 DEF BufferReplayed
  <2>2. /\ replay \in [DOMAIN buffer -> Pretty!Outcomes]
        /\ \A i \in DOMAIN buffer : replay[i] # "discarded"
    BY DEF Pretty!Outcomes
  <2>3. buffer' = <<>>
    BY <1>5 DEF BufferReplayed
  <2>4. QED
    BY <1>1, <1>2, <1>3, <2>1, <2>2, <2>3, FlushStep
<1>6. CASE BufferFlushed("raw")
  <2>1. "raw" \in Pretty!Outcomes
    BY DEF Pretty!Outcomes
  <2>2. QED
    BY <1>1, <1>2, <1>6, <2>1, FlushedAs
<1>7. CASE /\ BufferFlushed("discarded")
           /\ Quiet
           /\ DeliveredByHealthySink(PrettyDest, EffectiveLevel(PrettyDest))
  BY <1>1, <1>7, DiscardStep
<1>8. ASSUME NEW e \in Entries, PrettyWrite(e)
      PROVE  SinkInv'
  BY <1>1, <1>2, <1>8, WriteStep
<1>9. QED
  BY <1>4, <1>5, <1>6, <1>7, <1>8, SinkSteps

-----------------------------------------------------------------------------
(***************************************************************************)
(* How far the sink's own initialization is.                               *)
(***************************************************************************)

\* The sink's onInit was not called, or has not decided.
Undecided ==
  \/ pc = "building"
  \/ pc \in {"init", "initWait", "initOk", "initBad"} /\ idx < PrettyDest
  \/ pc = "init" /\ idx = PrettyDest
  \/ pc = "initWait" /\ idx = PrettyDest /\ ~Production

\* Until onInit has decided there is neither a transform nor a failure, and then
\* one of the two; what the registry counts as live has a transform.
PhaseInv ==
  /\ stream \in {"none", "open", "ended"}
  /\ Undecided <=> stream = "none" /\ ~initFailed
  /\ initFailed => stream = "none"
  /\ PrettyDest \in Healthy => stream # "none"
  /\ pc = "initOk" /\ idx = PrettyDest => stream # "none"

LEMMA PhaseInvInit == PrettyFanOutInit => PhaseInv
  BY DEF PrettyFanOutInit, Pretty!PrettyInit, PhaseInv, Undecided, Init, HealthInit, Healthy

\* A step in which no method of the sink runs.
SinkUncalled ==
  \/ UNCHANGED fanOutVars
  \/ \E e \in Entries : PrettyWriteThrows(e) \/ PrettyPassedOver(e)
  \/ OtherStreams
  \/ \E level \in AppLevels : PrettyLog(level)
  \/ OtherInit \/ OtherReady \/ OtherShutdown

\* The init loop between the calls of the sink's onInit.
LEMMA OtherInitPhase ==
  ASSUME TypeOK, HealthInv, OtherInit
  PROVE  /\ Undecided' <=> Undecided
         /\ PrettyDest \in Healthy' => PrettyDest \in Healthy \/ (pc = "initOk" /\ idx = PrettyDest)
         /\ ~(pc' = "initOk" /\ idx' = PrettyDest)
         /\ pc \in Early
<1>1. /\ PrettyDest \in 1..N /\ N \in Nat
      /\ pc \in {"init", "initWait", "initOk", "initBad"} => idx \in 1..N
  BY Unresolved DEF Dest
<1>2. ~PrettyInitCalled /\ ~PrettyInitPending /\ InitLoop
  BY DEF OtherInit
<1> USE DEF Undecided, PrettyInitCalled, PrettyInitPending, Goto, Early
<1>3. CASE ModuleInit
  BY <1>1, <1>3 DEF ModuleInit, healthVars, Healthy
<1>4. CASE OnInitReturns \/ OnInitPends \/ OnInitSettles
  BY <1>1, <1>2, <1>4 DEF OnInitReturns, OnInitPends, OnInitSettles, healthVars, Healthy
<1>5. CASE OnInitThrows \/ InitFailed
  <2>1. /\ MarkFailedAndGoOn /\ pc \in {"init", "initBad"}
        /\ pc = "init" => idx # PrettyDest
    BY <1>2, <1>5 DEF OnInitThrows, InitFailed
  <2>2. NextDestination /\ healthy' = healthy
    BY <2>1 DEF MarkFailedAndGoOn
  <2>3. CASE idx < N
    BY <1>1, <2>1, <2>2, <2>3 DEF NextDestination, Healthy
  <2>4. CASE ~(idx < N)
    BY <1>1, <2>1, <2>2, <2>4 DEF NextDestination, Healthy
  <2>5. QED
    BY <2>3, <2>4
<1>6. CASE InitSucceeded
  <2>1. /\ pc = "initOk" /\ NextDestination
        /\ healthy' = [healthy EXCEPT ![idx] = EffectiveLevel(idx)]
    BY <1>6 DEF InitSucceeded, MarkHealthy
  <2>2. PrettyDest \in Healthy' => PrettyDest \in Healthy \/ idx = PrettyDest
    BY <1>1, <2>1 DEF Healthy, TypeOK, HealthTypeOK
  <2>3. CASE idx < N
    BY <1>1, <2>1, <2>2, <2>3 DEF NextDestination
  <2>4. CASE ~(idx < N)
    BY <1>1, <2>1, <2>2, <2>4 DEF NextDestination
  <2>5. QED
    BY <2>3, <2>4
<1>7. QED
  BY <1>2, <1>3, <1>4, <1>5, <1>6 DEF InitLoop

LEMMA SinkUncalledPhase ==
  ASSUME TypeOK, HealthInv, PhaseInv, SinkUncalled
  PROVE  /\ UNCHANGED prettyVars
         /\ Undecided' <=> Undecided
         /\ PhaseInv'
         /\ pc \notin Early => pc' \notin Early /\ Healthy' = Healthy
<1>1. UNCHANGED prettyVars
  BY DEF SinkUncalled, fanOutVars, PrettyWriteThrows, PrettyPassedOver, OtherStreams,
         PrettyLog, OtherInit, OtherReady, OtherShutdown
<1>2. CASE UNCHANGED <<pc, idx, healthy>>
  BY <1>1, <1>2 DEF PhaseInv, Undecided, Healthy, prettyVars
<1>3. CASE OtherInit
  BY <1>1, <1>3, OtherInitPhase DEF PhaseInv, prettyVars
<1>4. CASE ReadyLoop \/ Shutdown \/ ShutdownLoop
  <2>1. UNCHANGED <<healthVars, active>> /\ pc \notin Early /\ pc' \notin Early
    BY <1>4, LaterFrame DEF Early
  <2>2. Healthy' = Healthy /\ ~Undecided /\ ~Undecided'
    BY <2>1 DEF Healthy, healthVars, Early, Undecided
  <2>3. QED
    BY <1>1, <2>1, <2>2 DEF PhaseInv, prettyVars, Early
<1>5. CASE UNCHANGED fanOutVars \/ Terminated
  BY <1>2, <1>5 DEF fanOutVars, vars, healthVars, registryVars, Terminated
<1>6. ASSUME NEW e \in Entries, PrettyWriteThrows(e) \/ PrettyPassedOver(e)
      PROVE  UNCHANGED <<pc, idx, healthy>>
  <2>1. Chunk(PrettyDest, e)
    BY <1>6 DEF PrettyWriteThrows, PrettyPassedOver, Chunk
  <2>2. QED
    BY <2>1, StreamFrame
<1>7. CASE OtherStreams
  BY <1>2, <1>7, StreamFrame DEF OtherStreams
<1>8. ASSUME NEW level \in AppLevels, PrettyLog(level)
      PROVE  UNCHANGED <<pc, idx, healthy>>
  BY <1>8 DEF PrettyLog, Log, healthVars, registryVars
<1>9. QED
  BY <1>2, <1>3, <1>4, <1>5, <1>6, <1>7, <1>8 DEF SinkUncalled, OtherReady, OtherShutdown

\* What the calls of the sink's hooks find, and leave.
LEMMA InitCallPhase ==
  ASSUME TypeOK, HealthInv, PhaseInv, PrettyOnInit \/ PrettyOnInitRejects \/ PrettyOnInitBuilds
  PROVE  /\ pc \in Early
         /\ PhaseInv'
         /\ ~Undecided => UNCHANGED prettyVars
<1>1. PrettyDest \notin Healthy /\ healthy' = healthy /\ pc \in Early
  BY Unresolved DEF PrettyOnInit, PrettyOnInitRejects, PrettyOnInitBuilds, PrettyInitCalled,
     PrettyInitPending, OnInitPends, OnInitSettles, healthVars, Early
<1>2. Healthy' = Healthy /\ ~(PrettyDest < PrettyDest)
  BY <1>1 DEF Healthy, Dest
<1>3. CASE PrettyOnInit
  BY <1>1, <1>2, <1>3 DEF PrettyOnInit, PrettyInitCalled, OnInitPends, Goto, PhaseInv, Undecided,
     Pretty!InitFails, prettyVars
<1>4. CASE PrettyOnInitRejects
  BY <1>1, <1>2, <1>4 DEF PrettyOnInitRejects, PrettyInitPending, OnInitSettles, Goto, PhaseInv,
     Undecided, Pretty!InitFails, prettyVars
<1>5. CASE PrettyOnInitBuilds
  BY <1>1, <1>2, <1>5 DEF PrettyOnInitBuilds, PrettyInitPending, OnInitSettles, Goto, PhaseInv,
     Undecided, Pretty!InitSucceeds
<1>6. QED
  BY <1>1, <1>3, <1>4, <1>5

LEMMA LaterCallPhase ==
  ASSUME TypeOK, HealthInv, PhaseInv, PrettyOnRegistryReady \/ PrettyOnShutdown
  PROVE  /\ pc \notin Early /\ pc' \notin Early
         /\ ~Undecided /\ ~Undecided'
         /\ UNCHANGED <<initFailed, bufferOverflowed>> /\ Healthy' = Healthy
         /\ PrettyOnRegistryReady => stream' = stream
         /\ PrettyOnShutdown => stream # "none" /\ ~initFailed /\ Pretty!ShutdownStream
         /\ PhaseInv'
<1>1. CASE PrettyOnRegistryReady
  <2>1. ReadyLoop /\ UNCHANGED <<stream, initFailed, bufferOverflowed>>
    BY <1>1 DEF PrettyOnRegistryReady, ReadyLoop, Pretty!OnRegistryReady
  <2>2. UNCHANGED healthVars /\ pc \notin Early /\ pc' \notin Early
    BY <2>1, LaterFrame DEF Early
  <2>3. Healthy' = Healthy /\ ~Undecided /\ ~Undecided'
    BY <2>2 DEF Healthy, healthVars, Early, Undecided
  <2>4. ~PrettyOnShutdown
    BY <1>1 DEF PrettyOnRegistryReady, PrettyOnShutdown, PrettyReadyCalled, PrettyShutCalled
  <2>5. QED
    BY <2>1, <2>2, <2>3, <2>4 DEF PhaseInv, Early
<1>2. CASE PrettyOnShutdown
  <2>1. ShutdownLoop /\ PrettyShutCalled /\ Pretty!OnShutdown
    BY <1>2 DEF PrettyOnShutdown, ShutdownLoop
  <2>2. UNCHANGED healthVars /\ pc \notin Early /\ pc' \notin Early
    BY <2>1, LaterFrame DEF Early
  <2>3. Healthy' = Healthy /\ ~Undecided /\ ~Undecided'
    BY <2>2 DEF Healthy, healthVars, Early, Undecided
  <2>4. PrettyDest \in Healthy
    <3>1. idx \in 1..Len(active) /\ active \in Seq(Dest) /\ active[idx] = PrettyDest
      BY <2>1 DEF PrettyShutCalled, HealthInv, IndexInv, TypeOK
    <3>2. QED
      BY <3>1 DEF HealthInv, ActiveMatchesHealth
  <2>5. stream # "none" /\ ~initFailed /\ Pretty!ShutdownStream
    BY <2>1, <2>4 DEF PhaseInv, Pretty!OnShutdown, Pretty!ShutdownBeforeInit
  <2>6. ~PrettyOnRegistryReady
    BY <1>2 DEF PrettyOnRegistryReady, PrettyOnShutdown, PrettyReadyCalled, PrettyShutCalled
  <2>7. stream' = "ended" /\ UNCHANGED <<initFailed, bufferOverflowed>>
    BY <2>5 DEF Pretty!ShutdownStream
  <2>8. QED
    BY <2>2, <2>3, <2>5, <2>6, <2>7 DEF PhaseInv, Early
<1>3. QED
  BY <1>1, <1>2

LEMMA WritePhase ==
  ASSUME PhaseInv, NEW e \in Entries, PrettyWrite(e)
  PROVE  /\ UNCHANGED <<stream, initFailed, pc, healthy>>
         /\ Undecided' <=> Undecided
         /\ PhaseInv'
<1>1. Chunk(PrettyDest, e)
  BY DEF PrettyWrite, Chunk
<1>2. UNCHANGED <<pc, idx, healthy>>
  BY <1>1, StreamFrame
<1>3. UNCHANGED <<stream, initFailed>>
  BY DEF PrettyWrite, Pretty!WriteEntry, Pretty!WriteToStream, Pretty!WriteWhenFailed,
     Pretty!WriteWhenOverflowed, Pretty!WriteOverflows, Pretty!WriteHolds
<1>4. QED
  BY <1>2, <1>3 DEF PhaseInv, Undecided, Healthy

LEMMA SinkCalls ==
  ASSUME [PrettyFanOutNext]_fanOutVars
  PROVE  \/ SinkUncalled
         \/ PrettyOnInit \/ PrettyOnInitRejects \/ PrettyOnInitBuilds
         \/ PrettyOnRegistryReady \/ PrettyOnShutdown
         \/ \E e \in Entries : PrettyWrite(e)
  BY DEF PrettyFanOutNext, PrettyStep, PrettyChunk, SinkUncalled

LEMMA PhaseInvStep ==
  ASSUME TypeOK, HealthInv, PhaseInv, [PrettyFanOutNext]_fanOutVars
  PROVE  PhaseInv'
  BY SinkCalls, SinkUncalledPhase, InitCallPhase, LaterCallPhase, WritePhase

-----------------------------------------------------------------------------
(***************************************************************************)
(* What the steps do to the history.                                       *)
(***************************************************************************)

Among(x, s) == \E i \in DOMAIN s : s[i] = x

\* The values of a concatenation are those of its parts.
LEMMA ConcatValues ==
  ASSUME NEW S, NEW s \in Seq(S), NEW t \in Seq(S), NEW x
  PROVE  Among(x, s \o t) <=> Among(x, s) \/ Among(x, t)
<1> DEFINE r == s \o t
<1>1. r \in Seq(S) /\ Len(r) = Len(s) + Len(t)
  OBVIOUS
<1>2. ASSUME NEW j \in DOMAIN t
      PROVE  \E i \in DOMAIN r : r[i] = t[j]
  <2>1. Len(s) + j \in 1..Len(r) /\ r[Len(s) + j] = t[j]
    BY <1>1
  <2>2. QED
    BY <1>1, <2>1
<1>3. \A i \in DOMAIN s : i \in DOMAIN r /\ r[i] = s[i]
  BY <1>1
<1>4. \A i \in DOMAIN r : \/ i \in DOMAIN s /\ r[i] = s[i]
                          \/ \E j \in DOMAIN t : r[i] = t[j]
  BY ConcatElements
<1> HIDE DEF r
<1>5. Among(x, r) <=> Among(x, s) \/ Among(x, t)
  BY <1>2, <1>3, <1>4 DEF Among
<1>6. QED
  BY <1>5 DEF r

LEMMA AppendValues ==
  ASSUME NEW S, NEW s \in Seq(S), NEW y \in S, NEW x
  PROVE  Among(x, Append(s, y)) <=> Among(x, s) \/ x = y
<1> DEFINE r == Append(s, y)
<1>1. r \in Seq(S) /\ Len(r) = Len(s) + 1 /\ r[Len(s) + 1] = y
  OBVIOUS
<1>2. \A i \in DOMAIN s : i \in DOMAIN r /\ r[i] = s[i]
  BY <1>1
<1>3. \A i \in DOMAIN r : (i \in DOMAIN s /\ r[i] = s[i]) \/ r[i] = y
  BY AppendElements
<1>4. Len(s) + 1 \in DOMAIN r
  BY <1>1
<1> HIDE DEF r
<1>5. Among(x, r) <=> Among(x, s) \/ x = y
  BY <1>1, <1>2, <1>3, <1>4 DEF Among
<1>6. QED
  BY <1>5 DEF r

\* The history says that the entry has the outcome.
Has(history, e, how) == Among(Pretty!As(how, e), history)

LEMMA AsIsOneToOne ==
  \A e, f, how, o : Pretty!As(o, f) = Pretty!As(how, e) <=> f = e /\ o = how
  BY DEF Pretty!As

\* Flushing or replaying: each held entry gets an outcome, nothing else does.
LEMMA FlushOutcomes ==
  ASSUME BufferType, NEW how \in [DOMAIN buffer -> Pretty!Outcomes],
         resolved' = resolved \o [i \in DOMAIN buffer |-> Pretty!As(how[i], buffer[i].entry)]
  PROVE  \A e, o : Has(resolved', e, o) <=>
                     \/ Has(resolved, e, o)
                     \/ \E j \in DOMAIN buffer : e = buffer[j].entry /\ o = how[j]
<1> DEFINE add == [i \in DOMAIN buffer |-> Pretty!As(how[i], buffer[i].entry)]
<1>1. add \in Seq(Resolution) /\ resolved \in Seq(Resolution) /\ resolved' = resolved \o add
  BY FlushType DEF BufferType, Pretty!As
<1>2. ASSUME NEW e, NEW o
      PROVE  Among(Pretty!As(o, e), add) <=>
               \E j \in DOMAIN buffer : e = buffer[j].entry /\ o = how[j]
  <2>1. ASSUME NEW j \in DOMAIN buffer
        PROVE  add[j] = Pretty!As(o, e) <=> e = buffer[j].entry /\ o = how[j]
    <3>1. add[j] = Pretty!As(how[j], buffer[j].entry)
      OBVIOUS
    <3>2. QED
      BY <3>1, AsIsOneToOne
  <2>2. DOMAIN add = DOMAIN buffer
    OBVIOUS
  <2> HIDE DEF add
  <2>3. QED
    BY <2>1, <2>2 DEF Among
<1> HIDE DEF add, Resolution
<1>3. ASSUME NEW e, NEW o
      PROVE  Has(resolved', e, o) <=> Has(resolved, e, o) \/ Among(Pretty!As(o, e), add)
  <2> DEFINE x == Pretty!As(o, e)
  <2> HIDE DEF x
  <2>1. Among(x, resolved \o add) <=> Among(x, resolved) \/ Among(x, add)
    BY <1>1, ConcatValues
  <2>2. QED
    BY <1>1, <2>1 DEF Has, x
<1>4. ASSUME NEW e, NEW o
      PROVE  Has(resolved', e, o) <=>
               \/ Has(resolved, e, o)
               \/ \E j \in DOMAIN buffer : e = buffer[j].entry /\ o = how[j]
  BY <1>2, <1>3
<1>5. QED
  BY <1>4

LEMMA AppendOutcomes ==
  ASSUME NEW before \in Seq(Resolution), NEW e \in Nat, NEW how \in Pretty!Outcomes,
         resolved' = Append(before, Pretty!As(how, e))
  PROVE  \A f, o : Has(resolved', f, o) <=> Among(Pretty!As(o, f), before) \/ (f = e /\ o = how)
<1>1. Pretty!As(how, e) \in Resolution
  BY DEF Resolution, Pretty!As
<1>2. ASSUME NEW f, NEW o
      PROVE  Has(resolved', f, o) <=> Among(Pretty!As(o, f), before) \/ Pretty!As(o, f) = Pretty!As(how, e)
  <2> HIDE DEF Resolution
  <2>1. QED
    BY <1>1, AppendValues DEF Has
<1>3. ASSUME NEW f, NEW o
      PROVE  Has(resolved', f, o) <=> Among(Pretty!As(o, f), before) \/ (f = e /\ o = how)
  <2>1. Pretty!As(o, f) = Pretty!As(how, e) <=> f = e /\ o = how
    BY AsIsOneToOne
  <2>2. QED
    BY <1>2, <2>1
<1>4. QED
  BY <1>3

\* The effect of a write on who is held and who was resolved, how.
LEMMA WriteOutcomes ==
  ASSUME BufferType, PhaseInv, TypeOK, NEW e \in Entries, PrettyWrite(e)
  PROVE  \/ /\ buffer' = buffer
            /\ \E how \in {"rendered", "raw", "dropped"} :
                 /\ \A f, o : Has(resolved', f, o) <=> Has(resolved, f, o) \/ (f = e /\ o = how)
                 /\ how = "raw" => bufferOverflowed'
                 /\ how = "dropped" => initFailed \/ stream = "ended"
         \/ /\ buffer' = <<>> /\ bufferOverflowed'
            /\ \A f, o : Has(resolved', f, o) <=>
                           \/ Has(resolved, f, o)
                           \/ o = "raw" /\ (f = e \/ \E j \in DOMAIN buffer : f = buffer[j].entry)
         \/ /\ buffer' = Append(buffer, [entry |-> e, bytes |-> 1])
            /\ resolved' = resolved
<1>0. e \in Nat /\ resolved \in Seq(Resolution)
  BY EntriesAre DEF BufferType
<1>1. ASSUME NEW how \in {"rendered", "raw", "dropped"},
             resolved' = Append(resolved, Pretty!As(how, e))
      PROVE  \A f, o : Has(resolved', f, o) <=> Has(resolved, f, o) \/ (f = e /\ o = how)
  <2>1. how \in Pretty!Outcomes
    BY DEF Pretty!Outcomes
  <2>2. QED
    BY <1>0, <1>1, <2>1, AppendOutcomes DEF Has
<1>2. CASE Pretty!WriteToStream(e)
  <2>1. buffer' = buffer /\ stream # "none"
    BY <1>2 DEF Pretty!WriteToStream
  <2>2. CASE stream = "open"
    BY <1>1, <1>2, <2>1, <2>2 DEF Pretty!WriteToStream
  <2>3. CASE stream # "open"
    <3>1. resolved' = Append(resolved, Pretty!As("dropped", e))
      BY <1>2, <2>3 DEF Pretty!WriteToStream
    <3>2. stream = "ended"
      BY <2>1, <2>3 DEF PhaseInv
    <3>3. QED
      BY <1>1, <2>1, <3>1, <3>2
  <2>4. QED
    BY <2>2, <2>3
<1>3. CASE Pretty!WriteWhenFailed(e)
  BY <1>1, <1>3 DEF Pretty!WriteWhenFailed
<1>4. CASE Pretty!WriteWhenOverflowed(e)
  BY <1>1, <1>4 DEF Pretty!WriteWhenOverflowed
<1>5. CASE Pretty!WriteOverflows(e, 1)
  <2> DEFINE how == [i \in DOMAIN buffer |-> "raw"]
             add == [i \in DOMAIN buffer |-> Pretty!As(how[i], buffer[i].entry)]
             before == resolved \o add
  <2>1. /\ buffer' = <<>> /\ bufferOverflowed'
        /\ resolved' = Append(before, Pretty!As("raw", e))
    BY <1>5 DEF Pretty!WriteOverflows, Pretty!EmptyBuffer, Pretty!Flushed
  <2>2. "raw" \in Pretty!Outcomes /\ how \in [DOMAIN buffer -> Pretty!Outcomes]
    BY DEF Pretty!Outcomes
  <2>3. add \in Seq(Resolution)
    BY <2>2, FlushType DEF BufferType, Pretty!As
  <2>4. before \in Seq(Resolution)
    <3> HIDE DEF add, Resolution
    <3>1. QED
      BY <1>0, <2>3
  <2>5. ASSUME NEW f, NEW o
        PROVE  Among(Pretty!As(o, f), add) <=>
                 o = "raw" /\ \E j \in DOMAIN buffer : f = buffer[j].entry
    BY AsIsOneToOne DEF Among
  <2> HIDE DEF add
  <2>6. ASSUME NEW f, NEW o
        PROVE  Among(Pretty!As(o, f), before) <=>
                 Has(resolved, f, o) \/ Among(Pretty!As(o, f), add)
    <3> HIDE DEF Resolution
    <3>1. QED
      BY <1>0, <2>3, ConcatValues DEF Has
  <2> HIDE DEF before
  <2>7. \A f, o : Has(resolved', f, o) <=>
                    Among(Pretty!As(o, f), before) \/ (f = e /\ o = "raw")
    BY <1>0, <2>1, <2>2, <2>4, AppendOutcomes
  <2>8. QED
    BY <2>1, <2>5, <2>6, <2>7
<1>6. CASE Pretty!WriteHolds(e, 1)
  BY <1>6 DEF Pretty!WriteHolds
<1>7. QED
  BY <1>2, <1>3, <1>4, <1>5, <1>6 DEF PrettyWrite, Pretty!WriteEntry

-----------------------------------------------------------------------------
(***************************************************************************)
(* What is printed raw while a live stdout has it already.                 *)
(***************************************************************************)

\* Only a sink that throws or returns a promise has a failed write.
FaultInv == \A d \in writeFailed : Write[d] # {"returns"}

LEMMA FaultInvStep ==
  ASSUME TypeOK, FarewellInv, FaultInv, [Next]_vars
  PROVE  FaultInv'
<1>1. CASE UNCHANGED <<emitted, fate, writeFailed, pendingWrites>> \/ EmitStep
  BY <1>1 DEF FaultInv, EmitStep, healthVars
<1>2. CASE StreamStep
  <2>1. PICK d \in Dest, e \in Entries : Chunk(d, e) \/ Settle(d, e)
    BY <1>2 DEF StreamStep
  <2>2. writeFailed' = writeFailed \/ (writeFailed' = writeFailed \cup {d} /\ Write[d] # {"returns"})
    <3>1. CASE WriteThrows(d, e)
      BY <3>1 DEF WriteThrows, MarkWriteFailed
    <3>2. CASE WriteRejected(d, e)
      BY <3>2 DEF WriteRejected, MarkWriteFailed, FarewellInv
    <3>3. CASE Rescue(d, e) \/ Skip(d, e) \/ WriteReturns(d, e) \/ WriteBegins(d, e)
               \/ WriteFulfilled(d, e)
      BY <3>3 DEF Rescue, Skip, WriteReturns, WriteBegins, WriteFulfilled, healthVars
    <3>4. QED
      BY <2>1, <3>1, <3>2, <3>3 DEF Chunk, Settle
  <2>3. QED
    BY <2>2 DEF FaultInv
<1>3. QED
  BY <1>1, <1>2, StepKinds

\* The live synchronous sinks that never fail and take what the pretty sink takes.
Spared == {d \in Healthy \ {PrettyDest} :
             Write[d] = {"returns"} /\ EffectiveLevel(d) <= EffectiveLevel(PrettyDest)}

\* Each of them is a witness for readiness.
LEMMA SparedIsWitness ==
  ASSUME TypeOK, HealthInv, CountInv, FarewellInv, FaultInv,
         ~DeliveredByHealthySink(PrettyDest, EffectiveLevel(PrettyDest))
  PROVE  Spared = {}
<1>1. SUFFICES ASSUME NEW d \in Healthy \ {PrettyDest}, Write[d] = {"returns"},
                      EffectiveLevel(d) <= EffectiveLevel(PrettyDest)
               PROVE  FALSE
  BY DEF Spared
<1>2. d \in Dest /\ healthy[d] = EffectiveLevel(d) /\ d \notin writeFailed
  BY <1>1 DEF Healthy, HealthInv, FaultInv
<1>3. ~Writing(d)
  BY <1>1, <1>2 DEF Writing, FarewellInv
<1>4. pendingWrites[d] <= 0
  BY <1>2, <1>3 DEF CountInv, PendingCountsInFlight
<1>5. QED
  BY <1>1, <1>2, <1>4 DEF DeliveredByHealthySink

RawSeen == \E e \in Nat : Has(resolved, e, "raw")

\* Short of an overflow nothing is printed raw before onInit decides; and a sink
\* that failed prints raw only when readiness finds no other sink to have it all.
RawInv ==
  /\ bufferOverflowed \in BOOLEAN
  /\ RawSeen /\ ~bufferOverflowed => ~Undecided
  /\ RawSeen /\ ~bufferOverflowed /\ initFailed => pc \notin Early /\ Spared = {}

LEMMA RawInvInit == PrettyFanOutInit => RawInv /\ FaultInv
<1>1. SUFFICES ASSUME PrettyFanOutInit PROVE RawInv /\ FaultInv
  OBVIOUS
<1>2. resolved = <<>> /\ bufferOverflowed = FALSE /\ writeFailed = {}
  BY <1>1 DEF PrettyFanOutInit, Pretty!PrettyInit, Init, HealthInit
<1>3. ~RawSeen
  BY <1>2 DEF RawSeen, Has, Among
<1>4. QED
  BY <1>2, <1>3 DEF RawInv, FaultInv

\* A flush or a replay, entry by entry.
LEMMA FlushedOutcomes ==
  ASSUME BufferType, NEW outcome \in Pretty!Outcomes, BufferFlushed(outcome)
  PROVE  \A e, o : Has(resolved', e, o) <=>
                     \/ Has(resolved, e, o)
                     \/ o = outcome /\ \E j \in DOMAIN buffer : e = buffer[j].entry
<1> DEFINE how == [i \in DOMAIN buffer |-> outcome]
<1>1. how \in [DOMAIN buffer -> Pretty!Outcomes]
  OBVIOUS
<1>2. resolved' = resolved \o [i \in DOMAIN buffer |-> Pretty!As(how[i], buffer[i].entry)]
  BY DEF BufferFlushed, Pretty!As
<1>3. \A j \in DOMAIN buffer : how[j] = outcome
  OBVIOUS
<1> HIDE DEF how
<1>4. \A e, o : Has(resolved', e, o) <=>
                  \/ Has(resolved, e, o)
                  \/ \E j \in DOMAIN buffer : e = buffer[j].entry /\ o = how[j]
  BY <1>1, <1>2, FlushOutcomes
<1>5. QED
  BY <1>3, <1>4

LEMMA ReplayedOutcomes ==
  ASSUME BufferType, BufferReplayed
  PROVE  \E how \in [DOMAIN buffer -> {"rendered", "raw"}] :
           \A e, o : Has(resolved', e, o) <=>
                       \/ Has(resolved, e, o)
                       \/ \E j \in DOMAIN buffer : e = buffer[j].entry /\ o = how[j]
<1>1. PICK how \in [DOMAIN buffer -> {"rendered", "raw"}] :
        resolved' = resolved \o [i \in DOMAIN buffer |-> Pretty!As(how[i], buffer[i].entry)]
  BY DEF BufferReplayed, Pretty!As
<1>2. how \in [DOMAIN buffer -> Pretty!Outcomes]
  BY DEF Pretty!Outcomes
<1>3. \A e, o : Has(resolved', e, o) <=>
                  \/ Has(resolved, e, o)
                  \/ \E j \in DOMAIN buffer : e = buffer[j].entry /\ o = how[j]
  BY <1>1, <1>2, FlushOutcomes
<1>4. QED
  BY <1>3

LEMMA RawInvWrite ==
  ASSUME SinkInv, TypeOK, PhaseInv, RawInv, NEW e \in Entries, PrettyWrite(e)
  PROVE  RawInv'
<1>1. /\ UNCHANGED <<stream, initFailed, pc, healthy>>
      /\ Undecided' <=> Undecided
  BY WritePhase
<1>2. bufferOverflowed' = bufferOverflowed \/ bufferOverflowed' = TRUE
  <2>1. CASE Pretty!WriteOverflows(e, 1)
    BY <2>1 DEF Pretty!WriteOverflows
  <2>2. CASE ~Pretty!WriteOverflows(e, 1)
    BY <2>2 DEF PrettyWrite, Pretty!WriteEntry, Pretty!WriteToStream,
       Pretty!WriteWhenFailed, Pretty!WriteWhenOverflowed, Pretty!WriteHolds
  <2>3. QED
    BY <2>1, <2>2
<1>3. RawSeen' => RawSeen \/ bufferOverflowed'
  BY WriteOutcomes DEF RawSeen, SinkInv
<1>4. Spared' = Spared
  BY <1>1 DEF Spared, Healthy
<1>5. QED
  BY <1>1, <1>2, <1>3, <1>4 DEF RawInv

LEMMA RawInvReady ==
  ASSUME SinkInv, DeliveryInv, PhaseInv, FaultInv, RawInv, PrettyOnRegistryReady
  PROVE  RawInv'
<1>1. TypeOK /\ HealthInv /\ CountInv /\ FarewellInv /\ BufferType
  BY DEF DeliveryInv, LifecycleInv, SinkInv
<1>2. /\ pc \notin Early /\ pc' \notin Early /\ ~Undecided'
      /\ UNCHANGED <<initFailed, bufferOverflowed>> /\ Healthy' = Healthy
  BY <1>1, LaterCallPhase
<1>3. Spared' = Spared
  BY <1>2 DEF Spared
<1>4. CASE DeliveredByHealthySink(PrettyDest, EffectiveLevel(PrettyDest))
  <2>1. BufferFlushed("discarded")
    BY <1>4 DEF PrettyOnRegistryReady, Pretty!OnRegistryReady, Pretty!FlushBuffer,
       Pretty!EmptyBuffer, Pretty!Flushed, Pretty!As, BufferFlushed
  <2>2. "discarded" \in Pretty!Outcomes
    BY DEF Pretty!Outcomes
  <2>3. RawSeen' => RawSeen
    BY <1>1, <2>1, <2>2, FlushedOutcomes DEF RawSeen
  <2>4. QED
    BY <1>2, <1>3, <2>3 DEF RawInv
<1>5. CASE ~DeliveredByHealthySink(PrettyDest, EffectiveLevel(PrettyDest))
  <2>1. Spared = {}
    BY <1>1, <1>5, SparedIsWitness
  <2>2. QED
    BY <1>2, <1>3, <2>1 DEF RawInv
<1>6. QED
  BY <1>4, <1>5

LEMMA RawInvStep ==
  ASSUME SinkInv, DeliveryInv, PhaseInv, FaultInv, RawInv, [PrettyFanOutNext]_fanOutVars
  PROVE  RawInv'
<1>1. TypeOK /\ HealthInv /\ BufferType
  BY DEF DeliveryInv, LifecycleInv, SinkInv
<1>2. CASE SinkUncalled
  <2>1. /\ UNCHANGED prettyVars
        /\ Undecided' <=> Undecided
        /\ pc \notin Early => pc' \notin Early /\ Healthy' = Healthy
    BY <1>1, <1>2, SinkUncalledPhase
  <2>2. (RawSeen' <=> RawSeen) /\ UNCHANGED <<bufferOverflowed, initFailed>>
    BY <2>1 DEF RawSeen, prettyVars
  <2>3. pc \notin Early => Spared' = Spared
    BY <2>1 DEF Spared
  <2>4. QED
    BY <2>1, <2>2, <2>3 DEF RawInv
<1>3. CASE PrettyOnInit \/ PrettyOnInitRejects
  <2>1. pc \in Early /\ PhaseInv' /\ (~Undecided => UNCHANGED prettyVars)
    BY <1>1, <1>3, InitCallPhase
  <2>2. UNCHANGED <<stream, bufferOverflowed, resolved>>
    BY <1>3 DEF PrettyOnInit, PrettyOnInitRejects, Pretty!InitFails, prettyVars
  <2>3. RawSeen' <=> RawSeen
    BY <2>2 DEF RawSeen
  <2>4. CASE Undecided
    BY <2>2, <2>3, <2>4 DEF RawInv
  <2>5. CASE ~Undecided
    <3>1. UNCHANGED <<stream, initFailed>>
      BY <2>1, <2>5 DEF prettyVars
    <3>2. ~Undecided'
      BY <2>1, <2>5, <3>1 DEF PhaseInv
    <3>3. QED
      BY <2>1, <2>2, <2>3, <3>1, <3>2 DEF RawInv
  <2>6. QED
    BY <2>4, <2>5
<1>4. CASE PrettyOnInitBuilds
  <2>1. PhaseInv' /\ stream' = "open" /\ bufferOverflowed' = bufferOverflowed
    BY <1>1, <1>4, InitCallPhase DEF PrettyOnInitBuilds, Pretty!InitSucceeds
  <2>2. ~Undecided' /\ ~initFailed'
    BY <2>1 DEF PhaseInv
  <2>3. QED
    BY <2>1, <2>2 DEF RawInv
<1>5. CASE PrettyOnRegistryReady
  BY <1>5, RawInvReady
<1>6. CASE PrettyOnShutdown
  <2>1. ~Undecided' /\ ~initFailed /\ UNCHANGED <<initFailed, bufferOverflowed>>
    BY <1>1, <1>6, LaterCallPhase
  <2>2. QED
    BY <2>1 DEF RawInv
<1>7. ASSUME NEW e \in Entries, PrettyWrite(e)
      PROVE  RawInv'
  BY <1>1, <1>7, RawInvWrite
<1>8. QED
  BY <1>2, <1>3, <1>4, <1>5, <1>6, <1>7, SinkCalls

-----------------------------------------------------------------------------
(***************************************************************************)
(* Where what the sink accepted is.                                        *)
(***************************************************************************)

AcceptedByPretty == {e \in Entries : fate[PrettyDest][e] = "accepted"}

HeldNow(e) == \E j \in DOMAIN buffer : e = buffer[j].entry
HasOutcome(e) == \E o \in Pretty!Outcomes : Has(resolved, e, o)

\* What the fan-out counts as accepted by the sink is held or has an outcome.
AccountInv == \A e : e \in AcceptedByPretty <=> HeldNow(e) \/ HasOutcome(e)

\* What is dropped came after a failed initialization or after the end.
DropInv == (\E e \in Nat : Has(resolved, e, "dropped")) => initFailed \/ stream = "ended"

LEMMA AccountInvInit == PrettyFanOutInit => AccountInv /\ DropInv
<1>1. SUFFICES ASSUME PrettyFanOutInit PROVE AccountInv /\ DropInv
  OBVIOUS
<1>2. resolved = <<>> /\ buffer = <<>> /\ Entries = {}
  BY <1>1 DEF PrettyFanOutInit, Pretty!PrettyInit, Init, Entries
<1>3. \A e, o : ~Has(resolved, e, o) /\ ~HeldNow(e)
  BY <1>2 DEF Has, Among, HeldNow
<1>4. QED
  BY <1>2, <1>3 DEF AccountInv, DropInv, AcceptedByPretty, HasOutcome

\* Only a write to the sink that returns makes an entry accepted by it.
LEMMA AcceptedFrame ==
  ASSUME TypeOK, [PrettyFanOutNext]_fanOutVars, \A e \in Entries : ~PrettyWrite(e)
  PROVE  AcceptedByPretty' = AcceptedByPretty
<1>1. CASE UNCHANGED <<emitted, fate, writeFailed, pendingWrites>>
  BY <1>1 DEF AcceptedByPretty, Entries
<1>2. CASE EmitStep
  <2>1. PICK level \in Levels, by \in Origins : Emit(level, by)
    BY <1>2 DEF EmitStep
  <2>2. /\ Entries \subseteq Entries'
        /\ \A e \in Entries : fate'[PrettyDest][e] = fate[PrettyDest][e]
        /\ \A e \in Entries' \ Entries : fate'[PrettyDest][e] # "accepted"
    BY <2>1, EmitFates
  <2>3. QED
    BY <2>2 DEF AcceptedByPretty
<1>3. ASSUME NEW e \in Entries, PrettyWriteThrows(e) \/ PrettyPassedOver(e)
      PROVE  AcceptedByPretty' = AcceptedByPretty
  <2>1. \E r \in {"dropped", "rescued", "skipped"} : Becomes(PrettyDest, e, r) /\ r \in Fates
    BY <1>3 DEF PrettyWriteThrows, PrettyPassedOver, WriteThrows, Rescue, Skip, Fates, Settled
  <2>2. emitted' = emitted /\ fate[PrettyDest][e] = "queued"
    BY <1>3 DEF PrettyWriteThrows, PrettyPassedOver, WriteThrows, Rescue, Skip, NextChunk
  <2>3. Entries' = Entries
    BY <2>2 DEF Entries
  <2>4. \A f \in Entries : fate'[PrettyDest][f] = "accepted" <=> fate[PrettyDest][f] = "accepted"
    BY <2>1, <2>2, BecomesType
  <2>5. QED
    BY <2>3, <2>4 DEF AcceptedByPretty
<1>4. CASE OtherStreams
  <2>1. PICK d \in Dest \ {PrettyDest}, e \in Entries : Chunk(d, e) \/ Settle(d, e)
    BY <1>4 DEF OtherStreams
  <2>2. Entries' = Entries /\ \A f \in Entries : fate'[PrettyDest][f] = fate[PrettyDest][f]
    BY <2>1, StreamFates
  <2>3. QED
    BY <2>2 DEF AcceptedByPretty
<1>5. CASE UNCHANGED fanOutVars \/ PrettyStep \/ (\E level \in AppLevels : PrettyLog(level))
           \/ OtherInit \/ OtherReady \/ OtherShutdown
  <2>1. Others
    BY <1>5 DEF Others, fanOutVars, PrettyStep, PrettyOnInit, PrettyOnInitBuilds,
       PrettyOnInitRejects, PrettyOnRegistryReady, PrettyOnShutdown, PrettyLog, OtherInit,
       OtherReady, OtherShutdown, InitLoop, ReadyLoop, ShutdownLoop
  <2>2. QED
    BY <1>1, <1>2, <2>1, OtherKinds
<1>6. QED
  BY <1>3, <1>4, <1>5 DEF PrettyFanOutNext, PrettyChunk

\* A step that empties the buffer into the history.
LEMMA AccountFlushed ==
  ASSUME AccountInv, AcceptedByPretty' = AcceptedByPretty, buffer' = <<>>,
         NEW how \in [DOMAIN buffer -> Pretty!Outcomes],
         \A e, o : Has(resolved', e, o) <=>
                     \/ Has(resolved, e, o)
                     \/ \E j \in DOMAIN buffer : e = buffer[j].entry /\ o = how[j]
  PROVE  AccountInv'
<1>1. ASSUME NEW e
      PROVE  /\ ~HeldNow(e)'
             /\ HasOutcome(e)' <=> HeldNow(e) \/ HasOutcome(e)
  <2>1. ~HeldNow(e)'
    BY DEF HeldNow
  <2>2. HasOutcome(e)' <=> \E o \in Pretty!Outcomes : Has(resolved', e, o)
    BY DEF HasOutcome, Pretty!Outcomes
  <2>3. QED
    BY <2>1, <2>2 DEF HeldNow, HasOutcome
<1>2. QED
  BY <1>1 DEF AccountInv

LEMMA AccountWritten ==
  ASSUME SinkInv, PhaseInv, TypeOK, AccountInv, NEW e \in Entries, PrettyWrite(e)
  PROVE  AccountInv'
<1>1. Becomes(PrettyDest, e, "accepted") /\ "accepted" \in Fates /\ Entries' = Entries
  BY DEF PrettyWrite, WriteReturns, Fates, Settled, Entries
<1>2. \A f : f \in AcceptedByPretty' <=> f \in AcceptedByPretty \/ f = e
  BY <1>1, BecomesType DEF AcceptedByPretty
<1>3. ASSUME NEW f
      PROVE  HasOutcome(f)' <=> \E o \in Pretty!Outcomes : Has(resolved', f, o)
  BY DEF HasOutcome, Pretty!Outcomes
<1>4. {"rendered", "raw", "dropped"} \subseteq Pretty!Outcomes
  BY DEF Pretty!Outcomes
<1>5. ASSUME NEW f
      PROVE  HeldNow(f)' \/ HasOutcome(f)' <=> HeldNow(f) \/ HasOutcome(f) \/ f = e
  <2>1. CASE /\ buffer' = buffer
             /\ \E how \in {"rendered", "raw", "dropped"} :
                  \A g, o : Has(resolved', g, o) <=> Has(resolved, g, o) \/ (g = e /\ o = how)
    <3>1. HasOutcome(f)' <=> HasOutcome(f) \/ f = e
      BY <1>3, <1>4, <2>1 DEF HasOutcome
    <3>2. HeldNow(f)' <=> HeldNow(f)
      BY <2>1 DEF HeldNow
    <3>3. QED
      BY <3>1, <3>2
  <2>2. CASE /\ buffer' = <<>>
             /\ \A g, o : Has(resolved', g, o) <=>
                  \/ Has(resolved, g, o)
                  \/ o = "raw" /\ (g = e \/ \E j \in DOMAIN buffer : g = buffer[j].entry)
    <3>1. HasOutcome(f)' <=> HasOutcome(f) \/ f = e \/ HeldNow(f)
      BY <1>3, <1>4, <2>2 DEF HasOutcome, HeldNow
    <3>2. ~HeldNow(f)'
      BY <2>2 DEF HeldNow
    <3>3. QED
      BY <3>1, <3>2
  <2>3. CASE buffer' = Append(buffer, [entry |-> e, bytes |-> 1]) /\ resolved' = resolved
    <3>1. HasOutcome(f)' <=> HasOutcome(f)
      BY <1>3, <2>3 DEF HasOutcome
    <3>2. HeldNow(f)' <=> HeldNow(f) \/ f = e
      <4> DEFINE new == [entry |-> e, bytes |-> 1]
      <4>1. buffer \in Seq(HeldEntry) /\ new \in HeldEntry /\ new.entry = e
        BY EntriesAre DEF SinkInv, BufferType, HeldEntry
      <4>2. buffer' = Append(buffer, new)
        BY <2>3
      <4> HIDE DEF new, HeldEntry
      <4>3. /\ Len(buffer') = Len(buffer) + 1 /\ buffer'[Len(buffer) + 1] = new
            /\ DOMAIN buffer' = 1..Len(buffer') /\ DOMAIN buffer = 1..Len(buffer)
            /\ Len(buffer) \in Nat
            /\ \A i \in DOMAIN buffer : buffer'[i] = buffer[i]
        BY <4>1, <4>2
      <4>4. QED
        BY <4>1, <4>3 DEF HeldNow
    <3>3. QED
      BY <3>1, <3>2
  <2>4. QED
    BY <2>1, <2>2, <2>3, WriteOutcomes DEF SinkInv
<1>6. QED
  BY <1>2, <1>5 DEF AccountInv

\* How a step that is not a write flushes: every held entry gets one outcome,
\* which is never "dropped".
LEMMA FlushKinds ==
  ASSUME SinkInv, [PrettyFanOutNext]_fanOutVars, \A e \in Entries : ~PrettyWrite(e)
  PROVE  \/ BufferKept
         \/ /\ buffer' = <<>>
            /\ \E how \in [DOMAIN buffer -> Pretty!Outcomes \ {"dropped"}] :
                 \A e, o : Has(resolved', e, o) <=>
                             \/ Has(resolved, e, o)
                             \/ \E j \in DOMAIN buffer : e = buffer[j].entry /\ o = how[j]
<1>1. BufferType
  BY DEF SinkInv
<1>2. CASE BufferReplayed
  <2>1. PICK how \in [DOMAIN buffer -> {"rendered", "raw"}] :
          \A e, o : Has(resolved', e, o) <=>
                      \/ Has(resolved, e, o)
                      \/ \E j \in DOMAIN buffer : e = buffer[j].entry /\ o = how[j]
    BY <1>1, <1>2, ReplayedOutcomes
  <2>2. how \in [DOMAIN buffer -> Pretty!Outcomes \ {"dropped"}]
    BY DEF Pretty!Outcomes
  <2>3. QED
    BY <1>2, <2>1, <2>2 DEF BufferReplayed
<1>3. ASSUME NEW outcome \in {"raw", "discarded"}, BufferFlushed(outcome)
      PROVE  /\ buffer' = <<>>
             /\ \E how \in [DOMAIN buffer -> Pretty!Outcomes \ {"dropped"}] :
                  \A e, o : Has(resolved', e, o) <=>
                              \/ Has(resolved, e, o)
                              \/ \E j \in DOMAIN buffer : e = buffer[j].entry /\ o = how[j]
  <2> DEFINE how == [i \in DOMAIN buffer |-> outcome]
  <2>1. outcome \in Pretty!Outcomes \ {"dropped"}
    BY DEF Pretty!Outcomes
  <2>2. /\ how \in [DOMAIN buffer -> Pretty!Outcomes \ {"dropped"}]
        /\ \A j \in DOMAIN buffer : how[j] = outcome
    BY <2>1
  <2>3. \A e, o : Has(resolved', e, o) <=>
                    \/ Has(resolved, e, o)
                    \/ o = outcome /\ \E j \in DOMAIN buffer : e = buffer[j].entry
    BY <1>1, <1>3, <2>1, FlushedOutcomes
  <2> HIDE DEF how
  <2>4. \A e, o : Has(resolved', e, o) <=>
                    \/ Has(resolved, e, o)
                    \/ \E j \in DOMAIN buffer : e = buffer[j].entry /\ o = how[j]
    BY <2>2, <2>3
  <2>5. QED
    BY <1>3, <2>2, <2>4 DEF BufferFlushed
<1>4. QED
  BY <1>2, <1>3, SinkSteps

LEMMA AccountInvStep ==
  ASSUME SinkInv, TypeOK, PhaseInv, AccountInv, [PrettyFanOutNext]_fanOutVars
  PROVE  AccountInv'
<1>1. ASSUME NEW e \in Entries, PrettyWrite(e)
      PROVE  AccountInv'
  BY <1>1, AccountWritten
<1>2. CASE \A e \in Entries : ~PrettyWrite(e)
  <2>1. AcceptedByPretty' = AcceptedByPretty
    BY <1>2, AcceptedFrame
  <2>2. CASE BufferKept
    BY <2>1, <2>2 DEF BufferKept, AccountInv, HeldNow, HasOutcome, Pretty!Outcomes
  <2>3. ASSUME buffer' = <<>>,
               NEW how \in [DOMAIN buffer -> Pretty!Outcomes \ {"dropped"}],
               \A e, o : Has(resolved', e, o) <=>
                           \/ Has(resolved, e, o)
                           \/ \E j \in DOMAIN buffer : e = buffer[j].entry /\ o = how[j]
        PROVE  AccountInv'
    <3>1. how \in [DOMAIN buffer -> Pretty!Outcomes]
      OBVIOUS
    <3>2. QED
      BY <2>1, <2>3, <3>1, AccountFlushed
  <2>4. QED
    BY <1>2, <2>2, <2>3, FlushKinds
<1>3. QED
  BY <1>1, <1>2

LEMMA DropInvStep ==
  ASSUME SinkInv, TypeOK, HealthInv, PhaseInv, DropInv, [PrettyFanOutNext]_fanOutVars
  PROVE  DropInv'
<1>1. initFailed \/ stream = "ended" => (initFailed \/ stream = "ended")'
  <2>1. CASE SinkUncalled
    BY <2>1, SinkUncalledPhase DEF prettyVars
  <2>2. CASE PrettyOnInit \/ PrettyOnInitRejects
    BY <2>2 DEF PrettyOnInit, PrettyOnInitRejects, Pretty!InitFails, prettyVars
  <2>3. CASE PrettyOnInitBuilds
    <3>1. stream' = "open"
      BY <2>3 DEF PrettyOnInitBuilds, Pretty!InitSucceeds
    <3>2. Undecided
      BY <2>3 DEF PrettyOnInitBuilds, PrettyInitPending, Undecided
    <3>3. QED
      BY <3>2 DEF PhaseInv
  <2>4. CASE PrettyOnRegistryReady
    BY <2>4, LaterCallPhase
  <2>5. CASE PrettyOnShutdown
    BY <2>5, LaterCallPhase DEF Pretty!ShutdownStream
  <2>6. ASSUME NEW e \in Entries, PrettyWrite(e)
        PROVE  UNCHANGED <<stream, initFailed>>
    BY <2>6, WritePhase
  <2>7. QED
    BY <2>1, <2>2, <2>3, <2>4, <2>5, <2>6, SinkCalls
<1>2. (\E e \in Nat : Has(resolved', e, "dropped")) =>
        \/ \E e \in Nat : Has(resolved, e, "dropped")
        \/ initFailed \/ stream = "ended"
  <2>1. ASSUME NEW e \in Entries, PrettyWrite(e), NEW f \in Nat, Has(resolved', f, "dropped")
        PROVE  Has(resolved, f, "dropped") \/ initFailed \/ stream = "ended"
    <3>1. BufferType
      BY DEF SinkInv
    <3>2. CASE \E how \in {"rendered", "raw", "dropped"} :
                 /\ \A g, o : Has(resolved', g, o) <=> Has(resolved, g, o) \/ (g = e /\ o = how)
                 /\ how = "dropped" => initFailed \/ stream = "ended"
      BY <2>1, <3>2
    <3>3. CASE \A g, o : Has(resolved', g, o) <=>
                 \/ Has(resolved, g, o)
                 \/ o = "raw" /\ (g = e \/ \E j \in DOMAIN buffer : g = buffer[j].entry)
      BY <2>1, <3>3
    <3>4. CASE resolved' = resolved
      BY <2>1, <3>4
    <3>5. QED
      BY <2>1, <3>1, <3>2, <3>3, <3>4, WriteOutcomes
  <2>2. CASE \A e \in Entries : ~PrettyWrite(e)
    BY <2>2, FlushKinds DEF BufferKept
  <2>3. QED
    BY <2>1, <2>2
<1>3. QED
  BY <1>1, <1>2 DEF DropInv

-----------------------------------------------------------------------------
(***************************************************************************)
(* The theorems.                                                           *)
(***************************************************************************)

\* With a pretty sink in the fan-out, the fan-out's invariant and the sink's hold.
THEOREM SinkInvariant == PrettyFanOutSpec => [](DeliveryInv /\ SinkInv)
<1>1. PrettyFanOutInit => SinkInv
  BY SinkInvInit
<1>2. SinkInv /\ DeliveryInv /\ [PrettyFanOutNext]_fanOutVars => SinkInv'
  BY SinkInvStep
<1>3. QED
  BY <1>1, <1>2, PrettyImplementsFanOut, DeliveryInvariant, PTL DEF PrettyFanOutSpec

\* No entry the sink discards is lost: another live sink accepted it
\* (heldEntriesDeliveredElsewhere in onRegistryReady).
THEOREM DiscardedIsNeverLost == PrettyFanOutSpec => []DiscardedIsElsewhere
<1>1. DeliveryInv /\ SinkInv => DiscardedIsElsewhere
  BY DEF SinkInv, DiscardInv, Elsewhere, DiscardedIsElsewhere, Pretty!Entries
<1>2. QED
  BY <1>1, SinkInvariant, PTL

\* The inductive invariant of the sink in the fan-out: besides the fan-out's and
\* what is held, how far onInit is, who may have a failed write, what was printed
\* raw and why, and where each accepted entry is.
FateOfSinkInv == SinkInv /\ PhaseInv /\ FaultInv /\ RawInv /\ AccountInv /\ DropInv

THEOREM FateOfSinkInvariant == PrettyFanOutSpec => [](DeliveryInv /\ FateOfSinkInv)
<1>1. PrettyFanOutInit => FateOfSinkInv
  BY SinkInvInit, PhaseInvInit, RawInvInit, AccountInvInit DEF FateOfSinkInv
<1>2. FateOfSinkInv /\ DeliveryInv /\ [PrettyFanOutNext]_fanOutVars => FateOfSinkInv'
  <2>1. SUFFICES ASSUME FateOfSinkInv, DeliveryInv, [PrettyFanOutNext]_fanOutVars
                 PROVE  FateOfSinkInv'
    OBVIOUS
  <2>2. TypeOK /\ HealthInv /\ FarewellInv /\ [Next]_vars
    BY <2>1, StepIsFanOutStep DEF DeliveryInv, LifecycleInv
  <2>3. SinkInv /\ PhaseInv /\ FaultInv /\ RawInv /\ AccountInv /\ DropInv
    BY <2>1 DEF FateOfSinkInv
  <2>4. SinkInv' /\ PhaseInv' /\ FaultInv'
    BY <2>1, <2>2, <2>3, SinkInvStep, PhaseInvStep, FaultInvStep
  <2>5. RawInv' /\ AccountInv' /\ DropInv'
    BY <2>1, <2>2, <2>3, RawInvStep, AccountInvStep, DropInvStep
  <2>6. QED
    BY <2>4, <2>5 DEF FateOfSinkInv
<1>3. QED
  BY <1>1, <1>2, PrettyImplementsFanOut, DeliveryInvariant, PTL DEF PrettyFanOutSpec

\* The history's entries with some outcomes.
LEMMA EntriesWith ==
  ASSUME BufferType, NEW O, NEW e
  PROVE  e \in Pretty!Entries(O) <=> e \in Nat /\ \E o \in O : Has(resolved, e, o)
<1>1. resolved \in Seq(Resolution)
  BY DEF BufferType
<1>2. ASSUME NEW i \in DOMAIN resolved
      PROVE  resolved[i] \in Resolution
  <2> HIDE DEF Resolution
  <2>1. QED
    BY <1>1
<1>3. ASSUME NEW i \in DOMAIN resolved, NEW f, NEW o
      PROVE  resolved[i] = Pretty!As(o, f) <=> f = resolved[i].entry /\ o = resolved[i].as
  BY <1>2 DEF Resolution, Pretty!As
<1>4. ASSUME NEW i \in DOMAIN resolved
      PROVE  resolved[i].entry \in Nat
  BY <1>2 DEF Resolution
<1>5. ASSUME e \in Pretty!Entries(O)
      PROVE  e \in Nat /\ \E o \in O : Has(resolved, e, o)
  <2>1. PICK i \in DOMAIN resolved : e = resolved[i].entry /\ resolved[i].as \in O
    BY <1>5 DEF Pretty!Entries
  <2>2. resolved[i] = Pretty!As(resolved[i].as, e)
    BY <1>3, <2>1
  <2>3. QED
    BY <1>4, <2>1, <2>2 DEF Has, Among
<1>6. ASSUME NEW o \in O, Has(resolved, e, o)
      PROVE  e \in Pretty!Entries(O)
  <2>1. PICK i \in DOMAIN resolved : resolved[i] = Pretty!As(o, e)
    BY <1>6 DEF Has, Among
  <2>2. e = resolved[i].entry /\ o = resolved[i].as
    BY <1>3, <2>1
  <2>3. QED
    BY <2>2 DEF Pretty!Entries
<1>7. QED
  BY <1>5, <1>6

\* Whatever the sinks, the registry and the application do, an entry the sink
\* accepted is held or has an outcome, it is dropped only after a failed
\* initialization or the end, and it is printed raw beside a live stdout that has
\* it only if the buffer overflowed (write, onInit, onRegistryReady, onShutdown).
THEOREM AcceptedComesOut == PrettyFanOutSpec => []AcceptedHasOneOutcome
<1>1. ASSUME DeliveryInv, FateOfSinkInv
      PROVE  AcceptedHasOneOutcome
  <2>1. /\ BufferType /\ PhaseInv /\ RawInv /\ AccountInv /\ DropInv
        /\ TypeOK
    BY <1>1 DEF FateOfSinkInv, SinkInv, DeliveryInv, LifecycleInv
  <2>2. ASSUME NEW e
        PROVE  /\ HeldNow(e) <=> e \in Pretty!Held
               /\ HasOutcome(e) => e \in Entries
               /\ e \in Entries => e \in Nat
    BY <2>1, EntriesAre DEF HeldNow, Pretty!Held, AccountInv, AcceptedByPretty
  <2>3. AcceptedByPretty = Pretty!Held \cup Pretty!Entries(Pretty!Outcomes)
    <3>1. ASSUME NEW e
          PROVE  e \in Pretty!Entries(Pretty!Outcomes) <=> HasOutcome(e)
      BY <2>1, <2>2, EntriesWith DEF HasOutcome
    <3>2. QED
      BY <2>1, <2>2, <3>1 DEF AccountInv
  <2>4. Pretty!Entries({"dropped"}) # {} => initFailed \/ stream = "ended"
    BY <2>1, EntriesWith DEF DropInv
  <2>5. NoDuplicateOnStdout
    <3>1. SUFFICES ASSUME NEW e \in Pretty!Entries({"raw"}), NEW d \in Healthy \ {PrettyDest},
                          Write[d] = {"returns"},
                          EffectiveLevel(d) <= EffectiveLevel(PrettyDest), initFailed,
                          ~bufferOverflowed
                   PROVE  FALSE
      BY <2>1 DEF NoDuplicateOnStdout, RawInv
    <3>2. RawSeen
      BY <2>1, EntriesWith DEF RawSeen
    <3>3. d \in Spared
      BY <3>1 DEF Spared
    <3>4. QED
      BY <2>1, <3>1, <3>2, <3>3 DEF RawInv
  <2>6. QED
    BY <2>3, <2>4, <2>5 DEF AcceptedHasOneOutcome, AcceptedIsAccountedFor, AcceptedByPretty
<1>2. QED
  BY <1>1, FateOfSinkInvariant, PTL
=============================================================================
