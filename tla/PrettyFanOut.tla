----------------------------- MODULE PrettyFanOut ----------------------------
(***************************************************************************)
(* A fan-out one of whose destinations is a PrettyDevDestination: the      *)
(* steps of DestinationFanOut that call the sink's methods carry their     *)
(* effect on the sink, and every other step leaves it alone.  The question *)
(* is what becomes of the entries it holds, which other sinks may have     *)
(* taken too.                                                              *)
(***************************************************************************)
EXTENDS DestinationFanOut

CONSTANTS
  PrettyDest,   \* which destination it is
  Production,   \* NODE_ENV is production
  MaxBuffered   \* how many entries it holds

\* onInit is async, write is not; the transform may throw from a write.
ASSUME PrettyFanOutAssumption ==
  /\ PrettyDest \in Dest
  /\ Hook[PrettyDest] = {"promise"}
  /\ Write[PrettyDest] \subseteq {"returns", "throws"}
  /\ Production \in BOOLEAN
  /\ MaxBuffered \in Nat

VARIABLES stream, initFailed, buffer, bufferedBytes, bufferOverflowed, resolved

prettyVars == <<stream, initFailed, buffer, bufferedBytes, bufferOverflowed, resolved>>

\* Entries have one size here and only their number is limited.
Pretty == INSTANCE PrettyDevDestination WITH
  MaxBytes  <- MaxBuffered,
  Sizes     <- {1},
  MaxWrites <- MaxEntries,
  phase     <- pc,
  written   <- Len(emitted)

-----------------------------------------------------------------------------

\* The steps of DestinationFanOut during which the sink is called.
PrettyInitCalled  == pc = "init" /\ idx = PrettyDest
PrettyInitPending == pc = "initWait" /\ idx = PrettyDest
PrettyReadyCalled == pc = "ready" /\ idx = PrettyDest
PrettyShutCalled  == pc = "shut" /\ idx > 0 /\ active[idx] = PrettyDest

\* The production check throws in the call, before the first await.
PrettyOnInit ==
  /\ PrettyInitCalled
  /\ OnInitPends
  /\ IF Production THEN Pretty!InitFails ELSE UNCHANGED prettyVars

\* The import resolves and the held entries are replayed.
PrettyOnInitBuilds ==
  /\ PrettyInitPending
  /\ ~Production
  /\ OnInitSettles
  /\ pc' = "initOk"
  /\ Pretty!InitSucceeds

\* The promise of onInit rejects.
PrettyOnInitRejects ==
  /\ PrettyInitPending
  /\ OnInitSettles
  /\ pc' = "initBad"
  /\ IF Production THEN UNCHANGED prettyVars ELSE Pretty!InitFails

\* Mutant: a destination that failed keeps what it holds.
PrettyOnRegistryReadyIfLive ==
  /\ PrettyReadyCalled
  /\ RegistryReadyCalled
  /\ IF IsFailed(PrettyDest)
     THEN UNCHANGED prettyVars
     ELSE Pretty!OnRegistryReady(DeliveredByHealthySink(PrettyDest, EffectiveLevel(PrettyDest)))

\* Mutant: any live sink counts, whatever its level.
PrettyOnRegistryReadyIfAnyLive ==
  /\ PrettyReadyCalled
  /\ RegistryReadyCalled
  /\ Pretty!OnRegistryReady(Healthy \ {PrettyDest} # {})

\* Mutant: what is held is always drained.
PrettyOnRegistryReadyDrains ==
  /\ PrettyReadyCalled
  /\ RegistryReadyCalled
  /\ Pretty!OnRegistryReady(FALSE)

PrettyOnRegistryReady ==
  /\ PrettyReadyCalled
  /\ RegistryReadyCalled
  /\ Pretty!OnRegistryReady(DeliveredByHealthySink(PrettyDest, EffectiveLevel(PrettyDest)))

PrettyOnShutdown ==
  /\ PrettyShutCalled
  /\ OnShutdownCalled
  /\ Pretty!OnShutdown

PrettyWrite(e) ==
  /\ WriteReturns(PrettyDest, e)
  /\ Pretty!WriteEntry(e, 1)

\* The transform throws; a write that does not reach it cannot.
PrettyWriteThrows(e) ==
  /\ stream # "none"
  /\ WriteThrows(PrettyDest, e)
  /\ UNCHANGED prettyVars

PrettyPassedOver(e) ==
  /\ Rescue(PrettyDest, e) \/ Skip(PrettyDest, e)
  /\ UNCHANGED prettyVars

OtherStreams ==
  /\ \E d \in Dest \ {PrettyDest} : \E e \in Entries : Chunk(d, e) \/ Settle(d, e)
  /\ UNCHANGED prettyVars

PrettyLog(level) == Log(level) /\ UNCHANGED prettyVars

OtherInit ==
  /\ ~PrettyInitCalled /\ ~PrettyInitPending
  /\ InitLoop
  /\ UNCHANGED prettyVars

OtherReady == ~PrettyReadyCalled /\ ReadyLoop /\ UNCHANGED prettyVars

OtherShutdown ==
  /\ ~PrettyShutCalled
  /\ Shutdown \/ ShutdownLoop \/ Terminated
  /\ UNCHANGED prettyVars

-----------------------------------------------------------------------------
PrettyFanOutInit == Init /\ Pretty!PrettyInit

PrettyStep ==
  \/ PrettyOnInit
  \/ PrettyOnInitBuilds
  \/ PrettyOnInitRejects
  \/ PrettyOnRegistryReady
  \/ PrettyOnShutdown

PrettyChunk == \E e \in Entries : PrettyWrite(e) \/ PrettyWriteThrows(e) \/ PrettyPassedOver(e)

PrettyFanOutNext ==
  \/ PrettyStep
  \/ PrettyChunk
  \/ OtherStreams
  \/ \E level \in AppLevels : PrettyLog(level)
  \/ OtherInit
  \/ OtherReady
  \/ OtherShutdown

fanOutVars == <<vars, prettyVars>>

PrettyFanOutSpec == PrettyFanOutInit /\ [][PrettyFanOutNext]_fanOutVars

\* Turns complete and the promises of hooks settle; nothing is assumed about the
\* promises of the other sinks' writes.
PrettyFairSpec ==
  /\ PrettyFanOutSpec
  /\ WF_fanOutVars(PrettyChunk)
  /\ WF_fanOutVars(PrettyStep \/ OtherInit \/ OtherReady)
  /\ \A d \in Dest \ {PrettyDest} :
       WF_fanOutVars((\E e \in Entries : Chunk(d, e)) /\ UNCHANGED prettyVars)

-----------------------------------------------------------------------------
(***************************************************************************)
(* Properties.                                                             *)
(***************************************************************************)

\* An entry the sink discarded is on another live sink (the point of
\* heldEntriesDeliveredElsewhere: discarding never loses an entry).
DiscardedIsElsewhere ==
  \A e \in Pretty!Entries({"discarded"}) :
    \E d \in Healthy \ {PrettyDest} : fate[d][e] = "accepted"

\* What the fan-out counts as accepted by the sink is held, shown or discarded;
\* it is dropped only if it arrived after its initialization failed or after it
\* was closed.
AcceptedIsAccountedFor ==
  /\ {e \in Entries : fate[PrettyDest][e] = "accepted"}
       = Pretty!Held \cup Pretty!Entries(Pretty!Outcomes)
  /\ Pretty!Entries({"dropped"}) # {} => initFailed \/ stream = "ended"

\* A live synchronous sink that never fails a write and takes every entry the
\* pretty sink takes, as stdout does, spares the duplicate: an entry it accepted
\* is printed raw only if the buffer overflowed ("every boot entry printed
\* twice", pretty-dev.destination.ts).
NoDuplicateOnStdout ==
  \A e \in Pretty!Entries({"raw"}) : \A d \in Healthy \ {PrettyDest} :
    /\ Write[d] = {"returns"}
    /\ EffectiveLevel(d) <= EffectiveLevel(PrettyDest)
    /\ initFailed
    => bufferOverflowed

\* What the sink accepts has one way out: it is not lost, and not printed where a
\* live stdout had it already.
AcceptedHasOneOutcome == AcceptedIsAccountedFor /\ NoDuplicateOnStdout

\* What the sink holds is eventually shown, or discarded, whatever its own and
\* the other sinks' initialization does.
HeldIsResolved ==
  \A e \in 1..MaxEntries :
    e \in Pretty!Held ~> e \in Pretty!Entries(Pretty!Outcomes)

-----------------------------------------------------------------------------
(***************************************************************************)
(* What the code's comments say and these runs refute.                     *)
(***************************************************************************)

\* "Dropping is safe because it is no longer the last word - DestinationHealth
\* covers the case where it would have meant silence (this sink being the only
\* one) by rescuing from the fan-out above" (onInit).
DroppingIsSafe ==
  N = 1 /\ stream # "ended" => Pretty!Entries({"dropped"}) = {}
=============================================================================
