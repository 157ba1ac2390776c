-------------------------- MODULE DestinationFanOut --------------------------
(***************************************************************************)
(* The write fan-out and the destination lifecycle around it.              *)
(*                                                                         *)
(* Every log entry is offered to one Writable per destination              *)
(* (utils/destination-to-stream.ts, wired by pino-factory.ts while NestJS  *)
(* assembles the DI graph); DestinationRegistry initializes the sinks one  *)
(* by one, tells each what became of its held entries, announces the       *)
(* bootstrap, and at shutdown closes the live ones in reverse order        *)
(* (services/destination-registry.service.ts).  Application code logs at   *)
(* any time: before, between and after these steps.                        *)
(*                                                                         *)
(* JavaScript runs each turn to completion.  What the code does without an *)
(* await is one turn: here either one step, or a run of steps during which *)
(* no new turn may begin (the predicate Idle).                             *)
(***************************************************************************)
EXTENDS DestinationHealth, Sequences, FiniteSets

CONSTANTS
  Hook,      \* how each destination's onInit / onShutdown may behave
  Write,     \* how each destination's write may behave
  Warnings,  \* how many LOGGER_BOOTSTRAP_WARNING entries the options call for
  MaxApp,    \* bound: how many entries the application logs
  AppLevels  \* the levels it logs them at

\* "returns" stands for an absent hook too: both are awaited as undefined.
Behaviours == {"returns", "throws", "promise"}

ASSUME FanOutAssumption ==
  /\ Hook \in [Dest -> (SUBSET Behaviours) \ {{}}]
  /\ Write \in [Dest -> (SUBSET Behaviours) \ {{}}]
  /\ Warnings \in 0..2
  /\ MaxApp \in Nat
  /\ AppLevels \subseteq Levels

VARIABLES
  emitted,   \* entries that passed Pino's instance level, in order
  fate,      \* what became of each entry at each destination
  pc,        \* where the registry is
  idx,       \* its loop index
  active,    \* DestinationRegistry.active
  vouched,   \* history: entries each readiness flag vouched for
  closing    \* history: destinations whose onShutdown was called, in order

streamVars   == <<emitted, fate>>
registryVars == <<pc, idx, active, vouched, closing>>
vars == <<healthVars, streamVars, registryVars>>

Settled == {"accepted", "dropped", "skipped", "rescued"}
Fates   == {"filtered", "queued", "writing"} \cup Settled
Origins == {"app", "boot", "shutdown"}
Phases  == {"building", "init", "initWait", "initOk", "initBad", "ready",
            "readyWait", "readyDone", "announce", "up", "tick", "shut",
            "shutWait", "down"}

Entries == DOMAIN emitted

-----------------------------------------------------------------------------
(***************************************************************************)
(* The fan-out.                                                            *)
(***************************************************************************)

\* The level of the destination's multistream entry.
StreamLevel(d) == IF MinLevel[d] = Absent THEN ModuleLevel ELSE MinLevel[d]

\* Pino's instance level first, then the multistream's per-stream level.
Passes(d, level) == level >= ModuleLevel /\ level >= StreamLevel(d)

\* Mutant: a stream that does not take the entry loses its place in the order.
EmitToTakers(level, by) ==
  IF level >= ModuleLevel
  THEN /\ emitted' = Append(emitted, [level |-> level, by |-> by])
       /\ fate' = [d \in Dest |->
            IF Passes(d, level) THEN Append(fate[d], "queued") ELSE fate[d]]
  ELSE UNCHANGED streamVars

\* One log call: each stream that takes the entry queues it in its Writable.
Emit(level, by) ==
  IF level >= ModuleLevel
  THEN /\ emitted' = Append(emitted, [level |-> level, by |-> by])
       /\ fate' = [d \in Dest |->
            Append(fate[d], IF Passes(d, level) THEN "queued" ELSE "filtered")]
  ELSE UNCHANGED streamVars

Writing(d) == \E e \in Entries : fate[d][e] = "writing"

\* Mutant: the callback is invoked without waiting for the promise.
NextChunkWithoutWaiting(d, e) ==
  /\ fate[d][e] = "queued"
  /\ \A f \in 1..(e - 1) : fate[d][f] # "queued"

\* The chunk the Writable hands to _write next: the oldest one queued, once the
\* callback of the chunk before it was invoked.
NextChunk(d, e) ==
  /\ fate[d][e] = "queued"
  /\ \A f \in 1..(e - 1) : fate[d][f] # "queued"
  /\ ~Writing(d)

Becomes(d, e, result) == fate' = [fate EXCEPT ![d][e] = result]

\* Every Writable that still holds chunks is waiting for a callback: none could
\* hand one on without a new turn.
Quiet == \A d \in Dest : \A e \in Entries : fate[d][e] = "queued" => Writing(d)

\* Registry code that follows in the same turn.
Urgent == pc \in {"init", "ready", "announce", "shut"}

Idle == Quiet /\ ~Urgent

\* The entry goes to stdout as raw NDJSON.
Rescue(d, e) ==
  /\ NextChunk(d, e)
  /\ IsFailed(d)
  /\ ShouldRescue(d)
  /\ Becomes(d, e, "rescued")
  /\ UNCHANGED <<emitted, healthVars, registryVars>>

Skip(d, e) ==
  /\ NextChunk(d, e)
  /\ IsFailed(d)
  /\ ~ShouldRescue(d)
  /\ Becomes(d, e, "skipped")
  /\ UNCHANGED <<emitted, healthVars, registryVars>>

WriteReturns(d, e) ==
  /\ NextChunk(d, e)
  /\ ~IsFailed(d)
  /\ "returns" \in Write[d]
  /\ Becomes(d, e, "accepted")
  /\ UNCHANGED <<emitted, healthVars, registryVars>>

\* Reported on stderr and dropped for this destination only.
WriteThrows(d, e) ==
  /\ NextChunk(d, e)
  /\ ~IsFailed(d)
  /\ "throws" \in Write[d]
  /\ MarkWriteFailed(d)
  /\ Becomes(d, e, "dropped")
  /\ UNCHANGED <<failed, healthy, pendingWrites, rescuer, rescuerLevel>>
  /\ UNCHANGED <<emitted, registryVars>>

WriteBegins(d, e) ==
  /\ NextChunk(d, e)
  /\ ~IsFailed(d)
  /\ "promise" \in Write[d]
  /\ MarkWritePending(d)
  /\ Becomes(d, e, "writing")
  /\ UNCHANGED <<failed, healthy, writeFailed, rescuer, rescuerLevel>>
  /\ UNCHANGED <<emitted, registryVars>>

WriteFulfilled(d, e) ==
  /\ Idle
  /\ fate[d][e] = "writing"
  /\ MarkWriteSettled(d)
  /\ Becomes(d, e, "accepted")
  /\ UNCHANGED <<failed, healthy, writeFailed, rescuer, rescuerLevel>>
  /\ UNCHANGED <<emitted, registryVars>>

\* Mutant: the counter is only decremented on success.
WriteRejectedStillPending(d, e) ==
  /\ Idle
  /\ fate[d][e] = "writing"
  /\ MarkWriteFailed(d)
  /\ Becomes(d, e, "dropped")
  /\ UNCHANGED <<failed, healthy, pendingWrites, rescuer, rescuerLevel>>
  /\ UNCHANGED <<emitted, registryVars>>

WriteRejected(d, e) ==
  /\ Idle
  /\ fate[d][e] = "writing"
  /\ MarkWriteSettled(d)
  /\ MarkWriteFailed(d)
  /\ Becomes(d, e, "dropped")
  /\ UNCHANGED <<failed, healthy, rescuer, rescuerLevel>>
  /\ UNCHANGED <<emitted, registryVars>>

Chunk(d, e) ==
  \/ Rescue(d, e)
  \/ Skip(d, e)
  \/ WriteReturns(d, e)
  \/ WriteThrows(d, e)
  \/ WriteBegins(d, e)

\* Mutant: the callback is forgotten once the destination has failed.
SettleUnlessFailed(d, e) ==
  ~IsFailed(d) /\ (WriteFulfilled(d, e) \/ WriteRejected(d, e))

Settle(d, e) == WriteFulfilled(d, e) \/ WriteRejected(d, e)

-----------------------------------------------------------------------------
(***************************************************************************)
(* The application.                                                        *)
(***************************************************************************)

AppEntries == {e \in Entries : emitted[e].by = "app"}

Log(level) ==
  /\ Idle
  /\ Cardinality(AppEntries) < MaxApp
  /\ level >= ModuleLevel
  /\ Emit(level, "app")
  /\ UNCHANGED <<healthVars, registryVars>>

-----------------------------------------------------------------------------
(***************************************************************************)
(* DestinationRegistry.onModuleInit: the init loop.                        *)
(***************************************************************************)

\* The registry moves; streams, and the rest of its state, do not.
Goto(phase, i) ==
  /\ pc' = phase
  /\ idx' = i

ModuleInit ==
  /\ Idle
  /\ pc = "building"
  /\ Goto("init", 1)
  /\ UNCHANGED <<healthVars, streamVars, active, vouched, closing>>

\* The rest of the loop after destination idx, up to the next await.
NextDestination ==
  IF idx < N THEN Goto("init", idx + 1) ELSE Goto("ready", 1)

MarkFailedAndGoOn ==
  /\ MarkFailed(idx, EffectiveLevel(idx))
  /\ NextDestination
  /\ UNCHANGED <<healthy, writeFailed, pendingWrites>>
  /\ UNCHANGED <<streamVars, active, vouched, closing>>

\* An absent hook or an undefined result: the await yields one microtask.
OnInitReturns ==
  /\ pc = "init"
  /\ Quiet
  /\ "returns" \in Hook[idx]
  /\ Goto("initOk", idx)
  /\ UNCHANGED <<healthVars, streamVars, active, vouched, closing>>

\* Caught in the same turn.
OnInitThrows ==
  /\ pc = "init"
  /\ Quiet
  /\ "throws" \in Hook[idx]
  /\ MarkFailedAndGoOn

OnInitPends ==
  /\ pc = "init"
  /\ Quiet
  /\ "promise" \in Hook[idx]
  /\ Goto("initWait", idx)
  /\ UNCHANGED <<healthVars, streamVars, active, vouched, closing>>

\* The promise settles; the registry's continuation is a later turn.
OnInitSettles ==
  /\ Idle
  /\ pc = "initWait"
  /\ \E outcome \in {"initOk", "initBad"} : Goto(outcome, idx)
  /\ UNCHANGED <<healthVars, streamVars, active, vouched, closing>>

\* Mutant: the health record is not written alongside the active list.
InitSucceededUnrecorded ==
  /\ Idle
  /\ pc = "initOk"
  /\ active' = Append(active, idx)
  /\ NextDestination
  /\ UNCHANGED <<healthVars, streamVars, vouched, closing>>

InitSucceeded ==
  /\ Idle
  /\ pc = "initOk"
  /\ active' = Append(active, idx)
  /\ MarkHealthy(idx, EffectiveLevel(idx))
  /\ NextDestination
  /\ UNCHANGED <<failed, writeFailed, pendingWrites, rescuer, rescuerLevel>>
  /\ UNCHANGED <<streamVars, vouched, closing>>

InitFailed ==
  /\ Idle
  /\ pc = "initBad"
  /\ MarkFailedAndGoOn

-----------------------------------------------------------------------------
(***************************************************************************)
(* notifyRegistryReady: every destination, live or failed, is told whether *)
(* the entries it may be holding were delivered elsewhere.                 *)
(***************************************************************************)

\* What destination d accepted so far.
Offered(d) == {e \in Entries : fate[d][e] # "filtered"}

RegistryReadyHook(d) ==
  vouched' = [vouched EXCEPT ![d] =
    IF DeliveredByHealthySink(d, EffectiveLevel(d)) THEN Offered(d) ELSE {}]

\* The hook throws: reported, and the loop goes on in the same turn.
RegistryReadyThrows ==
  /\ pc = "ready"
  /\ Quiet
  /\ "throws" \in Hook[idx]
  /\ RegistryReadyHook(idx)
  /\ IF idx < N THEN Goto("ready", idx + 1) ELSE Goto("readyDone", idx)
  /\ UNCHANGED <<healthVars, streamVars, active, closing>>

\* Any other hook is awaited, whether it returns or leaves a promise.
RegistryReadyCalled ==
  /\ pc = "ready"
  /\ Quiet
  /\ Hook[idx] # {"throws"}
  /\ RegistryReadyHook(idx)
  /\ Goto("readyWait", idx)
  /\ UNCHANGED <<healthVars, streamVars, active, closing>>

\* Mutant: a failed destination's hook is awaited again until it comes up.
RegistryReadyAwaitedAgain ==
  /\ Idle
  /\ pc = "readyWait"
  /\ IF IsFailed(idx) THEN Goto("ready", idx)
     ELSE IF idx < N THEN Goto("ready", idx + 1) ELSE Goto("readyDone", idx)
  /\ UNCHANGED <<healthVars, streamVars, active, vouched, closing>>

RegistryReadyAwaited ==
  /\ Idle
  /\ pc = "readyWait"
  /\ IF idx < N THEN Goto("ready", idx + 1) ELSE Goto("readyDone", idx)
  /\ UNCHANGED <<healthVars, streamVars, active, vouched, closing>>

-----------------------------------------------------------------------------
(***************************************************************************)
(* announceBootstrap: one info entry, then the warnings, in one turn.      *)
(***************************************************************************)

AnnounceBootstrap ==
  /\ Idle
  /\ pc = "readyDone"
  /\ Emit(Info, "boot")
  /\ Goto("announce", 1)
  /\ UNCHANGED <<healthVars, active, vouched, closing>>

AnnounceWarning ==
  /\ pc = "announce"
  /\ Quiet
  /\ IF idx <= Warnings
     THEN Emit(Warn, "boot") /\ Goto("announce", idx + 1)
     ELSE UNCHANGED streamVars /\ Goto("up", 0)
  /\ UNCHANGED <<healthVars, active, vouched, closing>>

-----------------------------------------------------------------------------
(***************************************************************************)
(* onApplicationShutdown.  NestJS calls it after initialization completed. *)
(***************************************************************************)

Shutdown ==
  /\ Idle
  /\ pc = "up"
  /\ Emit(Info, "shutdown")
  /\ Goto("tick", 0)
  /\ UNCHANGED <<healthVars, active, vouched, closing>>

\* setImmediate fired; the loop walks a reversed copy of the active list.
ShutdownTick ==
  /\ Idle
  /\ pc = "tick"
  /\ Goto("shut", Len(active))
  /\ UNCHANGED <<healthVars, streamVars, active, vouched, closing>>

\* Mutant: one failing sink aborts the teardown of those behind it.
OnShutdownThrowsOut ==
  /\ pc = "shut"
  /\ Quiet
  /\ idx > 0
  /\ "throws" \in Hook[active[idx]]
  /\ closing' = Append(closing, active[idx])
  /\ Goto("down", 0)
  /\ UNCHANGED <<healthVars, streamVars, active, vouched>>

OnShutdownThrows ==
  /\ pc = "shut"
  /\ Quiet
  /\ idx > 0
  /\ "throws" \in Hook[active[idx]]
  /\ closing' = Append(closing, active[idx])
  /\ Goto("shut", idx - 1)
  /\ UNCHANGED <<healthVars, streamVars, active, vouched>>

OnShutdownCalled ==
  /\ pc = "shut"
  /\ Quiet
  /\ idx > 0
  /\ Hook[active[idx]] # {"throws"}
  /\ closing' = Append(closing, active[idx])
  /\ Goto("shutWait", idx)
  /\ UNCHANGED <<healthVars, streamVars, active, vouched>>

\* Fulfilled, or rejected and reported on stderr: either way the loop goes on.
OnShutdownAwaited ==
  /\ Idle
  /\ pc = "shutWait"
  /\ Goto("shut", idx - 1)
  /\ UNCHANGED <<healthVars, streamVars, active, vouched, closing>>

ShutdownComplete ==
  /\ pc = "shut"
  /\ Quiet
  /\ idx = 0
  /\ Goto("down", 0)
  /\ UNCHANGED <<healthVars, streamVars, active, vouched, closing>>

-----------------------------------------------------------------------------
Init ==
  /\ HealthInit
  /\ emitted = <<>>
  /\ fate = [d \in Dest |-> <<>>]
  /\ pc = "building"
  /\ idx = 0
  /\ active = <<>>
  /\ vouched = [d \in Dest |-> {}]
  /\ closing = <<>>

InitLoop ==
  \/ ModuleInit
  \/ OnInitReturns
  \/ OnInitThrows
  \/ OnInitPends
  \/ OnInitSettles
  \/ InitSucceeded
  \/ InitFailed

ReadyLoop ==
  \/ RegistryReadyThrows
  \/ RegistryReadyCalled
  \/ RegistryReadyAwaited
  \/ AnnounceBootstrap
  \/ AnnounceWarning

ShutdownLoop ==
  \/ ShutdownTick
  \/ OnShutdownThrows
  \/ OnShutdownCalled
  \/ OnShutdownAwaited
  \/ ShutdownComplete

Streams == \E d \in Dest : \E e \in Entries : Chunk(d, e) \/ Settle(d, e)

\* The process may exit once the application is down.
Terminated ==
  /\ pc = "down"
  /\ Idle
  /\ UNCHANGED vars

Next ==
  \/ Streams
  \/ \E level \in AppLevels : Log(level)
  \/ InitLoop
  \/ ReadyLoop
  \/ Shutdown
  \/ ShutdownLoop
  \/ Terminated

Spec == Init /\ [][Next]_vars

(***************************************************************************)
(* A turn runs to completion: what is queued in an idle Writable is handed *)
(* on, and the registry's own microtasks run.  That the promises of the    *)
(* sinks settle is an assumption on the consumer's code, which             *)
(* ILogDestination requires to be non-blocking.                            *)
(***************************************************************************)
TurnsComplete ==
  /\ \A d \in Dest : WF_vars(\E e \in Entries : Chunk(d, e))
  /\ WF_vars(InitLoop \/ ReadyLoop)
  /\ WF_vars(ShutdownLoop)

WritesSettle == \A d \in Dest : WF_vars(\E e \in Entries : Settle(d, e))

FairSpec == Spec /\ TurnsComplete /\ WritesSettle

-----------------------------------------------------------------------------
(***************************************************************************)
(* Properties.                                                             *)
(***************************************************************************)

\* Every variable keeps its type, and each stream has one fate per entry.
TypeOK ==
  /\ HealthTypeOK
  /\ emitted \in Seq([level : Levels, by : Origins])
  /\ fate \in [Dest -> Seq(Fates)]
  /\ \A d \in Dest : Len(fate[d]) = Len(emitted)
  /\ pc \in Phases
  /\ idx \in Nat
  /\ active \in Seq(Dest)
  /\ vouched \in [Dest -> SUBSET Nat]
  /\ closing \in Seq(Dest)

\* The destinations whose onInit was settled and handled by the registry.
Resolved ==
  CASE pc = "building" -> {}
    [] pc \in {"init", "initWait", "initOk", "initBad"} -> 1..(idx - 1)
    [] OTHER -> Dest

\* The registry's active list (used for shutdown) and the health record (used
\* by the fan-out) agree: each destination the loop is done with is live or
\* failed, never both, and the active list holds the live ones in registration
\* order (destination-registry.service.ts, "kept in step here").
ActiveMatchesHealth ==
  /\ failed \cap Healthy = {}
  /\ failed \cup Healthy = Resolved
  /\ Healthy = {active[i] : i \in DOMAIN active}
  /\ \A i, j \in DOMAIN active : i < j => active[i] < active[j]

\* The rescuer is the failed destination with the lowest effective level, the
\* first registered among equals, whatever the order failures happened in
\* (markFailed).
RescuerIsFirstOfTheLowest ==
  \/ failed = {} /\ rescuer = NoDestination
  \/ /\ rescuer \in failed
     /\ rescuerLevel = EffectiveLevel(rescuer)
     /\ \A d \in failed :
          \/ EffectiveLevel(rescuer) < EffectiveLevel(d)
          \/ EffectiveLevel(rescuer) = EffectiveLevel(d) /\ rescuer <= d

\* The counter of pending writes is exact: a destination is unproven precisely
\* while its one in-flight write has not settled, however it settles
\* (markWritePending / markWriteSettled in destinationToStream).
PendingCountsInFlight ==
  \A d \in Dest :
    /\ pendingWrites[d] \in 0..1
    /\ pendingWrites[d] = 1 <=> Writing(d)

\* The two records the fan-out decides by are exact at every step: who is live,
\* which the registry keeps, and who has a write pending, which the streams keep.
RecordsAreExact == ActiveMatchesHealth /\ PendingCountsInFlight

\* When every destination failed to initialize, no entry any of them was
\* configured to receive disappears: the rescuer was handed it before it
\* failed, prints it on stdout, or still has it queued.
TotalFailureIsNotSilent ==
  failed = Dest =>
    \A e \in Entries :
      (\E d \in Dest : fate[d][e] # "filtered")
        => fate[rescuer][e] \notin {"filtered", "skipped"}

\* heldEntriesDeliveredElsewhere is never wrong about what was logged so far:
\* each entry it vouches for was accepted by a live sink other than the asker.
\* In particular no entry it vouches for is still queued in a Writable.
ReadinessVouchesDelivery ==
  \A p \in Dest : \A e \in vouched[p] :
    \E d \in Healthy \ {p} : fate[d][e] = "accepted"

\* From the bootstrap entry on, an entry is rescued by at most one of the failed
\* destinations, and only if nothing is live (shouldRescue).
RescuedOnceAfterBoot ==
  \A e \in Entries : \A d1, d2 \in Dest :
    /\ \E b \in 1..e : emitted[b].by = "boot"
    /\ fate[d1][e] = "rescued"
    /\ fate[d2][e] = "rescued"
    => d1 = d2

\* Shutdown reaches every live destination exactly once, last registered first,
\* whichever of them fail to close (onApplicationShutdown).
ReverseOrderShutdown ==
  /\ \A i \in DOMAIN closing : closing[i] = active[Len(active) + 1 - i]
  /\ pc = "down" => Len(closing) = Len(active)

\* A sink that never returns a promise has been handed the shutdown entry by
\* the time its onShutdown is called, if its level takes the entry.
FarewellBeforeClose ==
  ModuleLevel <= Info =>
    \A i \in DOMAIN closing :
      Passes(closing[i], Info) /\ "promise" \notin Write[closing[i]] =>
        \E e \in Entries :
          emitted[e].by = "shutdown" /\ fate[closing[i]][e] \in {"accepted", "dropped"}

\* Teardown is orderly: nobody is forgotten or closed early, and who is closed has
\* been told (onApplicationShutdown).
TeardownIsOrderly == ReverseOrderShutdown /\ FarewellBeforeClose

\* Bound on the entries of a run: the application's, the bootstrap entry and its
\* warnings, the shutdown entry.
MaxEntries == MaxApp + 2 + Warnings

\* Every entry a destination's stream took is eventually written, reported as
\* dropped, skipped or rescued.
EveryEntrySettles ==
  \A d \in Dest : \A e \in 1..MaxEntries :
    (e \in Entries /\ fate[d][e] # "filtered") ~> (e \in Entries /\ fate[d][e] \in Settled)

\* Initialization completes whatever the destinations' hooks do, as long as
\* their promises settle, and a shutdown, once begun, completes.
LifecycleCompletes ==
  /\ (pc = "init") ~> (pc = "up")
  /\ (pc = "tick") ~> (pc = "down")

-----------------------------------------------------------------------------
(***************************************************************************)
(* The fan-out implements EntryDelivery: an entry queued or being written  *)
(* is pending, a destination is live or dead once the health record says.  *)
(***************************************************************************)
ResultOf(f) ==
  CASE f = "filtered" -> "notTaken"
    [] f \in {"queued", "writing"} -> "pending"
    [] OTHER -> f

Promise == INSTANCE EntryDelivery WITH
  Dest <- Dest,
  result <- [d \in Dest |-> [e \in Entries |-> ResultOf(fate[d][e])]],
  live <- Healthy,
  dead <- failed

\* In every run each destination settles what it takes once, in logging order,
\* passes over entries only when dead, and lets stdout stand in only while no
\* destination is live; and it eventually settles everything it takes.
ImplementsEntryDelivery == Promise!FairSpec
=============================================================================
