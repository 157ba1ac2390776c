----------------------- MODULE DestinationFanOutProofs -----------------------
(***************************************************************************)
(* Proofs about DestinationFanOut, for any number of destinations and      *)
(* entries, any levels and any behaviour of their hooks and writes: first  *)
(* the registry and its records, then what becomes of each entry (pending  *)
(* writes are counted exactly, a total failure is not silent, readiness    *)
(* vouches only for what another live sink accepted).                      *)
(***************************************************************************)
EXTENDS DestinationFanOut, TLAPS

USE HealthAssumption, FanOutAssumption

(***************************************************************************)
(* The level the registry records for a destination is exactly the level   *)
(* from which its stream takes entries: the arithmetic of effectiveLevelOf *)
(* agrees with Pino's two filters.                                         *)
(***************************************************************************)
LEMMA FilterAgrees ==
  \A d \in Dest : \A level \in Levels : Passes(d, level) <=> level >= EffectiveLevel(d)
  BY DEF Passes, StreamLevel, EffectiveLevel, Levels, Absent, Dest

LEMMA EffectiveLevelType == \A d \in Dest : EffectiveLevel(d) \in Levels
  BY DEF EffectiveLevel, Levels, Absent, Dest

LEMMA EntriesAre == TypeOK => Entries = 1..Len(emitted) /\ Len(emitted) \in Nat
  BY DEF TypeOK, Entries

-----------------------------------------------------------------------------
(***************************************************************************)
(* Type correctness.                                                       *)
(***************************************************************************)

\* Emitting one entry keeps the types of the streams.
LEMMA EmitType ==
  ASSUME TypeOK, NEW level \in Levels, NEW by \in Origins, Emit(level, by)
  PROVE  /\ emitted' \in Seq([level : Levels, by : Origins])
         /\ fate' \in [Dest -> Seq(Fates)]
         /\ \A d \in Dest : Len(fate'[d]) = Len(emitted')
<1>1. CASE level >= ModuleLevel
  <2>1. emitted' = Append(emitted, [level |-> level, by |-> by])
    BY <1>1 DEF Emit
  <2>2. \A d \in Dest : fate'[d] = Append(fate[d], IF Passes(d, level) THEN "queued" ELSE "filtered")
    BY <1>1 DEF Emit
  <2>3. fate' = [d \in Dest |-> Append(fate[d], IF Passes(d, level) THEN "queued" ELSE "filtered")]
    BY <1>1 DEF Emit
  <2>4. \A d \in Dest : (IF Passes(d, level) THEN "queued" ELSE "filtered") \in Fates
    BY DEF Fates, Settled
  <2>5. ASSUME NEW d \in Dest
        PROVE  fate'[d] \in Seq(Fates) /\ Len(fate'[d]) = Len(fate[d]) + 1
    <3>1. PICK v \in Fates : fate'[d] = Append(fate[d], v)
      BY <2>2, <2>4
    <3>2. fate[d] \in Seq(Fates)
      BY DEF TypeOK
    <3>3. QED
      BY <3>1, <3>2
  <2>6. Len(emitted') = Len(emitted) + 1 /\ emitted' \in Seq([level : Levels, by : Origins])
    BY <2>1 DEF TypeOK
  <2>7. QED
    BY <2>3, <2>5, <2>6 DEF TypeOK
<1>2. CASE ~(level >= ModuleLevel)
  BY <1>2 DEF Emit, streamVars, TypeOK
<1>3. QED
  BY <1>1, <1>2

\* So does deciding the fate of one entry at one destination.
LEMMA BecomesType ==
  ASSUME TypeOK, NEW d \in Dest, NEW e \in Entries, NEW r \in Fates, Becomes(d, e, r)
  PROVE  /\ fate' \in [Dest -> Seq(Fates)]
         /\ \A c \in Dest : Len(fate'[c]) = Len(fate[c])
         /\ \A c \in Dest : \A f \in Entries :
              fate'[c][f] = IF c = d /\ f = e THEN r ELSE fate[c][f]
<1>1. fate' = [fate EXCEPT ![d] = [fate[d] EXCEPT ![e] = r]]
  BY DEF Becomes
<1>2. fate[d] \in Seq(Fates) /\ e \in 1..Len(fate[d])
  BY EntriesAre DEF TypeOK
<1>3. /\ [fate[d] EXCEPT ![e] = r] \in Seq(Fates)
      /\ Len([fate[d] EXCEPT ![e] = r]) = Len(fate[d])
  BY <1>2
<1>4. \A c \in Dest : fate'[c] = IF c = d THEN [fate[d] EXCEPT ![e] = r] ELSE fate[c]
  BY <1>1 DEF TypeOK
<1>5. fate' \in [Dest -> Seq(Fates)]
  BY <1>1, <1>3 DEF TypeOK
<1>6. \A f \in Entries : f \in DOMAIN fate[d]
  BY EntriesAre DEF TypeOK
<1>7. QED
  BY <1>3, <1>4, <1>5, <1>6

LEMMA InitType == Init => TypeOK
  BY DEF Init, TypeOK, HealthInit, HealthTypeOK, Dest, Levels, Absent, NoDestination,
         Infinity, Phases

\* Steps of a stream: one fate changes, the health record keeps its type.
LEMMA StreamType ==
  ASSUME TypeOK, NEW d \in Dest, NEW e \in Entries, Chunk(d, e) \/ Settle(d, e)
  PROVE  TypeOK'
<1> USE DEF HealthTypeOK
<1>1. /\ UNCHANGED <<emitted, registryVars>>
      /\ UNCHANGED <<failed, healthy, rescuer, rescuerLevel>>
  BY DEF Chunk, Settle, Rescue, Skip, WriteReturns, WriteThrows, WriteBegins,
         WriteFulfilled, WriteRejected, healthVars
<1>2. writeFailed' \subseteq Dest /\ pendingWrites' \in [Dest -> Int]
  BY DEF Chunk, Settle, Rescue, Skip, WriteReturns, WriteThrows, WriteBegins,
         WriteFulfilled, WriteRejected, healthVars, TypeOK,
         MarkWriteFailed, MarkWritePending, MarkWriteSettled
<1>3. PICK r \in Fates : Becomes(d, e, r)
  BY DEF Chunk, Settle, Rescue, Skip, WriteReturns, WriteThrows, WriteBegins,
         WriteFulfilled, WriteRejected, Fates, Settled
<1>4. /\ fate' \in [Dest -> Seq(Fates)]
      /\ \A c \in Dest : Len(fate'[c]) = Len(fate[c])
  BY <1>3, BecomesType
<1>5. QED
  BY <1>1, <1>2, <1>4 DEF TypeOK, registryVars

LEMMA LogType ==
  ASSUME TypeOK, NEW level \in AppLevels, Log(level)
  PROVE  TypeOK'
<1>1. level \in Levels /\ "app" \in Origins
  BY DEF Origins
<1>2. UNCHANGED <<healthVars, registryVars>> /\ Emit(level, "app")
  BY DEF Log
<1>3. QED
  BY <1>1, <1>2, EmitType DEF TypeOK, HealthTypeOK, healthVars, registryVars

LEMMA MarkFailedType ==
  ASSUME TypeOK, idx \in Dest, MarkFailedAndGoOn
  PROVE  TypeOK'
<1>1. HealthTypeOK'
  BY EffectiveLevelType DEF TypeOK, HealthTypeOK, MarkFailedAndGoOn, MarkFailed
<1>2. pc' \in Phases /\ idx' \in Nat
  BY DEF TypeOK, MarkFailedAndGoOn, NextDestination, Goto, Phases
<1>3. QED
  BY <1>1, <1>2 DEF TypeOK, MarkFailedAndGoOn, streamVars

(***************************************************************************)
(* The loop index is where the phase says it is.                           *)
(***************************************************************************)
IndexInv ==
  /\ pc \in {"init", "initWait", "initOk", "initBad", "ready", "readyWait"} => idx \in Dest
  /\ pc = "shut" => idx \in 0..Len(active)
  /\ pc = "shutWait" => idx \in 1..Len(active)

LEMMA InitLoopType ==
  ASSUME TypeOK, IndexInv, InitLoop
  PROVE  TypeOK'
<1> USE DEF TypeOK, HealthTypeOK, Goto, healthVars, streamVars, registryVars, Phases
<1>1. CASE ModuleInit
  BY <1>1 DEF ModuleInit
<1>2. CASE OnInitReturns
  BY <1>2 DEF OnInitReturns
<1>3. CASE OnInitThrows
  BY <1>3, MarkFailedType DEF OnInitThrows, IndexInv
<1>4. CASE OnInitPends
  BY <1>4 DEF OnInitPends
<1>5. CASE OnInitSettles
  BY <1>5 DEF OnInitSettles
<1>6. CASE InitSucceeded
  <2>1. idx \in Dest
    BY <1>6 DEF InitSucceeded, IndexInv
  <2>2. healthy' \in [Dest -> Levels \cup {Absent}]
    BY <1>6, EffectiveLevelType DEF InitSucceeded, MarkHealthy
  <2>3. active' \in Seq(Dest)
    BY <1>6, <2>1 DEF InitSucceeded
  <2>4. pc' \in Phases /\ idx' \in Nat
    BY <1>6 DEF InitSucceeded, NextDestination
  <2>5. QED
    BY <1>6, <2>2, <2>3, <2>4 DEF InitSucceeded
<1>7. CASE InitFailed
  BY <1>7, MarkFailedType DEF InitFailed, IndexInv
<1>8. QED
  BY <1>1, <1>2, <1>3, <1>4, <1>5, <1>6, <1>7 DEF InitLoop

LEMMA ReadyHookType ==
  ASSUME TypeOK, RegistryReadyHook(idx)
  PROVE  vouched' \in [Dest -> SUBSET Nat]
<1>1. Offered(idx) \subseteq Nat
  BY EntriesAre DEF Offered
<1>2. \E held \in SUBSET Nat : vouched' = [vouched EXCEPT ![idx] = held]
  BY <1>1 DEF RegistryReadyHook
<1>3. QED
  BY <1>2 DEF TypeOK

LEMMA ReadyLoopType ==
  ASSUME TypeOK, IndexInv, ReadyLoop
  PROVE  TypeOK'
<1>1. CASE RegistryReadyThrows
  BY <1>1, ReadyHookType DEF RegistryReadyThrows, TypeOK, HealthTypeOK, Goto,
     healthVars, streamVars, Phases
<1>2. CASE RegistryReadyCalled
  BY <1>2, ReadyHookType DEF RegistryReadyCalled, TypeOK, HealthTypeOK, Goto,
     healthVars, streamVars, Phases
<1>3. CASE RegistryReadyAwaited
  BY <1>3 DEF RegistryReadyAwaited, TypeOK, HealthTypeOK, Goto, healthVars, streamVars,
     Phases
<1>4. CASE AnnounceBootstrap
  <2>1. Emit(Info, "boot") /\ Info \in Levels /\ "boot" \in Origins
    BY <1>4 DEF AnnounceBootstrap, Info, Levels, Origins
  <2>2. QED
    BY <1>4, <2>1, EmitType DEF AnnounceBootstrap, TypeOK, HealthTypeOK, Goto, healthVars,
       Phases
<1>5. CASE AnnounceWarning
  <2>1. CASE idx <= Warnings
    <3>1. Emit(Warn, "boot") /\ Warn \in Levels /\ "boot" \in Origins
      BY <1>5, <2>1 DEF AnnounceWarning, Warn, Levels, Origins
    <3>2. /\ emitted' \in Seq([level : Levels, by : Origins])
          /\ fate' \in [Dest -> Seq(Fates)]
          /\ \A d \in Dest : Len(fate'[d]) = Len(emitted')
      BY <3>1, EmitType
    <3>3. /\ pc' = "announce" /\ idx' = idx + 1
          /\ UNCHANGED <<healthVars, active, vouched, closing>>
      BY <1>5, <2>1 DEF AnnounceWarning, Goto
    <3>4. QED
      BY <3>2, <3>3 DEF TypeOK, HealthTypeOK, healthVars, Phases
  <2>2. CASE ~(idx <= Warnings)
    BY <1>5, <2>2 DEF AnnounceWarning, TypeOK, HealthTypeOK, Goto, healthVars, streamVars,
       Phases
  <2>3. QED
    BY <2>1, <2>2
<1>6. QED
  BY <1>1, <1>2, <1>3, <1>4, <1>5 DEF ReadyLoop

LEMMA ShutdownType ==
  ASSUME TypeOK, IndexInv, Shutdown \/ ShutdownLoop
  PROVE  TypeOK'
<1>1. CASE Shutdown
  <2>1. Emit(Info, "shutdown") /\ Info \in Levels /\ "shutdown" \in Origins
    BY <1>1 DEF Shutdown, Info, Levels, Origins
  <2>2. QED
    BY <1>1, <2>1, EmitType DEF Shutdown, TypeOK, HealthTypeOK, Goto, healthVars, Phases
<1>2. CASE ShutdownLoop
  <2> USE DEF TypeOK, HealthTypeOK, Goto, healthVars, streamVars, Phases
  <2>1. CASE ShutdownTick
    BY <2>1 DEF ShutdownTick
  <2>2. CASE OnShutdownThrows
    BY <2>2 DEF OnShutdownThrows, IndexInv
  <2>3. CASE OnShutdownCalled
    BY <2>3 DEF OnShutdownCalled, IndexInv
  <2>4. CASE OnShutdownAwaited
    BY <2>4 DEF OnShutdownAwaited, IndexInv
  <2>5. CASE ShutdownComplete
    BY <2>5 DEF ShutdownComplete
  <2>6. QED
    BY <1>2, <2>1, <2>2, <2>3, <2>4, <2>5 DEF ShutdownLoop
<1>3. QED
  BY <1>1, <1>2

-----------------------------------------------------------------------------
(***************************************************************************)
(* What each step leaves alone.                                            *)
(***************************************************************************)

LEMMA StreamFrame ==
  ASSUME NEW d \in Dest, NEW e \in Entries, Chunk(d, e) \/ Settle(d, e)
  PROVE  UNCHANGED <<emitted, failed, healthy, rescuer, rescuerLevel,
                     pc, idx, active, vouched, closing>>
  BY DEF Chunk, Settle, Rescue, Skip, WriteReturns, WriteThrows, WriteBegins,
         WriteFulfilled, WriteRejected, healthVars, registryVars

\* Only a log call and a stream step touch the streams.
LEMMA RegistryFrame ==
  ASSUME InitLoop \/ RegistryReadyThrows \/ RegistryReadyCalled \/ RegistryReadyAwaited
         \/ ShutdownLoop
  PROVE  UNCHANGED <<emitted, fate, writeFailed, pendingWrites>>
  BY DEF InitLoop, ModuleInit, OnInitReturns, OnInitThrows, OnInitPends, OnInitSettles,
         InitSucceeded, InitFailed, MarkFailedAndGoOn, RegistryReadyThrows,
         RegistryReadyCalled, RegistryReadyAwaited, ShutdownLoop, ShutdownTick,
         OnShutdownThrows, OnShutdownCalled, OnShutdownAwaited, ShutdownComplete,
         healthVars, streamVars

\* Past the init loop the health record of initialization is final.
LEMMA LaterFrame ==
  ASSUME ReadyLoop \/ Shutdown \/ ShutdownLoop
  PROVE  /\ UNCHANGED <<healthVars, active>>
         /\ pc \notin {"building", "init", "initWait", "initOk", "initBad"}
         /\ pc' \notin {"building", "init", "initWait", "initOk", "initBad"}
  BY DEF ReadyLoop, RegistryReadyThrows, RegistryReadyCalled, RegistryReadyAwaited,
         AnnounceBootstrap, AnnounceWarning, Shutdown, ShutdownLoop, ShutdownTick,
         OnShutdownThrows, OnShutdownCalled, OnShutdownAwaited, ShutdownComplete, Goto

-----------------------------------------------------------------------------
(***************************************************************************)
(* The index, the active list and the health record.                       *)
(***************************************************************************)

HealthInv ==
  /\ IndexInv
  /\ ActiveMatchesHealth
  /\ \A d \in Healthy : healthy[d] = EffectiveLevel(d)

LEMMA HealthInvInit == Init => HealthInv
<1>1. ASSUME Init PROVE Healthy = {}
  BY <1>1 DEF Init, HealthInit, Healthy
<1>2. QED
  BY <1>1 DEF Init, HealthInit, HealthInv, IndexInv, ActiveMatchesHealth, Resolved

\* The destination the loop is at has no outcome yet, and will be marked once.
LEMMA Unresolved ==
  ASSUME TypeOK, HealthInv, pc \in {"init", "initWait", "initOk", "initBad"}
  PROVE  /\ idx \in Dest
         /\ idx \notin failed
         /\ idx \notin Healthy
         /\ \A d \in failed \cup Healthy : d < idx
         /\ failed \cup Healthy = 1..(idx - 1)
<1>1. idx \in Dest
  BY DEF HealthInv, IndexInv
<1>2. failed \cup Healthy = 1..(idx - 1)
  BY DEF HealthInv, ActiveMatchesHealth, Resolved
<1>3. QED
  BY <1>1, <1>2 DEF Dest

LEMMA MarkFailedHealthInv ==
  ASSUME TypeOK, HealthInv, MarkFailedAndGoOn, pc \in {"init", "initWait", "initOk", "initBad"}
  PROVE  HealthInv'
<1>1. /\ failed' = failed \cup {idx}
      /\ healthy' = healthy /\ active' = active
  BY DEF MarkFailedAndGoOn, MarkFailed
<1>2. Healthy' = Healthy
  BY <1>1 DEF Healthy
<1>3. failed' \cup Healthy' = 1..idx
  BY <1>1, <1>2, Unresolved DEF Dest
<1>4. Resolved' = 1..idx
  <2>1. CASE idx < N
    BY <2>1, Unresolved DEF MarkFailedAndGoOn, NextDestination, Goto, Resolved, Dest
  <2>2. CASE ~(idx < N)
    BY <2>2, Unresolved DEF MarkFailedAndGoOn, NextDestination, Goto, Resolved, Dest
  <2>3. QED
    BY <2>1, <2>2
<1>5. IndexInv'
  BY <1>1, Unresolved DEF MarkFailedAndGoOn, NextDestination, Goto, IndexInv, Dest
<1>6. failed' \cap Healthy' = {}
  BY <1>1, <1>2, Unresolved DEF HealthInv, ActiveMatchesHealth
<1>7. ActiveMatchesHealth'
  BY <1>1, <1>2, <1>3, <1>4, <1>6 DEF HealthInv, ActiveMatchesHealth
<1>8. \A d \in Healthy' : healthy'[d] = EffectiveLevel(d)
  BY <1>1, <1>2 DEF HealthInv
<1>9. QED
  BY <1>5, <1>7, <1>8 DEF HealthInv

LEMMA InitSucceededHealthInv ==
  ASSUME TypeOK, HealthInv, InitSucceeded
  PROVE  HealthInv'
<1> USE DEF Dest
<1>1. /\ failed' = failed
      /\ healthy' = [healthy EXCEPT ![idx] = EffectiveLevel(idx)]
      /\ active' = Append(active, idx)
      /\ pc = "initOk"
  BY DEF InitSucceeded, MarkHealthy
<1>2. idx \in Dest /\ EffectiveLevel(idx) # Absent
  <2>1. idx \in Dest
    BY <1>1, Unresolved
  <2>2. EffectiveLevel(idx) \in Levels
    BY <2>1, EffectiveLevelType
  <2>3. QED
    BY <2>1, <2>2 DEF Levels, Absent
<1>3. Healthy' = Healthy \cup {idx}
  BY <1>1, <1>2 DEF Healthy, TypeOK, HealthTypeOK
<1>4. failed' \cup Healthy' = 1..idx
  BY <1>1, <1>3, Unresolved
<1>5. Resolved' = 1..idx
  <2>1. CASE idx < N
    BY <1>2, <2>1 DEF InitSucceeded, NextDestination, Goto, Resolved
  <2>2. CASE ~(idx < N)
    BY <1>2, <2>2 DEF InitSucceeded, NextDestination, Goto, Resolved
  <2>3. QED
    BY <2>1, <2>2
<1>6. IndexInv'
  BY <1>2 DEF InitSucceeded, NextDestination, Goto, IndexInv
<1>7. failed' \cap Healthy' = {}
  BY <1>1, <1>3, Unresolved DEF HealthInv, ActiveMatchesHealth
<1>8. /\ DOMAIN active' = 1..(Len(active) + 1)
      /\ DOMAIN active = 1..Len(active)
      /\ Len(active) \in Nat
      /\ \A i \in DOMAIN active : active'[i] = active[i] /\ active[i] \in Healthy
      /\ active'[Len(active) + 1] = idx
  BY <1>1, <1>2 DEF TypeOK, HealthInv, ActiveMatchesHealth
<1>9. Healthy' = {active'[i] : i \in DOMAIN active'}
  <2>1. Healthy = {active[i] : i \in DOMAIN active}
    BY DEF HealthInv, ActiveMatchesHealth
  <2>2. ASSUME NEW d \in Healthy' PROVE \E i \in DOMAIN active' : active'[i] = d
    <3>1. CASE d = idx
      BY <1>8, <3>1
    <3>2. CASE d \in Healthy
      <4>1. PICK i \in DOMAIN active : active[i] = d
        BY <2>1, <3>2
      <4>2. QED
        BY <1>8, <4>1
    <3>3. QED
      BY <1>3, <2>2, <3>1, <3>2
  <2>3. ASSUME NEW i \in DOMAIN active' PROVE active'[i] \in Healthy'
    <3>1. i \in DOMAIN active \/ i = Len(active) + 1
      BY <1>8, <2>3
    <3>2. QED
      BY <1>3, <1>8, <3>1
  <2>4. QED
    BY <2>2, <2>3
<1>10. ASSUME NEW i \in DOMAIN active', NEW j \in DOMAIN active', i < j
       PROVE  active'[i] < active'[j]
  <2>1. i \in DOMAIN active
    BY <1>8, <1>10
  <2>2. CASE j = Len(active) + 1
    BY <1>1, <1>8, <2>1, <2>2, Unresolved
  <2>3. CASE j \in DOMAIN active
    BY <1>8, <1>10, <2>1, <2>3 DEF HealthInv, ActiveMatchesHealth
  <2>4. QED
    BY <1>8, <2>2, <2>3
<1>11. \A d \in Healthy' : healthy'[d] = EffectiveLevel(d)
  BY <1>1, <1>2, <1>3 DEF HealthInv, TypeOK, HealthTypeOK, Healthy
<1>12. QED
  BY <1>4, <1>5, <1>6, <1>7, <1>9, <1>10, <1>11 DEF HealthInv, ActiveMatchesHealth

LEMMA HealthInvStep ==
  ASSUME TypeOK, HealthInv, [Next]_vars
  PROVE  HealthInv'
<1> USE DEF HealthInv, ActiveMatchesHealth, IndexInv, Resolved, Healthy
<1>1. CASE UNCHANGED vars
  BY <1>1 DEF vars, healthVars, registryVars
<1>2. CASE Streams
  BY <1>2, StreamFrame DEF Streams
<1>3. ASSUME NEW level \in AppLevels, Log(level)
      PROVE  HealthInv'
  BY <1>3 DEF Log, healthVars, registryVars
<1>4. CASE InitLoop
  <2>1. CASE ModuleInit
    BY <2>1 DEF ModuleInit, Goto, healthVars, Dest
  <2>2. CASE OnInitReturns \/ OnInitPends \/ OnInitSettles
    <3>1. /\ UNCHANGED <<failed, healthy, active, idx>>
          /\ pc \in {"init", "initWait", "initOk", "initBad"}
          /\ pc' \in {"init", "initWait", "initOk", "initBad"}
      BY <2>2 DEF OnInitReturns, OnInitPends, OnInitSettles, Goto, healthVars
    <3>2. QED
      BY <3>1
  <2>3. CASE OnInitThrows \/ InitFailed
    BY <2>3, MarkFailedHealthInv DEF OnInitThrows, InitFailed
  <2>4. CASE InitSucceeded
    BY <2>4, InitSucceededHealthInv
  <2>5. QED
    BY <1>4, <2>1, <2>2, <2>3, <2>4 DEF InitLoop
<1>5. CASE ReadyLoop \/ Shutdown \/ ShutdownLoop
  <2>1. UNCHANGED <<failed, healthy, active>> /\ Resolved' = Resolved
    BY <1>5, LaterFrame DEF healthVars
  <2>2. IndexInv'
    <3> USE DEF Dest
    <3>1. CASE ReadyLoop
      BY <3>1, <2>1 DEF ReadyLoop, RegistryReadyThrows, RegistryReadyCalled,
         RegistryReadyAwaited, AnnounceBootstrap, AnnounceWarning, Goto
    <3>2. CASE Shutdown
      BY <3>2, <2>1 DEF Shutdown, Goto
    <3>3. CASE ShutdownLoop
      BY <3>3, <2>1 DEF ShutdownLoop, ShutdownTick, OnShutdownThrows, OnShutdownCalled,
         OnShutdownAwaited, ShutdownComplete, Goto, TypeOK
    <3>4. QED
      BY <1>5, <3>1, <3>2, <3>3
  <2>3. ActiveMatchesHealth'
    <3> HIDE DEF Resolved
    <3>1. QED
      BY <2>1
  <2>4. \A d \in Healthy' : healthy'[d] = EffectiveLevel(d)
    BY <2>1
  <2>5. QED
    <3> HIDE DEF ActiveMatchesHealth, IndexInv, Healthy
    <3>1. QED
      BY <2>2, <2>3, <2>4
<1>6. CASE Terminated
  BY <1>6 DEF Terminated, vars, healthVars, registryVars
<1>7. QED
  BY <1>1, <1>2, <1>3, <1>4, <1>5, <1>6 DEF Next

-----------------------------------------------------------------------------
(***************************************************************************)
(* The rescuer.                                                            *)
(***************************************************************************)

RescuerInv ==
  /\ RescuerIsFirstOfTheLowest
  /\ failed = {} => rescuerLevel = Infinity

LEMMA RescuerInvInit == Init => RescuerInv
  BY DEF Init, HealthInit, RescuerInv, RescuerIsFirstOfTheLowest

\* The destination marked last has the highest index so far: a strict
\* comparison of levels therefore keeps the earliest of the lowest.
LEMMA MarkFailedRescuerInv ==
  ASSUME TypeOK, HealthInv, RescuerInv, MarkFailedAndGoOn,
         pc \in {"init", "initWait", "initOk", "initBad"}
  PROVE  RescuerInv'
<1> DEFINE level == EffectiveLevel(idx)
<1>1. idx \in Dest /\ \A d \in failed : d < idx /\ d \in Dest
  BY Unresolved DEF TypeOK, HealthTypeOK
<1>2. level \in 0..5 /\ \A d \in failed : EffectiveLevel(d) \in 0..5
  BY <1>1, EffectiveLevelType DEF Levels
<1>3. /\ failed' = failed \cup {idx}
      /\ IF level < rescuerLevel
         THEN rescuer' = idx /\ rescuerLevel' = level
         ELSE rescuer' = rescuer /\ rescuerLevel' = rescuerLevel
  BY DEF MarkFailedAndGoOn, MarkFailed
<1>4. idx \in Int /\ \A d \in failed : d \in Int
  BY <1>1 DEF Dest
<1> HIDE DEF level
<1>5. EffectiveLevel(idx) = level
  BY DEF level
<1>6. CASE failed = {}
  <2>1. level < rescuerLevel
    BY <1>2, <1>6 DEF RescuerInv, Infinity
  <2>2. QED
    BY <1>2, <1>3, <1>4, <1>5, <1>6, <2>1 DEF RescuerInv, RescuerIsFirstOfTheLowest
<1>7. CASE failed # {}
  <2>1. /\ rescuer \in failed
        /\ rescuerLevel = EffectiveLevel(rescuer)
        /\ \A d \in failed : \/ EffectiveLevel(rescuer) < EffectiveLevel(d)
                             \/ EffectiveLevel(rescuer) = EffectiveLevel(d) /\ rescuer <= d
    BY <1>7 DEF RescuerInv, RescuerIsFirstOfTheLowest
  <2>2. CASE level < rescuerLevel
    BY <1>2, <1>3, <1>4, <1>5, <2>1, <2>2 DEF RescuerInv, RescuerIsFirstOfTheLowest
  <2>3. CASE ~(level < rescuerLevel)
    <3>1. /\ rescuer' = rescuer /\ rescuerLevel' = rescuerLevel
          /\ rescuer < idx
          /\ EffectiveLevel(rescuer) <= EffectiveLevel(idx)
      BY <1>1, <1>2, <1>3, <1>5, <2>1, <2>3
    <3>2. QED
      BY <1>2, <1>3, <1>4, <1>5, <2>1, <3>1 DEF RescuerInv, RescuerIsFirstOfTheLowest
  <2>4. QED
    BY <2>2, <2>3
<1>8. QED
  BY <1>6, <1>7

\* Only a failed onInit touches the failed set and the rescuer.
LEMMA FailedFrame ==
  ASSUME [Next]_vars
  PROVE  \/ UNCHANGED <<failed, rescuer, rescuerLevel>>
         \/ MarkFailedAndGoOn /\ pc \in {"init", "initWait", "initOk", "initBad"}
<1>1. CASE UNCHANGED vars \/ Terminated
  BY <1>1 DEF vars, healthVars, Terminated
<1>2. CASE Streams
  BY <1>2, StreamFrame DEF Streams
<1>3. ASSUME NEW level \in AppLevels, Log(level)
      PROVE  UNCHANGED <<failed, rescuer, rescuerLevel>>
  BY <1>3 DEF Log, healthVars
<1>4. CASE InitLoop
  BY <1>4 DEF InitLoop, ModuleInit, OnInitReturns, OnInitThrows, OnInitPends,
     OnInitSettles, InitSucceeded, InitFailed, healthVars
<1>5. CASE ReadyLoop \/ Shutdown \/ ShutdownLoop
  BY <1>5, LaterFrame DEF healthVars
<1>6. QED
  BY <1>1, <1>2, <1>3, <1>4, <1>5 DEF Next

LEMMA RescuerInvStep ==
  ASSUME TypeOK, HealthInv, RescuerInv, [Next]_vars
  PROVE  RescuerInv'
<1>1. CASE UNCHANGED <<failed, rescuer, rescuerLevel>>
  BY <1>1 DEF RescuerInv, RescuerIsFirstOfTheLowest
<1>2. CASE MarkFailedAndGoOn /\ pc \in {"init", "initWait", "initOk", "initBad"}
  BY <1>2, MarkFailedRescuerInv
<1>3. QED
  BY <1>1, <1>2, FailedFrame

-----------------------------------------------------------------------------
(***************************************************************************)
(* The theorems about initialization.                                      *)
(***************************************************************************)

LEMMA TypeStep ==
  ASSUME TypeOK, IndexInv, [Next]_vars
  PROVE  TypeOK'
<1>1. CASE UNCHANGED vars \/ Terminated
  BY <1>1 DEF vars, healthVars, streamVars, registryVars, Terminated, TypeOK, HealthTypeOK
<1>2. CASE Streams
  BY <1>2, StreamType DEF Streams
<1>3. ASSUME NEW level \in AppLevels, Log(level)
      PROVE  TypeOK'
  BY <1>3, LogType
<1>4. CASE InitLoop
  BY <1>4, InitLoopType
<1>5. CASE ReadyLoop
  BY <1>5, ReadyLoopType
<1>6. CASE Shutdown \/ ShutdownLoop
  BY <1>6, ShutdownType
<1>7. QED
  BY <1>1, <1>2, <1>3, <1>4, <1>5, <1>6 DEF Next

LifecycleInv == TypeOK /\ HealthInv /\ RescuerInv

\* The inductive invariant of the lifecycle: types, the registry's two records
\* of the live destinations in step, and the elected rescuer.
THEOREM LifecycleInvariant == Spec => []LifecycleInv
<1>1. Init => LifecycleInv
  BY InitType, HealthInvInit, RescuerInvInit DEF LifecycleInv
<1>2. LifecycleInv /\ [Next]_vars => LifecycleInv'
  BY TypeStep, HealthInvStep, RescuerInvStep DEF LifecycleInv, HealthInv
<1>3. QED
  BY <1>1, <1>2, PTL DEF Spec

\* Every variable keeps its type (all of the state of the fan-out).
THEOREM TypeCorrect == Spec => []TypeOK
<1>1. LifecycleInv => TypeOK
  BY DEF LifecycleInv
<1>2. QED
  BY <1>1, LifecycleInvariant, PTL

\* The active list the registry shuts down and the health record the streams
\* consult agree at every await of the init loop (onModuleInit).
THEOREM ActiveListMatchesHealth == Spec => []ActiveMatchesHealth
<1>1. LifecycleInv => ActiveMatchesHealth
  BY DEF LifecycleInv, HealthInv
<1>2. QED
  BY <1>1, LifecycleInvariant, PTL

\* Whatever the failures, the rescuer is the failed destination with the lowest
\* effective level, first registered among equals (markFailed).
THEOREM RescuerElection == Spec => []RescuerIsFirstOfTheLowest
<1>1. LifecycleInv => RescuerIsFirstOfTheLowest
  BY DEF LifecycleInv, RescuerInv
<1>2. QED
  BY <1>1, LifecycleInvariant, PTL

-----------------------------------------------------------------------------
(***************************************************************************)
(* Steps as the streams see them.                                          *)
(***************************************************************************)

StreamStep == \E d \in Dest : \E e \in Entries : Chunk(d, e) \/ Settle(d, e)

EmitStep ==
  /\ UNCHANGED healthVars
  /\ \E level \in Levels : \E by \in Origins : Emit(level, by)

\* What is not a stream step.
Others ==
  \/ UNCHANGED vars
  \/ \E level \in AppLevels : Log(level)
  \/ InitLoop \/ ReadyLoop \/ Shutdown \/ ShutdownLoop \/ Terminated

LEMMA OtherKinds ==
  ASSUME Others
  PROVE  UNCHANGED <<emitted, fate, writeFailed, pendingWrites>> \/ EmitStep
<1>1. CASE UNCHANGED vars \/ Terminated
  BY <1>1 DEF vars, healthVars, streamVars, Terminated
<1>2. ASSUME NEW level \in AppLevels, Log(level)
      PROVE  EmitStep
  BY <1>2 DEF Log, EmitStep, Origins
<1>3. CASE AnnounceBootstrap \/ Shutdown
  <2>1. Info \in Levels /\ {"boot", "shutdown"} \subseteq Origins
    BY DEF Info, Levels, Origins
  <2>2. CASE AnnounceBootstrap
    BY <2>1, <2>2 DEF AnnounceBootstrap, EmitStep
  <2>3. CASE Shutdown
    BY <2>1, <2>3 DEF Shutdown, EmitStep
  <2>4. QED
    BY <1>3, <2>2, <2>3
<1>4. CASE AnnounceWarning
  BY <1>4 DEF AnnounceWarning, EmitStep, Origins, Levels, Warn, streamVars, healthVars
<1>5. CASE InitLoop \/ RegistryReadyThrows \/ RegistryReadyCalled \/ RegistryReadyAwaited
           \/ ShutdownLoop
  BY <1>5, RegistryFrame
<1>6. QED
  BY <1>1, <1>2, <1>3, <1>4, <1>5 DEF Others, ReadyLoop

LEMMA StepKinds ==
  ASSUME [Next]_vars
  PROVE  \/ UNCHANGED <<emitted, fate, writeFailed, pendingWrites>>
         \/ EmitStep
         \/ StreamStep
<1>1. CASE Streams
  BY <1>1 DEF Streams, StreamStep
<1>2. CASE Others
  BY <1>2, OtherKinds
<1>3. QED
  BY <1>1, <1>2 DEF Next, Others

\* An emitted entry comes after the others, with the fate its level earns it.
LEMMA EmitFates ==
  ASSUME TypeOK, NEW level \in Levels, NEW by \in Origins, Emit(level, by)
  PROVE  /\ Entries \subseteq Entries'
         /\ \A e \in Entries : emitted'[e] = emitted[e]
         /\ \A d \in Dest : \A e \in Entries : fate'[d][e] = fate[d][e]
         /\ \A e \in Entries' \ Entries : emitted'[e].level = level
         /\ \A e \in Entries' \ Entries : emitted'[e].by = by
         /\ \A d \in Dest : \A e \in Entries' \ Entries :
              fate'[d][e] = IF Passes(d, level) THEN "queued" ELSE "filtered"
<1>1. CASE level >= ModuleLevel
  <2>1. emitted' = Append(emitted, [level |-> level, by |-> by])
    BY <1>1 DEF Emit
  <2>2. ASSUME NEW d \in Dest
        PROVE  fate'[d] = Append(fate[d], IF Passes(d, level) THEN "queued" ELSE "filtered")
    BY <1>1 DEF Emit
  <2>3. Entries = 1..Len(emitted) /\ Len(emitted) \in Nat
    BY EntriesAre
  <2>4. emitted \in Seq([level : Levels, by : Origins])
    BY DEF TypeOK
  <2>5. Entries' = 1..(Len(emitted) + 1)
    BY <2>1, <2>3, <2>4 DEF Entries
  <2>6. /\ \A e \in Entries : emitted'[e] = emitted[e]
        /\ emitted'[Len(emitted) + 1].level = level
        /\ emitted'[Len(emitted) + 1].by = by
    BY <2>1, <2>3, <2>4
  <2>7. ASSUME NEW d \in Dest
        PROVE  /\ \A e \in Entries : fate'[d][e] = fate[d][e]
               /\ fate'[d][Len(emitted) + 1] = IF Passes(d, level) THEN "queued" ELSE "filtered"
    <3>1. fate[d] \in Seq(Fates) /\ Len(fate[d]) = Len(emitted)
      BY DEF TypeOK
    <3> DEFINE v == IF Passes(d, level) THEN "queued" ELSE "filtered"
    <3>2. fate'[d] = Append(fate[d], v)
      BY <2>2
    <3> HIDE DEF v
    <3>3. /\ \A e \in Entries : fate'[d][e] = fate[d][e]
          /\ fate'[d][Len(emitted) + 1] = v
      BY <2>3, <3>1, <3>2
    <3>4. QED
      BY <3>3 DEF v
  <2>8. \A e \in Entries' \ Entries : e = Len(emitted) + 1
    BY <2>3, <2>5
  <2>9. QED
    BY <2>3, <2>5, <2>6, <2>7, <2>8
<1>2. CASE ~(level >= ModuleLevel)
  <2>1. UNCHANGED <<emitted, fate>>
    BY <1>2 DEF Emit, streamVars
  <2>2. QED
    BY <2>1 DEF Entries
<1>3. QED
  BY <1>1, <1>2

\* An entry the instance level lets by is emitted, after all others.
LEMMA EmitEntries ==
  ASSUME TypeOK, NEW level \in Levels, NEW by \in Origins, Emit(level, by)
  PROVE  Entries' = IF level >= ModuleLevel THEN 1..(Len(emitted) + 1) ELSE Entries
<1>1. CASE level >= ModuleLevel
  <2>1. emitted' = Append(emitted, [level |-> level, by |-> by])
    BY <1>1 DEF Emit
  <2>2. emitted \in Seq([level : Levels, by : Origins]) /\ Len(emitted) \in Nat
    BY EntriesAre DEF TypeOK
  <2>3. QED
    BY <1>1, <2>1, <2>2 DEF Entries
<1>2. CASE ~(level >= ModuleLevel)
  BY <1>2 DEF Emit, streamVars, Entries
<1>3. QED
  BY <1>1, <1>2

LEMMA EmitAdds ==
  ASSUME TypeOK, NEW level \in Levels, NEW by \in Origins, Emit(level, by), level >= ModuleLevel
  PROVE  Entries' \ Entries # {}
<1>1. Entries = 1..Len(emitted) /\ Len(emitted) \in Nat
  BY EntriesAre
<1>2. Entries' = 1..(Len(emitted) + 1)
  BY EmitEntries
<1>3. Len(emitted) + 1 \in Entries' /\ Len(emitted) + 1 \notin Entries
  BY <1>1, <1>2
<1>4. QED
  BY <1>3

\* A stream step gives one entry, queued or being written, its next fate.
LEMMA StreamFates ==
  ASSUME TypeOK, NEW d \in Dest, NEW e \in Entries, Chunk(d, e) \/ Settle(d, e)
  PROVE  \E r \in Fates :
           /\ Entries' = Entries /\ emitted' = emitted
           /\ \A c \in Dest : \A f \in Entries :
                fate'[c][f] = IF c = d /\ f = e THEN r ELSE fate[c][f]
           /\ fate[d][e] \in {"queued", "writing"}
           /\ r \in {"writing"} \cup Settled
           /\ r \in {"skipped", "rescued"} => d \in failed
           /\ r = "skipped" => ~ShouldRescue(d)
           /\ r = "rescued" => ShouldRescue(d)
           /\ r = "writing" => "promise" \in Write[d]
           /\ r = "dropped" => writeFailed' = writeFailed \cup {d}
           /\ writeFailed \subseteq writeFailed'
<1>1. PICK r \in Fates :
        /\ Becomes(d, e, r)
        /\ fate[d][e] \in {"queued", "writing"}
        /\ r \in {"writing"} \cup Settled
        /\ r \in {"skipped", "rescued"} => d \in failed
        /\ r = "skipped" => ~ShouldRescue(d)
        /\ r = "rescued" => ShouldRescue(d)
        /\ r = "writing" => "promise" \in Write[d]
        /\ r = "dropped" => writeFailed' = writeFailed \cup {d}
        /\ writeFailed \subseteq writeFailed'
  BY DEF Chunk, Settle, Rescue, Skip, WriteReturns, WriteThrows, WriteBegins, NextChunk,
         WriteFulfilled, WriteRejected, IsFailed, MarkWriteFailed, healthVars, Fates, Settled
<1>2. \A c \in Dest : \A f \in Entries :
        fate'[c][f] = IF c = d /\ f = e THEN r ELSE fate[c][f]
  BY <1>1, BecomesType
<1>3. emitted' = emitted /\ Entries' = Entries
  BY StreamFrame DEF Entries
<1>4. QED
  BY <1>1, <1>2, <1>3

-----------------------------------------------------------------------------
(***************************************************************************)
(* What a fate says.                                                       *)
(***************************************************************************)

FateInv ==
  \A d \in Dest : \A e \in Entries :
    /\ fate[d][e] = "filtered" <=> ~Passes(d, emitted[e].level)
    /\ fate[d][e] \in {"skipped", "rescued"} => d \in failed
    /\ fate[d][e] = "dropped" => d \in writeFailed

LEMMA FateInvInit == Init => FateInv
  BY DEF Init, FateInv, Entries

\* The failed set only grows, and only a failed onInit grows it.
LEMMA FailedGrows ==
  ASSUME [Next]_vars
  PROVE  failed \subseteq failed'
  BY FailedFrame DEF MarkFailedAndGoOn, MarkFailed

LEMMA FateInvStep ==
  ASSUME TypeOK, FateInv, [Next]_vars
  PROVE  FateInv'
<1>0. failed \subseteq failed'
  BY FailedGrows
<1>1. CASE UNCHANGED <<emitted, fate, writeFailed, pendingWrites>>
  BY <1>0, <1>1 DEF FateInv, Entries, Passes, StreamLevel
<1>2. CASE EmitStep
  <2>1. PICK level \in Levels, by \in Origins : Emit(level, by)
    BY <1>2 DEF EmitStep
  <2>2. writeFailed' = writeFailed
    BY <1>2 DEF EmitStep, healthVars
  <2>3. SUFFICES ASSUME NEW d \in Dest, NEW e \in Entries'
                 PROVE  /\ fate'[d][e] = "filtered" <=> ~Passes(d, emitted'[e].level)
                        /\ fate'[d][e] \in {"skipped", "rescued"} => d \in failed'
                        /\ fate'[d][e] = "dropped" => d \in writeFailed'
    BY DEF FateInv, Passes, StreamLevel
  <2>4. CASE e \in Entries
    BY <1>0, <2>1, <2>2, <2>4, EmitFates DEF FateInv
  <2>5. CASE e \notin Entries
    BY <2>1, <2>5, EmitFates
  <2>6. QED
    BY <2>4, <2>5
<1>3. CASE StreamStep
  <2>1. PICK d \in Dest, e \in Entries : Chunk(d, e) \/ Settle(d, e)
    BY <1>3 DEF StreamStep
  <2>2. PICK r \in Fates :
          /\ Entries' = Entries /\ emitted' = emitted
          /\ \A c \in Dest : \A f \in Entries :
               fate'[c][f] = IF c = d /\ f = e THEN r ELSE fate[c][f]
          /\ fate[d][e] \in {"queued", "writing"}
          /\ r \in {"writing"} \cup Settled
          /\ r \in {"skipped", "rescued"} => d \in failed
          /\ r = "dropped" => writeFailed' = writeFailed \cup {d}
          /\ writeFailed \subseteq writeFailed'
    BY <2>1, StreamFates
  <2>3. SUFFICES ASSUME NEW c \in Dest, NEW f \in Entries
                 PROVE  /\ fate'[c][f] = "filtered" <=> ~Passes(c, emitted[f].level)
                        /\ fate'[c][f] \in {"skipped", "rescued"} => c \in failed'
                        /\ fate'[c][f] = "dropped" => c \in writeFailed'
    BY <2>2 DEF FateInv, Passes, StreamLevel
  <2>4. CASE c = d /\ f = e
    BY <1>0, <2>2, <2>4 DEF FateInv, Settled
  <2>5. CASE ~(c = d /\ f = e)
    BY <1>0, <2>2, <2>5 DEF FateInv
  <2>6. QED
    BY <2>4, <2>5
<1>4. QED
  BY <1>1, <1>2, <1>3, StepKinds

-----------------------------------------------------------------------------
(***************************************************************************)
(* The pending counter, and the queue behind a write in flight.            *)
(***************************************************************************)

CountInv ==
  /\ PendingCountsInFlight
  /\ \A d \in Dest : \A e, f \in Entries :
       fate[d][e] = "writing" /\ fate[d][f] = "writing" => e = f

LEMMA CountInvInit == Init => CountInv
  BY DEF Init, HealthInit, CountInv, PendingCountsInFlight, Entries, Writing

\* What a stream step does to the counter of its destination.
LEMMA StreamCounts ==
  ASSUME TypeOK, NEW d \in Dest, NEW e \in Entries, Chunk(d, e) \/ Settle(d, e)
  PROVE  \/ /\ fate[d][e] = "queued" /\ ~Writing(d)
            /\ \E r \in Settled : Becomes(d, e, r)
            /\ pendingWrites' = pendingWrites
         \/ /\ fate[d][e] = "queued" /\ ~Writing(d)
            /\ Becomes(d, e, "writing")
            /\ pendingWrites' = [pendingWrites EXCEPT ![d] = @ + 1]
         \/ /\ fate[d][e] = "writing"
            /\ \E r \in Settled : Becomes(d, e, r)
            /\ pendingWrites' = [pendingWrites EXCEPT ![d] = @ - 1]
<1> USE DEF Settled
<1>1. CASE Rescue(d, e) \/ Skip(d, e) \/ WriteReturns(d, e) \/ WriteThrows(d, e)
  BY <1>1 DEF Rescue, Skip, WriteReturns, WriteThrows, NextChunk, healthVars
<1>2. CASE WriteBegins(d, e)
  BY <1>2 DEF WriteBegins, NextChunk, MarkWritePending
<1>3. CASE Settle(d, e)
  BY <1>3 DEF Settle, WriteFulfilled, WriteRejected, MarkWriteSettled
<1>4. QED
  BY <1>1, <1>2, <1>3 DEF Chunk

LEMMA CountInvStep ==
  ASSUME TypeOK, CountInv, [Next]_vars
  PROVE  CountInv'
<1>1. CASE UNCHANGED <<emitted, fate, writeFailed, pendingWrites>>
  BY <1>1 DEF CountInv, PendingCountsInFlight, Writing, Entries
<1>2. CASE EmitStep
  <2>1. PICK level \in Levels, by \in Origins : Emit(level, by)
    BY <1>2 DEF EmitStep
  <2>2. pendingWrites' = pendingWrites
    BY <1>2 DEF EmitStep, healthVars
  <2>3. \A d \in Dest : \A e \in Entries' :
          fate'[d][e] = "writing" <=> e \in Entries /\ fate[d][e] = "writing"
    BY <2>1, EmitFates
  <2>4. Entries \subseteq Entries'
    BY <2>1, EmitFates
  <2>5. \A d \in Dest : Writing(d)' <=> Writing(d)
    BY <2>3, <2>4 DEF Writing
  <2>6. QED
    BY <2>2, <2>3, <2>5 DEF CountInv, PendingCountsInFlight
<1>3. CASE StreamStep
  <2>1. PICK d \in Dest, e \in Entries : Chunk(d, e) \/ Settle(d, e)
    BY <1>3 DEF StreamStep
  <2>2. Entries' = Entries
    BY <2>1, StreamFrame DEF Entries
  <2>3. pendingWrites \in [Dest -> Int]
    BY DEF TypeOK, HealthTypeOK
  <2>4. ASSUME NEW r \in Fates, Becomes(d, e, r)
        PROVE  /\ \A c \in Dest : \A f \in Entries :
                    fate'[c][f] = IF c = d /\ f = e THEN r ELSE fate[c][f]
               /\ \A c \in Dest \ {d} : Writing(c)' <=> Writing(c)
    <3>1. \A c \in Dest : \A f \in Entries :
            fate'[c][f] = IF c = d /\ f = e THEN r ELSE fate[c][f]
      BY <2>4, BecomesType
    <3>2. QED
      BY <2>2, <3>1 DEF Writing
  <2>5. CASE /\ fate[d][e] = "queued" /\ ~Writing(d)
             /\ \E r \in Settled : Becomes(d, e, r)
             /\ pendingWrites' = pendingWrites
    <3>1. PICK r \in Settled : Becomes(d, e, r)
      BY <2>5
    <3>2. r \in Fates /\ r # "writing"
      BY DEF Fates, Settled
    <3>3. ~Writing(d)'
      BY <2>2, <2>4, <2>5, <3>1, <3>2 DEF Writing
    <3>4. QED
      BY <2>2, <2>4, <2>5, <3>1, <3>2, <3>3 DEF CountInv, PendingCountsInFlight
  <2>6. CASE /\ fate[d][e] = "queued" /\ ~Writing(d)
             /\ Becomes(d, e, "writing")
             /\ pendingWrites' = [pendingWrites EXCEPT ![d] = @ + 1]
    <3>1. "writing" \in Fates
      BY DEF Fates
    <3>2. Writing(d)' /\ \A f \in Entries : fate'[d][f] = "writing" => f = e
      BY <2>2, <2>4, <2>6, <3>1 DEF Writing
    <3>3. pendingWrites[d] = 0 /\ pendingWrites'[d] = 1
      BY <2>3, <2>6 DEF CountInv, PendingCountsInFlight
    <3>4. \A c \in Dest \ {d} : pendingWrites'[c] = pendingWrites[c]
      BY <2>3, <2>6
    <3>5. PendingCountsInFlight'
      BY <2>4, <2>6, <3>1, <3>2, <3>3, <3>4 DEF CountInv, PendingCountsInFlight
    <3>6. QED
      BY <2>2, <2>4, <2>6, <3>1, <3>2, <3>5 DEF CountInv
  <2>7. CASE /\ fate[d][e] = "writing"
             /\ \E r \in Settled : Becomes(d, e, r)
             /\ pendingWrites' = [pendingWrites EXCEPT ![d] = @ - 1]
    <3>1. PICK r \in Settled : Becomes(d, e, r)
      BY <2>7
    <3>2. r \in Fates /\ r # "writing"
      BY DEF Fates, Settled
    <3>3. ~Writing(d)'
      BY <2>2, <2>4, <2>7, <3>1, <3>2 DEF Writing, CountInv
    <3>4. pendingWrites[d] = 1 /\ pendingWrites'[d] = 0
      BY <2>3, <2>7 DEF CountInv, PendingCountsInFlight, Writing
    <3>5. \A c \in Dest \ {d} : pendingWrites'[c] = pendingWrites[c]
      BY <2>3, <2>7
    <3>6. PendingCountsInFlight'
      BY <2>4, <3>1, <3>2, <3>3, <3>4, <3>5 DEF CountInv, PendingCountsInFlight
    <3>7. QED
      BY <2>2, <2>4, <3>1, <3>2, <3>6 DEF CountInv
  <2>8. QED
    BY <2>1, <2>5, <2>6, <2>7, StreamCounts
<1>4. QED
  BY <1>1, <1>2, <1>3, StepKinds

-----------------------------------------------------------------------------
(***************************************************************************)
(* The rescuer passes over an entry only while some destination is live.   *)
(***************************************************************************)

SkipInv ==
  \A e \in Entries : rescuer # NoDestination /\ fate[rescuer][e] = "skipped" => Healthy # {}

LEMMA SkipInvInit == Init => SkipInv
  BY DEF Init, SkipInv, Entries

\* A destination that came up stays up.
LEMMA HealthyGrows ==
  ASSUME TypeOK, HealthInv, [Next]_vars
  PROVE  Healthy \subseteq Healthy'
<1>1. CASE healthy' = healthy
  BY <1>1 DEF Healthy
<1>2. CASE InitSucceeded
  <2>1. idx \in Dest
    BY <1>2, Unresolved DEF InitSucceeded
  <2>2. healthy' = [healthy EXCEPT ![idx] = EffectiveLevel(idx)] /\ EffectiveLevel(idx) # Absent
    BY <1>2, <2>1, EffectiveLevelType DEF InitSucceeded, MarkHealthy, Levels, Absent
  <2>3. QED
    BY <2>2 DEF Healthy, TypeOK, HealthTypeOK
<1>3. healthy' = healthy \/ InitSucceeded
  <2>1. CASE UNCHANGED vars \/ Terminated
    BY <2>1 DEF vars, healthVars, Terminated
  <2>2. CASE Streams
    BY <2>2, StreamFrame DEF Streams
  <2>3. ASSUME NEW level \in AppLevels, Log(level)
        PROVE  healthy' = healthy
    BY <2>3 DEF Log, healthVars
  <2>4. CASE InitLoop
    BY <2>4 DEF InitLoop, ModuleInit, OnInitReturns, OnInitThrows, OnInitPends,
       OnInitSettles, InitFailed, MarkFailedAndGoOn, healthVars
  <2>5. CASE ReadyLoop \/ Shutdown \/ ShutdownLoop
    BY <2>5, LaterFrame DEF healthVars
  <2>6. QED
    BY <2>1, <2>2, <2>3, <2>4, <2>5 DEF Next
<1>4. QED
  BY <1>1, <1>2, <1>3

LEMMA SkipInvStep ==
  ASSUME TypeOK, HealthInv, RescuerInv, FateInv, SkipInv, [Next]_vars
  PROVE  SkipInv'
<1>0. Healthy # {} => Healthy' # {}
  BY HealthyGrows
<1>1. CASE /\ UNCHANGED <<failed, rescuer, rescuerLevel>>
           /\ UNCHANGED <<emitted, fate, writeFailed, pendingWrites>>
  BY <1>0, <1>1 DEF SkipInv, Entries
<1>2. CASE MarkFailedAndGoOn /\ pc \in {"init", "initWait", "initOk", "initBad"}
  <2>1. UNCHANGED <<emitted, fate>> /\ rescuer' \in {rescuer, idx}
    BY <1>2 DEF MarkFailedAndGoOn, MarkFailed, streamVars
  <2>2. idx \in Dest /\ idx \notin failed
    BY <1>2, Unresolved
  <2>3. \A e \in Entries : fate[idx][e] # "skipped"
    BY <2>2 DEF FateInv
  <2>4. QED
    BY <1>0, <2>1, <2>3 DEF SkipInv, Entries
<1>3. CASE EmitStep /\ UNCHANGED <<failed, rescuer, rescuerLevel>>
  <2>1. PICK level \in Levels, by \in Origins : Emit(level, by)
    BY <1>3 DEF EmitStep
  <2>2. SUFFICES ASSUME rescuer # NoDestination, NEW e \in Entries', fate'[rescuer][e] = "skipped"
                 PROVE  Healthy # {}
    BY <1>0, <1>3 DEF SkipInv
  <2>3. rescuer \in Dest
    BY <2>2 DEF TypeOK, HealthTypeOK
  <2>4. e \in Entries /\ fate[rescuer][e] = "skipped"
    BY <2>1, <2>2, <2>3, EmitFates
  <2>5. QED
    BY <2>2, <2>4 DEF SkipInv
<1>4. CASE StreamStep /\ UNCHANGED <<failed, rescuer, rescuerLevel>>
  <2>1. PICK d \in Dest, e \in Entries : Chunk(d, e) \/ Settle(d, e)
    BY <1>4 DEF StreamStep
  <2>2. PICK r \in Fates :
          /\ Entries' = Entries
          /\ \A c \in Dest : \A f \in Entries :
               fate'[c][f] = IF c = d /\ f = e THEN r ELSE fate[c][f]
          /\ r = "skipped" => ~ShouldRescue(d)
    BY <2>1, StreamFates
  <2>3. SUFFICES ASSUME rescuer # NoDestination, NEW f \in Entries, fate'[rescuer][f] = "skipped"
                 PROVE  Healthy # {}
    BY <1>0, <1>4, <2>2 DEF SkipInv
  <2>4. rescuer \in Dest
    BY <2>3 DEF TypeOK, HealthTypeOK
  <2>5. QED
    BY <2>2, <2>3, <2>4 DEF SkipInv, ShouldRescue
<1>5. EmitStep => UNCHANGED <<failed, rescuer, rescuerLevel>>
  BY DEF EmitStep, healthVars
<1>6. StreamStep => UNCHANGED <<failed, rescuer, rescuerLevel>>
  BY StreamFrame DEF StreamStep
<1>7. MarkFailedAndGoOn => UNCHANGED <<emitted, fate, writeFailed, pendingWrites>>
  BY DEF MarkFailedAndGoOn, streamVars
<1>8. QED
  BY <1>1, <1>2, <1>3, <1>4, <1>5, <1>6, StepKinds, FailedFrame

-----------------------------------------------------------------------------
(***************************************************************************)
(* What readiness vouches for.                                             *)
(***************************************************************************)

VouchInv ==
  /\ \A p \in Dest : vouched[p] \subseteq Entries
  /\ ReadinessVouchesDelivery

LEMMA VouchInvInit == Init => VouchInv
  BY DEF Init, VouchInv, ReadinessVouchesDelivery

LEMMA LevelType ==
  ASSUME TypeOK, NEW e \in Entries
  PROVE  emitted[e].level \in Levels
<1> DEFINE Records == [level : Levels, by : Origins]
<1>1. emitted \in Seq(Records) /\ e \in 1..Len(emitted)
  BY EntriesAre DEF TypeOK
<1>2. emitted[e] \in Records
  <2> HIDE DEF Records
  <2>1. QED
    BY <1>1
<1>3. QED
  BY <1>2

\* When the registry asks, every entry the asker took was accepted by the
\* witness: it cannot be filtered (the witness's level is at or below), skipped
\* or rescued (the witness is live), dropped (no failed write), being written
\* (no write in flight), nor queued behind a write in flight.
LEMMA WitnessAccepted ==
  ASSUME TypeOK, HealthInv, FateInv, CountInv, Quiet,
         NEW p \in Dest, DeliveredByHealthySink(p, EffectiveLevel(p))
  PROVE  \A e \in Offered(p) : \E d \in Healthy \ {p} : fate[d][e] = "accepted"
<1>1. PICK d \in Healthy \ {p} : /\ d \notin writeFailed
                                 /\ pendingWrites[d] <= 0
                                 /\ healthy[d] <= EffectiveLevel(p)
  BY DEF DeliveredByHealthySink
<1>2. d \in Dest /\ d \notin failed /\ healthy[d] = EffectiveLevel(d)
  BY <1>1 DEF Healthy, HealthInv, ActiveMatchesHealth
<1>3. ~Writing(d)
  BY <1>1, <1>2 DEF CountInv, PendingCountsInFlight
<1>4. ASSUME NEW e \in Offered(p)
      PROVE  fate[d][e] = "accepted"
  <2>1. e \in Entries /\ fate[p][e] # "filtered"
    BY DEF Offered
  <2>2. emitted[e].level \in Levels
    BY <2>1, LevelType
  <2>3. emitted[e].level >= EffectiveLevel(p)
    BY <2>1, <2>2, FilterAgrees DEF FateInv
  <2>4. emitted[e].level >= EffectiveLevel(d)
    BY <1>1, <1>2, <2>2, <2>3, EffectiveLevelType DEF Levels
  <2>5. fate[d][e] # "filtered"
    BY <1>2, <2>1, <2>2, <2>4, FilterAgrees DEF FateInv
  <2>6. fate[d][e] \notin {"skipped", "rescued", "dropped"}
    BY <1>1, <1>2, <2>1 DEF FateInv
  <2>7. fate[d][e] \notin {"queued", "writing"}
    BY <1>2, <1>3, <2>1 DEF Quiet, Writing
  <2>8. fate[d][e] \in Fates
    BY <1>2, <2>1, EntriesAre DEF TypeOK
  <2>9. QED
    BY <2>5, <2>6, <2>7, <2>8 DEF Fates, Settled
<1>5. QED
  BY <1>1, <1>4

\* Accepted is final.
LEMMA AcceptedStays ==
  ASSUME TypeOK, [Next]_vars, NEW d \in Dest, NEW e \in Entries, fate[d][e] = "accepted"
  PROVE  e \in Entries' /\ fate'[d][e] = "accepted"
<1>1. CASE UNCHANGED <<emitted, fate, writeFailed, pendingWrites>>
  BY <1>1 DEF Entries
<1>2. CASE EmitStep
  <2>1. PICK level \in Levels, by \in Origins : Emit(level, by)
    BY <1>2 DEF EmitStep
  <2>2. QED
    BY <2>1, EmitFates
<1>3. CASE StreamStep
  <2>1. PICK c \in Dest, f \in Entries : Chunk(c, f) \/ Settle(c, f)
    BY <1>3 DEF StreamStep
  <2>2. \E r \in Fates :
          /\ Entries' = Entries
          /\ \A b \in Dest : \A g \in Entries :
               fate'[b][g] = IF b = c /\ g = f THEN r ELSE fate[b][g]
          /\ fate[c][f] \in {"queued", "writing"}
    BY <2>1, StreamFates
  <2>3. QED
    BY <2>2
<1>4. QED
  BY <1>1, <1>2, <1>3, StepKinds

\* Only the readiness loop vouches.
LEMMA VouchedFrame ==
  ASSUME [Next]_vars
  PROVE  \/ vouched' = vouched
         \/ Quiet /\ pc = "ready" /\ RegistryReadyHook(idx) /\ UNCHANGED <<fate, healthVars, emitted>>
<1>1. CASE UNCHANGED vars \/ Terminated
  BY <1>1 DEF vars, registryVars, Terminated
<1>2. CASE Streams
  BY <1>2, StreamFrame DEF Streams
<1>3. ASSUME NEW level \in AppLevels, Log(level)
      PROVE  vouched' = vouched
  BY <1>3 DEF Log, registryVars
<1>4. CASE InitLoop
  BY <1>4 DEF InitLoop, ModuleInit, OnInitReturns, OnInitThrows, OnInitPends,
     OnInitSettles, InitSucceeded, InitFailed, MarkFailedAndGoOn
<1>5. CASE RegistryReadyThrows \/ RegistryReadyCalled
  BY <1>5 DEF RegistryReadyThrows, RegistryReadyCalled, streamVars
<1>6. CASE RegistryReadyAwaited \/ AnnounceBootstrap \/ AnnounceWarning \/ Shutdown
  BY <1>6 DEF RegistryReadyAwaited, AnnounceBootstrap, AnnounceWarning, Shutdown
<1>7. CASE ShutdownLoop
  BY <1>7 DEF ShutdownLoop, ShutdownTick, OnShutdownThrows, OnShutdownCalled,
     OnShutdownAwaited, ShutdownComplete
<1>8. QED
  BY <1>1, <1>2, <1>3, <1>4, <1>5, <1>6, <1>7 DEF Next, ReadyLoop

LEMMA VouchInvStep ==
  ASSUME TypeOK, HealthInv, FateInv, CountInv, VouchInv, [Next]_vars
  PROVE  VouchInv'
<1>1. Healthy \subseteq Healthy' /\ Healthy \subseteq Dest
  BY HealthyGrows DEF Healthy
<1>2. CASE vouched' = vouched
  <2>1. ASSUME NEW p \in Dest, NEW e \in vouched[p]
        PROVE  e \in Entries' /\ \E d \in Healthy' \ {p} : fate'[d][e] = "accepted"
    <3>1. e \in Entries /\ \E d \in Healthy \ {p} : fate[d][e] = "accepted"
      BY DEF VouchInv, ReadinessVouchesDelivery
    <3>2. PICK d \in Healthy \ {p} : fate[d][e] = "accepted"
      BY <3>1
    <3>3. e \in Entries' /\ fate'[d][e] = "accepted"
      BY <1>1, <3>1, <3>2, AcceptedStays
    <3>4. QED
      BY <1>1, <3>2, <3>3
  <2>2. QED
    BY <1>2, <2>1 DEF VouchInv, ReadinessVouchesDelivery
<1>3. CASE Quiet /\ pc = "ready" /\ RegistryReadyHook(idx) /\ UNCHANGED <<fate, healthVars, emitted>>
  <2>1. idx \in Dest
    BY <1>3 DEF HealthInv, IndexInv
  <2>2. vouched \in [Dest -> SUBSET Nat]
    BY DEF TypeOK
  <2>3. Entries' = Entries /\ fate' = fate /\ Healthy' = Healthy
    BY <1>3 DEF Entries, Healthy, healthVars
  <2>4. ASSUME NEW p \in Dest, NEW e \in vouched'[p]
        PROVE  e \in Entries /\ \E d \in Healthy \ {p} : fate[d][e] = "accepted"
    <3>1. CASE p = idx
      <4>1. vouched'[p] = IF DeliveredByHealthySink(p, EffectiveLevel(p)) THEN Offered(p) ELSE {}
        BY <1>3, <2>2, <3>1 DEF RegistryReadyHook
      <4>2. DeliveredByHealthySink(p, EffectiveLevel(p)) /\ e \in Offered(p)
        BY <4>1
      <4>3. e \in Entries
        BY <4>2 DEF Offered
      <4>4. QED
        BY <1>3, <4>2, <4>3, WitnessAccepted
    <3>2. CASE p # idx
      <4>1. vouched'[p] = vouched[p]
        BY <1>3, <2>2, <3>2 DEF RegistryReadyHook
      <4>2. QED
        BY <4>1 DEF VouchInv, ReadinessVouchesDelivery
    <3>3. QED
      BY <3>1, <3>2
  <2>5. QED
    BY <2>3, <2>4 DEF VouchInv, ReadinessVouchesDelivery
<1>4. QED
  BY <1>2, <1>3, VouchedFrame

-----------------------------------------------------------------------------
(***************************************************************************)
(* One voice after the bootstrap.                                          *)
(***************************************************************************)

Early == {"building", "init", "initWait", "initOk", "initBad"}

\* The bootstrap entry comes when the init loop is over: the rescuer of what
\* follows it is elected for good.
RescueInv ==
  /\ (\E b \in Entries : emitted[b].by = "boot") => pc \notin Early
  /\ \A e \in Entries : \A d \in Dest :
       (\E b \in 1..e : emitted[b].by = "boot") /\ fate[d][e] = "rescued" => d = rescuer

LEMMA RescueInvInit == Init => RescueInv
  BY DEF Init, RescueInv, Entries

\* Whoever emits a bootstrap entry is past the init loop, which is never reentered.
LEMMA BootFrame ==
  ASSUME TypeOK, [Next]_vars
  PROVE  \/ pc \in Early /\ emitted' = emitted
         \/ pc \notin Early /\ pc' \notin Early
         \/ pc' = pc /\ \E level \in Levels : Emit(level, "app")
         \/ pc' = pc /\ emitted' = emitted
<1>1. CASE UNCHANGED vars \/ Terminated
  BY <1>1 DEF vars, streamVars, registryVars, Terminated
<1>2. CASE Streams
  BY <1>2, StreamFrame DEF Streams
<1>3. ASSUME NEW level \in AppLevels, Log(level)
      PROVE  pc' = pc /\ \E l \in Levels : Emit(l, "app")
  BY <1>3 DEF Log, registryVars
<1>4. CASE InitLoop
  BY <1>4, RegistryFrame DEF InitLoop, ModuleInit, OnInitReturns, OnInitThrows, OnInitPends,
     OnInitSettles, InitSucceeded, InitFailed, Early
<1>5. CASE ReadyLoop \/ Shutdown \/ ShutdownLoop
  BY <1>5, LaterFrame DEF Early
<1>6. QED
  BY <1>1, <1>2, <1>3, <1>4, <1>5 DEF Next

LEMMA BootEndsInit ==
  ASSUME TypeOK, RescueInv, [Next]_vars
  PROVE  (\E b \in Entries' : emitted'[b].by = "boot") => pc' \notin Early
<1>1. CASE pc \notin Early /\ pc' \notin Early
  BY <1>1
<1>2. CASE emitted' = emitted /\ (pc \in Early \/ pc' = pc)
  BY <1>2 DEF RescueInv, Entries
<1>3. ASSUME pc' = pc, NEW level \in Levels, Emit(level, "app")
      PROVE  (\E b \in Entries' : emitted'[b].by = "boot") => pc' \notin Early
  <2>1. "app" \in Origins
    BY DEF Origins
  <2>2. ASSUME NEW b \in Entries', emitted'[b].by = "boot"
        PROVE  b \in Entries /\ emitted[b].by = "boot"
    BY <1>3, <2>1, <2>2, EmitFates
  <2>3. QED
    BY <1>3, <2>2 DEF RescueInv
<1>4. QED
  BY <1>1, <1>2, <1>3, BootFrame

LEMMA RescueInvStep ==
  ASSUME TypeOK, RescueInv, [Next]_vars
  PROVE  RescueInv'
<1>1. (\E b \in Entries' : emitted'[b].by = "boot") => pc' \notin Early
  BY BootEndsInit
<1>2. Entries = 1..Len(emitted) /\ Len(emitted) \in Nat
  BY EntriesAre
<1>3. \A e \in Entries : 1..e \subseteq Entries
  BY <1>2
<1>4. SUFFICES ASSUME NEW e \in Entries', NEW d \in Dest, NEW b \in 1..e,
                      emitted'[b].by = "boot", fate'[d][e] = "rescued"
               PROVE  d = rescuer'
  BY <1>1 DEF RescueInv
<1>5. CASE UNCHANGED <<emitted, fate, writeFailed, pendingWrites>>
  <2>1. Entries' = Entries /\ b \in Entries /\ emitted[b].by = "boot"
    BY <1>3, <1>4, <1>5 DEF Entries
  <2>2. pc \notin Early /\ d = rescuer
    BY <1>4, <1>5, <2>1 DEF RescueInv
  <2>3. rescuer' = rescuer
    BY <2>2, FailedFrame DEF Early
  <2>4. QED
    BY <2>2, <2>3
<1>6. CASE EmitStep
  <2>1. PICK level \in Levels, by \in Origins : Emit(level, by)
    BY <1>6 DEF EmitStep
  <2>2. e \in Entries /\ fate[d][e] = "rescued"
    BY <1>4, <2>1, EmitFates
  <2>3. emitted[b].by = "boot"
    BY <1>3, <1>4, <2>1, <2>2, EmitFates
  <2>4. rescuer' = rescuer
    BY <1>6 DEF EmitStep, healthVars
  <2>5. QED
    BY <1>4, <2>2, <2>3, <2>4 DEF RescueInv
<1>7. CASE StreamStep
  <2>1. PICK c \in Dest, f \in Entries : Chunk(c, f) \/ Settle(c, f)
    BY <1>7 DEF StreamStep
  <2>2. PICK r \in Fates :
          /\ Entries' = Entries /\ emitted' = emitted
          /\ \A g \in Dest : \A h \in Entries :
               fate'[g][h] = IF g = c /\ h = f THEN r ELSE fate[g][h]
          /\ r = "rescued" => ShouldRescue(c)
    BY <2>1, StreamFates
  <2>3. rescuer' = rescuer
    BY <2>1, StreamFrame
  <2>4. CASE d = c /\ e = f
    BY <1>4, <2>2, <2>3, <2>4 DEF ShouldRescue
  <2>5. CASE ~(d = c /\ e = f)
    BY <1>4, <2>2, <2>3, <2>5 DEF RescueInv
  <2>6. QED
    BY <2>4, <2>5
<1>8. QED
  BY <1>5, <1>6, <1>7, StepKinds

-----------------------------------------------------------------------------
(***************************************************************************)
(* The teardown.                                                           *)
(***************************************************************************)

\* How many destinations the reversed loop has called so far.
Closed ==
  CASE pc = "shut" -> Len(active) - idx
    [] pc = "shutWait" -> Len(active) - idx + 1
    [] pc = "down" -> Len(active)
    [] OTHER -> 0

OrderInv ==
  /\ Len(closing) = Closed
  /\ \A i \in DOMAIN closing : closing[i] = active[Len(active) + 1 - i]

LEMMA OrderInvInit == Init => OrderInv
  BY DEF Init, OrderInv, Closed

\* A call of onShutdown takes the next destination from the end.
LEMMA CloseNext ==
  ASSUME TypeOK, IndexInv, OrderInv, pc = "shut", idx > 0,
         closing' = Append(closing, active[idx]), active' = active
  PROVE  /\ idx \in 1..Len(active)
         /\ active[idx] \in Dest
         /\ DOMAIN closing' = 1..(Len(closing) + 1)
         /\ closing'[Len(closing) + 1] = active[idx]
         /\ \A i \in DOMAIN closing : closing'[i] = closing[i]
         /\ Len(closing') = Len(active) - idx + 1
         /\ \A i \in DOMAIN closing' : closing'[i] = active'[Len(active') + 1 - i]
<1>1. /\ active \in Seq(Dest) /\ Len(active) \in Nat
      /\ closing \in Seq(Dest) /\ Len(closing) \in Nat
  BY DEF TypeOK
<1>2. idx \in 1..Len(active)
  BY <1>1 DEF IndexInv
<1>3. active[idx] \in Dest
  BY <1>1, <1>2
<1>4. Len(closing) = Len(active) - idx
  BY DEF OrderInv, Closed
<1>5. /\ Len(closing') = Len(closing) + 1
      /\ DOMAIN closing' = 1..(Len(closing) + 1)
      /\ DOMAIN closing = 1..Len(closing)
      /\ closing'[Len(closing) + 1] = active[idx]
      /\ \A i \in 1..Len(closing) : closing'[i] = closing[i]
  BY <1>1, <1>3
<1>6. ASSUME NEW i \in DOMAIN closing'
      PROVE  closing'[i] = active'[Len(active') + 1 - i]
  <2>1. CASE i \in 1..Len(closing)
    BY <1>5, <2>1 DEF OrderInv
  <2>2. CASE i = Len(closing) + 1
    <3>1. Len(active) + 1 - i = idx
      BY <1>1, <1>2, <1>4, <2>2
    <3>2. QED
      BY <1>5, <2>2, <3>1
  <2>3. QED
    BY <1>1, <1>5, <2>1, <2>2
<1>7. QED
  BY <1>1, <1>2, <1>3, <1>4, <1>5, <1>6

\* Only the shutdown loop closes; the active list is then final.
LEMMA ClosingFrame ==
  ASSUME TypeOK, IndexInv, [Next]_vars
  PROVE  \/ UNCHANGED <<pc, idx, active, closing>>
         \/ /\ pc \notin {"shut", "shutWait", "down"}
            /\ pc' \notin {"shut", "shutWait", "down"}
            /\ closing' = closing
         \/ ShutdownLoop
<1>1. CASE UNCHANGED vars \/ Terminated
  BY <1>1 DEF vars, registryVars, Terminated
<1>2. CASE Streams
  BY <1>2, StreamFrame DEF Streams
<1>3. ASSUME NEW level \in AppLevels, Log(level)
      PROVE  UNCHANGED <<pc, idx, active, closing>>
  BY <1>3 DEF Log, registryVars
<1>4. CASE InitLoop
  BY <1>4 DEF InitLoop, ModuleInit, OnInitReturns, OnInitThrows, OnInitPends,
     OnInitSettles, InitSucceeded, InitFailed, MarkFailedAndGoOn, NextDestination, Goto
<1>5. CASE ReadyLoop
  BY <1>5 DEF ReadyLoop, RegistryReadyThrows, RegistryReadyCalled, RegistryReadyAwaited,
     AnnounceBootstrap, AnnounceWarning, Goto
<1>6. CASE Shutdown
  BY <1>6 DEF Shutdown, Goto
<1>7. QED
  BY <1>1, <1>2, <1>3, <1>4, <1>5, <1>6 DEF Next

LEMMA OrderInvStep ==
  ASSUME TypeOK, IndexInv, OrderInv, [Next]_vars
  PROVE  OrderInv'
<1>0. Len(active) \in Nat /\ idx \in Nat
  BY DEF TypeOK
<1>1. CASE UNCHANGED <<pc, idx, active, closing>>
  BY <1>1 DEF OrderInv, Closed
<1>2. CASE /\ pc \notin {"shut", "shutWait", "down"}
           /\ pc' \notin {"shut", "shutWait", "down"}
           /\ closing' = closing
  <2>1. Len(closing) = 0
    BY <1>2 DEF OrderInv, Closed
  <2>2. closing \in Seq(Dest)
    BY DEF TypeOK
  <2>3. DOMAIN closing = {}
    BY <2>1, <2>2
  <2>4. QED
    BY <1>2, <2>1, <2>3 DEF OrderInv, Closed
<1>3. CASE ShutdownLoop
  <2>1. active' = active
    BY <1>3, LaterFrame
  <2>2. CASE ShutdownTick
    <3>1. pc = "tick" /\ pc' = "shut" /\ idx' = Len(active) /\ closing' = closing
      BY <2>2 DEF ShutdownTick, Goto
    <3>2. QED
      BY <1>0, <2>1, <3>1 DEF OrderInv, Closed
  <2>3. CASE OnShutdownThrows
    <3>1. /\ pc = "shut" /\ idx > 0 /\ closing' = Append(closing, active[idx])
          /\ pc' = "shut" /\ idx' = idx - 1
      BY <2>3 DEF OnShutdownThrows, Goto
    <3>2. /\ Len(closing') = Len(active) - idx + 1
          /\ \A i \in DOMAIN closing' : closing'[i] = active'[Len(active') + 1 - i]
      BY <2>1, <3>1, CloseNext
    <3>3. QED
      BY <1>0, <2>1, <3>1, <3>2 DEF OrderInv, Closed
  <2>4. CASE OnShutdownCalled
    <3>1. /\ pc = "shut" /\ idx > 0 /\ closing' = Append(closing, active[idx])
          /\ pc' = "shutWait" /\ idx' = idx
      BY <2>4 DEF OnShutdownCalled, Goto
    <3>2. /\ Len(closing') = Len(active) - idx + 1
          /\ \A i \in DOMAIN closing' : closing'[i] = active'[Len(active') + 1 - i]
      BY <2>1, <3>1, CloseNext
    <3>3. QED
      BY <1>0, <2>1, <3>1, <3>2 DEF OrderInv, Closed
  <2>5. CASE OnShutdownAwaited
    <3>1. pc = "shutWait" /\ pc' = "shut" /\ idx' = idx - 1 /\ closing' = closing
      BY <2>5 DEF OnShutdownAwaited, Goto
    <3>2. QED
      BY <1>0, <2>1, <3>1 DEF OrderInv, Closed
  <2>6. CASE ShutdownComplete
    <3>1. pc = "shut" /\ idx = 0 /\ pc' = "down" /\ closing' = closing
      BY <2>6 DEF ShutdownComplete, Goto
    <3>2. QED
      BY <1>0, <2>1, <3>1 DEF OrderInv, Closed
  <2>7. QED
    BY <1>3, <2>2, <2>3, <2>4, <2>5, <2>6 DEF ShutdownLoop
<1>4. QED
  BY <1>1, <1>2, <1>3, ClosingFrame

\* Past onApplicationShutdown the farewell was emitted, if the level lets it by;
\* a write only pends at a destination that may return a promise.
FarewellInv ==
  /\ \A d \in Dest : \A e \in Entries : fate[d][e] = "writing" => "promise" \in Write[d]
  /\ pc \in {"tick", "shut", "shutWait", "down"} /\ ModuleLevel <= Info =>
       \E e \in Entries : emitted[e].level = Info /\ emitted[e].by = "shutdown"
  /\ FarewellBeforeClose

LEMMA FarewellInvInit == Init => FarewellInv
  BY DEF Init, FarewellInv, FarewellBeforeClose, Entries

\* An entry keeps its content, and a settled entry its fate.
LEMMA SettledStays ==
  ASSUME TypeOK, [Next]_vars, NEW e \in Entries
  PROVE  /\ e \in Entries' /\ emitted'[e] = emitted[e]
         /\ \A d \in Dest : fate[d][e] \in {"accepted", "dropped"} => fate'[d][e] = fate[d][e]
<1>1. CASE UNCHANGED <<emitted, fate, writeFailed, pendingWrites>>
  BY <1>1 DEF Entries
<1>2. CASE EmitStep
  <2>1. PICK level \in Levels, by \in Origins : Emit(level, by)
    BY <1>2 DEF EmitStep
  <2>2. QED
    BY <2>1, EmitFates
<1>3. CASE StreamStep
  <2>1. PICK c \in Dest, f \in Entries : Chunk(c, f) \/ Settle(c, f)
    BY <1>3 DEF StreamStep
  <2>2. \E r \in Fates :
          /\ Entries' = Entries /\ emitted' = emitted
          /\ \A b \in Dest : \A g \in Entries :
               fate'[b][g] = IF b = c /\ g = f THEN r ELSE fate[b][g]
          /\ fate[c][f] \in {"queued", "writing"}
    BY <2>1, StreamFates
  <2>3. QED
    BY <2>2
<1>4. QED
  BY <1>1, <1>2, <1>3, StepKinds

LEMMA OnlyPromisesPend ==
  ASSUME TypeOK, FarewellInv, [Next]_vars, NEW d \in Dest, NEW e \in Entries',
         fate'[d][e] = "writing"
  PROVE  "promise" \in Write[d]
<1>1. CASE UNCHANGED <<emitted, fate, writeFailed, pendingWrites>>
  BY <1>1 DEF FarewellInv, Entries
<1>2. CASE EmitStep
  <2>1. PICK level \in Levels, by \in Origins : Emit(level, by)
    BY <1>2 DEF EmitStep
  <2>2. e \in Entries /\ fate[d][e] = "writing"
    BY <2>1, EmitFates
  <2>3. QED
    BY <2>2 DEF FarewellInv
<1>3. CASE StreamStep
  <2>1. PICK c \in Dest, f \in Entries : Chunk(c, f) \/ Settle(c, f)
    BY <1>3 DEF StreamStep
  <2>2. \E r \in Fates :
          /\ Entries' = Entries
          /\ \A b \in Dest : \A g \in Entries :
               fate'[b][g] = IF b = c /\ g = f THEN r ELSE fate[b][g]
          /\ r = "writing" => "promise" \in Write[c]
    BY <2>1, StreamFates
  <2>3. QED
    BY <2>2 DEF FarewellInv
<1>4. QED
  BY <1>1, <1>2, <1>3, StepKinds

LEMMA FarewellEmitted ==
  ASSUME TypeOK, FarewellInv, [Next]_vars, ModuleLevel <= Info,
         pc' \in {"tick", "shut", "shutWait", "down"}
  PROVE  \E e \in Entries' : emitted'[e].level = Info /\ emitted'[e].by = "shutdown"
<1>1. CASE pc \in {"tick", "shut", "shutWait", "down"}
  BY <1>1, SettledStays DEF FarewellInv
<1>2. CASE Shutdown
  <2>1. Emit(Info, "shutdown") /\ Info \in Levels /\ "shutdown" \in Origins
    BY <1>2 DEF Shutdown, Info, Levels, Origins
  <2>2. Info >= ModuleLevel
    BY DEF Info, Levels
  <2>3. Entries' \ Entries # {}
    BY <2>1, <2>2, EmitAdds
  <2>4. QED
    BY <2>1, <2>3, EmitFates
<1>3. CASE pc \notin {"tick", "shut", "shutWait", "down"} /\ ~Shutdown
  <2>1. ~ShutdownLoop /\ ~Terminated
    BY <1>3 DEF ShutdownLoop, ShutdownTick, OnShutdownThrows, OnShutdownCalled,
       OnShutdownAwaited, ShutdownComplete, Terminated
  <2>2. CASE UNCHANGED vars
    BY <1>3, <2>2 DEF vars, registryVars
  <2>3. CASE Streams
    BY <1>3, <2>3, StreamFrame DEF Streams
  <2>4. ASSUME NEW level \in AppLevels, Log(level)
        PROVE  FALSE
    BY <1>3, <2>4 DEF Log, registryVars
  <2>5. CASE InitLoop
    BY <2>5 DEF InitLoop, ModuleInit, OnInitReturns, OnInitThrows, OnInitPends,
       OnInitSettles, InitSucceeded, InitFailed, MarkFailedAndGoOn, NextDestination, Goto
  <2>6. CASE ReadyLoop
    BY <2>6 DEF ReadyLoop, RegistryReadyThrows, RegistryReadyCalled, RegistryReadyAwaited,
       AnnounceBootstrap, AnnounceWarning, Goto
  <2>7. QED
    BY <1>3, <2>1, <2>2, <2>3, <2>4, <2>5, <2>6 DEF Next
<1>4. QED
  BY <1>1, <1>2, <1>3

\* When the streams are quiet, a live destination that never returns a promise
\* has been handed every entry its level takes.
LEMMA QuietMeansHanded ==
  ASSUME TypeOK, HealthInv, FateInv, FarewellInv, Quiet,
         NEW d \in Healthy, "promise" \notin Write[d],
         NEW e \in Entries, Passes(d, emitted[e].level)
  PROVE  fate[d][e] \in {"accepted", "dropped"}
<1>1. d \in Dest /\ d \notin failed
  BY DEF HealthInv, ActiveMatchesHealth, Healthy
<1>2. \A f \in Entries : fate[d][f] # "writing"
  BY <1>1 DEF FarewellInv
<1>3. fate[d][e] # "queued"
  BY <1>1, <1>2 DEF Quiet, Writing
<1>4. fate[d][e] \notin {"filtered", "skipped", "rescued"}
  BY <1>1 DEF FateInv
<1>5. fate[d][e] \in Fates
  BY <1>1, EntriesAre DEF TypeOK
<1>6. QED
  BY <1>2, <1>3, <1>4, <1>5 DEF Fates, Settled

LEMMA FarewellInvStep ==
  ASSUME TypeOK, HealthInv, FateInv, OrderInv, FarewellInv, [Next]_vars
  PROVE  FarewellInv'
<1>1. \A d \in Dest : \A e \in Entries' : fate'[d][e] = "writing" => "promise" \in Write[d]
  BY OnlyPromisesPend
<1>2. pc' \in {"tick", "shut", "shutWait", "down"} /\ ModuleLevel <= Info =>
        \E e \in Entries' : emitted'[e].level = Info /\ emitted'[e].by = "shutdown"
  BY FarewellEmitted
<1>3. ASSUME ModuleLevel <= Info, NEW d \in Dest, Passes(d, Info), "promise" \notin Write[d],
             NEW e \in Entries, emitted[e].by = "shutdown", fate[d][e] \in {"accepted", "dropped"}
      PROVE  \E f \in Entries' :
               emitted'[f].by = "shutdown" /\ fate'[d][f] \in {"accepted", "dropped"}
  BY <1>3, SettledStays
<1>4. SUFFICES ASSUME ModuleLevel <= Info, NEW i \in DOMAIN closing',
                      Passes(closing'[i], Info), "promise" \notin Write[closing'[i]]
               PROVE  \E f \in Entries' :
                        /\ emitted'[f].by = "shutdown"
                        /\ fate'[closing'[i]][f] \in {"accepted", "dropped"}
  BY <1>1, <1>2 DEF FarewellInv, FarewellBeforeClose, Passes, StreamLevel
<1>5. \A j \in DOMAIN closing : closing[j] \in Dest
  BY DEF TypeOK
<1>6. CASE i \in DOMAIN closing /\ closing'[i] = closing[i]
  <2>1. PICK e \in Entries :
          emitted[e].by = "shutdown" /\ fate[closing[i]][e] \in {"accepted", "dropped"}
    BY <1>4, <1>6 DEF FarewellInv, FarewellBeforeClose
  <2>2. QED
    BY <1>3, <1>4, <1>5, <1>6, <2>1
<1>7. CASE OnShutdownThrows \/ OnShutdownCalled
  <2>1. /\ pc = "shut" /\ idx > 0 /\ closing' = Append(closing, active[idx])
        /\ Quiet /\ UNCHANGED <<active, emitted, fate>>
    BY <1>7 DEF OnShutdownThrows, OnShutdownCalled, streamVars
  <2>2. /\ idx \in 1..Len(active)
        /\ active[idx] \in Dest
        /\ DOMAIN closing' = 1..(Len(closing) + 1)
        /\ closing'[Len(closing) + 1] = active[idx]
        /\ \A j \in DOMAIN closing : closing'[j] = closing[j]
    BY <2>1, CloseNext DEF HealthInv
  <2>3. DOMAIN closing = 1..Len(closing) /\ Len(closing) \in Nat
    BY DEF TypeOK
  <2>4. CASE i \in DOMAIN closing
    BY <1>6, <2>2, <2>4
  <2>5. CASE i \notin DOMAIN closing
    <3>1. closing'[i] = active[idx]
      BY <2>2, <2>3, <2>5
    <3>2. active[idx] \in Healthy
      <4>1. DOMAIN active = 1..Len(active)
        BY DEF TypeOK
      <4>2. QED
        BY <2>2, <4>1 DEF HealthInv, ActiveMatchesHealth
    <3>3. PICK e \in Entries : emitted[e].level = Info /\ emitted[e].by = "shutdown"
      BY <1>4, <2>1 DEF FarewellInv
    <3>4. fate[active[idx]][e] \in {"accepted", "dropped"}
      BY <1>4, <2>1, <3>1, <3>2, <3>3, QuietMeansHanded
    <3>5. QED
      BY <2>1, <3>1, <3>3, <3>4 DEF Entries
  <2>6. QED
    BY <2>4, <2>5
<1>8. CASE closing' = closing
  BY <1>4, <1>6, <1>8
<1>9. closing' = closing \/ OnShutdownThrows \/ OnShutdownCalled
  <2>1. IndexInv
    BY DEF HealthInv
  <2>2. CASE ShutdownLoop
    BY <2>2 DEF ShutdownLoop, ShutdownTick, OnShutdownAwaited, ShutdownComplete
  <2>3. QED
    BY <2>1, <2>2, ClosingFrame
<1>10. QED
  BY <1>7, <1>8, <1>9

-----------------------------------------------------------------------------
(***************************************************************************)
(* The order of a stream, and the refinement of EntryDelivery.             *)
(***************************************************************************)

\* Behind a write in flight nothing older waits.
QueueInv ==
  \A d \in Dest : \A e, f \in Entries :
    fate[d][e] = "writing" /\ f < e => fate[d][f] \notin {"queued", "writing"}

LEMMA QueueInvInit == Init => QueueInv
  BY DEF Init, QueueInv, Entries

\* A stream step is about the oldest entry that is not settled.
LEMMA StreamTakesOldest ==
  ASSUME TypeOK, QueueInv, NEW d \in Dest, NEW e \in Entries, Chunk(d, e) \/ Settle(d, e)
  PROVE  \A f \in Entries : f < e => fate[d][f] \notin {"queued", "writing"}
<1>1. Entries = 1..Len(emitted) /\ Len(emitted) \in Nat
  BY EntriesAre
<1>2. CASE Chunk(d, e)
  <2>1. NextChunk(d, e)
    BY <1>2 DEF Chunk, Rescue, Skip, WriteReturns, WriteThrows, WriteBegins
  <2>2. \A f \in Entries : f < e => f \in 1..(e - 1)
    BY <1>1
  <2>3. QED
    BY <2>1, <2>2 DEF NextChunk, Writing
<1>3. CASE Settle(d, e)
  BY <1>3 DEF Settle, WriteFulfilled, WriteRejected, QueueInv
<1>4. QED
  BY <1>2, <1>3

LEMMA QueueInvStep ==
  ASSUME TypeOK, QueueInv, [Next]_vars
  PROVE  QueueInv'
<1>0. Entries = 1..Len(emitted) /\ Len(emitted) \in Nat
  BY EntriesAre
<1>1. CASE UNCHANGED <<emitted, fate, writeFailed, pendingWrites>>
  BY <1>1 DEF QueueInv, Entries
<1>2. CASE EmitStep
  <2>1. PICK level \in Levels, by \in Origins : Emit(level, by)
    BY <1>2 DEF EmitStep
  <2>2. \A f \in Entries' : f \in Entries \/ f = Len(emitted) + 1
    BY <1>0, <2>1, EmitEntries
  <2>3. SUFFICES ASSUME NEW d \in Dest, NEW e \in Entries', NEW f \in Entries',
                        fate'[d][e] = "writing", f < e
                 PROVE  fate'[d][f] \notin {"queued", "writing"}
    BY DEF QueueInv
  <2>4. e \in Entries /\ fate[d][e] = "writing"
    BY <2>1, <2>3, EmitFates
  <2>5. f \in Entries
    BY <1>0, <2>2, <2>3, <2>4
  <2>6. QED
    BY <2>1, <2>3, <2>4, <2>5, EmitFates DEF QueueInv
<1>3. CASE StreamStep
  <2>1. PICK d \in Dest, e \in Entries : Chunk(d, e) \/ Settle(d, e)
    BY <1>3 DEF StreamStep
  <2>2. \A f \in Entries : f < e => fate[d][f] \notin {"queued", "writing"}
    BY <2>1, StreamTakesOldest
  <2>3. PICK r \in Fates :
          /\ Entries' = Entries
          /\ \A c \in Dest : \A f \in Entries :
               fate'[c][f] = IF c = d /\ f = e THEN r ELSE fate[c][f]
          /\ r \in {"writing"} \cup Settled
    BY <2>1, StreamFates
  <2>4. SUFFICES ASSUME NEW c \in Dest, NEW g \in Entries, NEW f \in Entries,
                        fate'[c][g] = "writing", f < g
                 PROVE  fate'[c][f] \notin {"queued", "writing"}
    BY <2>3 DEF QueueInv
  <2>5. CASE c = d /\ g = e
    BY <1>0, <2>2, <2>3, <2>4, <2>5
  <2>6. CASE ~(c = d /\ g = e)
    <3>1. fate[c][f] \notin {"queued", "writing"} /\ fate[c][g] = "writing"
      BY <2>3, <2>4, <2>6 DEF QueueInv
    <3>2. ~(c = d /\ f = e)
      <4>1. fate[d][e] \in {"queued", "writing"}
        BY <2>1, StreamFates
      <4>2. QED
        BY <3>1, <4>1
    <3>3. QED
      BY <2>3, <3>1, <3>2
  <2>7. QED
    BY <2>5, <2>6
<1>4. QED
  BY <1>1, <1>2, <1>3, StepKinds

\* What Append returns, as a function.
LEMMA AppendIsFunction ==
  ASSUME NEW S, NEW s \in Seq(S), NEW x \in S
  PROVE  Append(s, x) = [i \in 1..(Len(s) + 1) |-> IF i = Len(s) + 1 THEN x ELSE s[i]]
<1>1. Append(s, x) \in Seq(S) /\ Len(Append(s, x)) = Len(s) + 1 /\ Len(s) \in Nat
  OBVIOUS
<1>2. \A i \in 1..(Len(s) + 1) : Append(s, x)[i] = IF i = Len(s) + 1 THEN x ELSE s[i]
  OBVIOUS
<1>3. Append(s, x) = [i \in 1..(Len(s) + 1) |-> Append(s, x)[i]]
  <2> DEFINE t == Append(s, x)
  <2>1. t \in Seq(S) /\ Len(t) = Len(s) + 1
    BY <1>1
  <2> HIDE DEF t
  <2>2. t \in [1..Len(t) -> S]
    BY <2>1
  <2>3. t = [i \in 1..(Len(s) + 1) |-> t[i]]
    BY <2>1, <2>2
  <2>4. QED
    BY <2>3 DEF t
<1>4. QED
  BY <1>2, <1>3

\* The history of d as EntryDelivery sees it.
Mapped(d) == [e \in Entries |-> ResultOf(fate[d][e])]

LEMMA EmitIsAccept ==
  ASSUME TypeOK, NEW level \in Levels, NEW by \in Origins, Emit(level, by),
         UNCHANGED healthVars
  PROVE  [Promise!Next]_(Promise!deliveryVars)
<1>0. UNCHANGED <<Healthy, failed>>
  BY DEF Healthy, healthVars
<1>1. CASE ~(level >= ModuleLevel)
  <2>1. UNCHANGED <<emitted, fate>>
    BY <1>1 DEF Emit, streamVars
  <2>2. QED
    BY <1>0, <2>1 DEF Promise!deliveryVars, Entries
<1>2. CASE level >= ModuleLevel
  <2> DEFINE takers == {d \in Dest : Passes(d, level)}
             n == Len(emitted)
  <2>1. Entries = 1..n /\ n \in Nat
    BY EntriesAre
  <2>2. Entries' = 1..(n + 1)
    BY <1>2, EmitEntries
  <2>3. ASSUME NEW d \in Dest
        PROVE  Mapped(d)' = Append(Mapped(d), IF d \in takers THEN "pending" ELSE "notTaken")
    <3> DEFINE new == IF d \in takers THEN "pending" ELSE "notTaken"
    <3>1. /\ \A e \in Entries : fate'[d][e] = fate[d][e]
          /\ fate'[d][n + 1] = IF Passes(d, level) THEN "queued" ELSE "filtered"
      BY <2>1, <2>2, EmitFates
    <3>2. ResultOf(fate'[d][n + 1]) = new
      BY <3>1 DEF ResultOf
    <3>3. Mapped(d)' = [e \in 1..(n + 1) |-> ResultOf(fate'[d][e])]
      BY <2>2 DEF Mapped, ResultOf
    <3> DEFINE old == Mapped(d)
    <3>4. old = [e \in 1..n |-> ResultOf(fate[d][e])]
      BY <2>1 DEF Mapped
    <3> HIDE DEF new, n
    <3>5. Append(old, new) = [e \in 1..(n + 1) |-> IF e = n + 1 THEN new ELSE old[e]]
      <4>1. new \in {"pending", "notTaken"}
        BY DEF new
      <4>2. \A e \in 1..n : ResultOf(fate[d][e]) \in Fates \cup {"pending", "notTaken"}
        BY <2>1 DEF ResultOf, TypeOK, Entries
      <4>3. old \in Seq(Fates \cup {"pending", "notTaken"}) /\ Len(old) = n
        <5> HIDE DEF old
        <5>1. old \in [1..n -> Fates \cup {"pending", "notTaken"}]
          BY <3>4, <4>2
        <5>2. QED
          BY <2>1, <5>1
      <4> HIDE DEF old
      <4>4. QED
        BY <4>1, <4>3, AppendIsFunction
    <3>6. ASSUME NEW e \in 1..(n + 1)
          PROVE  ResultOf(fate'[d][e]) = IF e = n + 1 THEN new ELSE old[e]
      <4>1. CASE e = n + 1
        BY <3>2, <4>1
      <4>2. CASE e \in 1..n
        BY <2>1, <3>1, <3>4, <4>2
      <4>3. QED
        BY <2>1, <4>1, <4>2
    <3>7. Mapped(d)' = Append(old, new)
      BY <3>3, <3>5, <3>6 DEF n
    <3>8. QED
      BY <3>7 DEF new
  <2>4. takers \in SUBSET Dest
    OBVIOUS
  <2>5. Promise!Accept(takers)
    <3> HIDE DEF takers
    <3>1. [d \in Dest |-> Mapped(d)]' =
            [d \in Dest |-> Append(Mapped(d), IF d \in takers THEN "pending" ELSE "notTaken")]
      BY <2>3
    <3>2. QED
      BY <1>0, <3>1 DEF Promise!Accept, Mapped
  <2>6. QED
    BY <2>4, <2>5 DEF Promise!Next
<1>3. QED
  BY <1>1, <1>2

\* A stream step settles the oldest entry of its destination, or hands on a chunk.
LEMMA StreamIsSettle ==
  ASSUME TypeOK, HealthInv, QueueInv, NEW d \in Dest, NEW e \in Entries,
         Chunk(d, e) \/ Settle(d, e)
  PROVE  [Promise!Next]_(Promise!deliveryVars)
<1>1. PICK r \in Fates :
        /\ Entries' = Entries /\ emitted' = emitted
        /\ \A c \in Dest : \A f \in Entries :
             fate'[c][f] = IF c = d /\ f = e THEN r ELSE fate[c][f]
        /\ fate[d][e] \in {"queued", "writing"}
        /\ r \in {"writing"} \cup Settled
        /\ r \in {"skipped", "rescued"} => d \in failed
        /\ r = "rescued" => ShouldRescue(d)
  BY StreamFates
<1>2. UNCHANGED <<Healthy, failed>>
  BY StreamFrame DEF Healthy
<1>3. Entries = 1..Len(emitted) /\ Len(emitted) \in Nat
  BY EntriesAre
<1>4. \A f \in Entries : f < e => fate[d][f] \notin {"queued", "writing"}
  BY StreamTakesOldest
<1> DEFINE results == [c \in Dest |-> Mapped(c)]
<1>5. results' = [results EXCEPT ![d][e] = ResultOf(r)]
  <2>1. ASSUME NEW c \in Dest
        PROVE  Mapped(c)' = [f \in Entries |-> IF c = d /\ f = e THEN ResultOf(r) ELSE Mapped(c)[f]]
    BY <1>1 DEF Mapped
  <2>2. ASSUME NEW c \in Dest
        PROVE  Mapped(c)' = IF c = d THEN [Mapped(c) EXCEPT ![e] = ResultOf(r)] ELSE Mapped(c)
    <3>1. DOMAIN Mapped(c) = Entries /\ Mapped(c) = [f \in Entries |-> Mapped(c)[f]]
      BY DEF Mapped
    <3> HIDE DEF Mapped
    <3>2. QED
      BY <2>1, <3>1
  <2> HIDE DEF Mapped
  <2>3. results' = [c \in Dest |-> IF c = d THEN [Mapped(c) EXCEPT ![e] = ResultOf(r)] ELSE Mapped(c)]
    BY <2>2
  <2>4. QED
    BY <2>3
<1>6. results[d][e] = "pending"
  BY <1>1 DEF Mapped, ResultOf
<1>7. CASE r = "writing"
  <2>1. ResultOf(r) = "pending"
    BY <1>7 DEF ResultOf
  <2>2. results' = results
    <3>1. ASSUME NEW c \in Dest
          PROVE  Mapped(c)' = Mapped(c)
      BY <1>1, <2>1, <1>6 DEF Mapped
    <3>2. QED
      BY <3>1
  <2>3. QED
    BY <1>2, <2>2 DEF Promise!deliveryVars, Mapped
<1>8. CASE r \in Settled
  <2>1. ResultOf(r) = r /\ r \in Promise!Results
    BY <1>8 DEF ResultOf, Settled, Promise!Results
  <2>2. \A f \in 1..(e - 1) : results[d][f] # "pending"
    <3>1. ASSUME NEW f \in 1..(e - 1)
          PROVE  f \in Entries /\ f < e
      BY <1>3
    <3>2. ASSUME NEW f \in Entries, fate[d][f] \notin {"queued", "writing"}
          PROVE  results[d][f] # "pending"
      <4>1. fate[d][f] \in Fates
        BY <1>3 DEF TypeOK
      <4>2. QED
        BY <3>2, <4>1 DEF Mapped, ResultOf, Fates, Settled
    <3>3. QED
      BY <1>4, <3>1, <3>2
  <2>3. r = "rescued" => Healthy = {}
    BY <1>1 DEF ShouldRescue
  <2>4. Promise!Settle(d, e, r)
    BY <1>1, <1>2, <1>5, <1>6, <2>1, <2>2, <2>3 DEF Promise!Settle, Mapped
  <2>5. e \in DOMAIN results[d]
    BY DEF Mapped
  <2>6. QED
    BY <2>1, <2>4, <2>5 DEF Promise!Next, Promise!SettleNext, Mapped
<1>9. QED
  BY <1>1, <1>7, <1>8

\* The registry decides of one destination at a time, live or dead.
LEMMA HealthKinds ==
  ASSUME [Next]_vars
  PROVE  \/ UNCHANGED <<failed, healthy>>
         \/ InitSucceeded
         \/ MarkFailedAndGoOn /\ pc \in {"init", "initBad"}
<1>1. CASE UNCHANGED vars \/ Terminated
  BY <1>1 DEF vars, healthVars, Terminated
<1>2. CASE Streams
  BY <1>2, StreamFrame DEF Streams
<1>3. ASSUME NEW level \in AppLevels, Log(level)
      PROVE  UNCHANGED <<failed, healthy>>
  BY <1>3 DEF Log, healthVars
<1>4. CASE InitLoop
  BY <1>4 DEF InitLoop, ModuleInit, OnInitReturns, OnInitThrows, OnInitPends,
     OnInitSettles, InitFailed, healthVars
<1>5. CASE ReadyLoop \/ Shutdown \/ ShutdownLoop
  BY <1>5, LaterFrame DEF healthVars
<1>6. QED
  BY <1>1, <1>2, <1>3, <1>4, <1>5 DEF Next

LEMMA StepIsDeliveryStep ==
  ASSUME TypeOK, HealthInv, QueueInv, [Next]_vars
  PROVE  [Promise!Next]_(Promise!deliveryVars)
<1>1. CASE InitSucceeded
  <2>1. idx \in Dest /\ idx \notin failed /\ idx \notin Healthy
    BY <1>1, Unresolved DEF InitSucceeded
  <2>2. UNCHANGED <<emitted, fate, failed>>
    BY <1>1 DEF InitSucceeded, streamVars
  <2>3. healthy' = [healthy EXCEPT ![idx] = EffectiveLevel(idx)]
    BY <1>1 DEF InitSucceeded, MarkHealthy
  <2>4. EffectiveLevel(idx) # Absent
    BY <2>1, EffectiveLevelType DEF Levels, Absent
  <2>5. Healthy' = Healthy \cup {idx}
    BY <2>1, <2>3, <2>4 DEF Healthy, TypeOK, HealthTypeOK
  <2>6. Promise!ComeUp(idx)
    BY <2>1, <2>2, <2>5 DEF Promise!ComeUp, Entries
  <2>7. QED
    BY <2>1, <2>6 DEF Promise!Next
<1>2. CASE MarkFailedAndGoOn /\ pc \in {"init", "initBad"}
  <2>1. idx \in Dest /\ idx \notin failed /\ idx \notin Healthy
    BY <1>2, Unresolved
  <2>2. UNCHANGED <<emitted, fate, healthy>> /\ failed' = failed \cup {idx}
    BY <1>2 DEF MarkFailedAndGoOn, MarkFailed, streamVars
  <2>3. Promise!Die(idx)
    BY <2>1, <2>2 DEF Promise!Die, Entries, Healthy
  <2>4. QED
    BY <2>1, <2>3 DEF Promise!Next
<1>3. CASE UNCHANGED <<failed, healthy>>
  <2>1. CASE UNCHANGED <<emitted, fate, writeFailed, pendingWrites>>
    BY <1>3, <2>1 DEF Promise!deliveryVars, Healthy, Entries
  <2>2. CASE EmitStep
    BY <2>2, EmitIsAccept DEF EmitStep
  <2>3. CASE StreamStep
    BY <2>3, StreamIsSettle DEF StreamStep
  <2>4. QED
    BY <2>1, <2>2, <2>3, StepKinds
<1>4. QED
  BY <1>1, <1>2, <1>3, HealthKinds

-----------------------------------------------------------------------------
(***************************************************************************)
(* The theorems about delivery.                                            *)
(***************************************************************************)

DeliveryInv ==
  /\ LifecycleInv
  /\ FateInv
  /\ CountInv
  /\ SkipInv
  /\ VouchInv
  /\ RescueInv
  /\ OrderInv
  /\ FarewellInv
  /\ QueueInv

\* The inductive invariant of delivery: the lifecycle's, what each fate implies,
\* the counters, what the rescuer passed over, what readiness vouched for, who
\* rescues after the bootstrap entry, how far the teardown is, and the order of a stream.
THEOREM DeliveryInvariant == Spec => []DeliveryInv
<1>1. Init => DeliveryInv
  BY InitType, HealthInvInit, RescuerInvInit, FateInvInit, CountInvInit, SkipInvInit,
     VouchInvInit, RescueInvInit, OrderInvInit, FarewellInvInit,
     QueueInvInit DEF DeliveryInv, LifecycleInv
<1>2. DeliveryInv /\ [Next]_vars => DeliveryInv'
  BY TypeStep, HealthInvStep, RescuerInvStep, FateInvStep, CountInvStep, SkipInvStep,
     VouchInvStep, RescueInvStep, OrderInvStep, FarewellInvStep, QueueInvStep
     DEF DeliveryInv, LifecycleInv, HealthInv
<1>3. QED
  BY <1>1, <1>2, PTL DEF Spec

\* A destination's counter of pending writes is 1 exactly while its one write in
\* flight has not settled (markWritePending, markWriteSettled).
THEOREM PendingCountIsExact == Spec => []PendingCountsInFlight
<1>1. DeliveryInv => PendingCountsInFlight
  BY DEF DeliveryInv, CountInv
<1>2. QED
  BY <1>1, DeliveryInvariant, PTL

\* Both records the fan-out decides by are exact at every step.
THEOREM ExactRecords == Spec => []RecordsAreExact
<1>1. DeliveryInv => RecordsAreExact
  BY DEF DeliveryInv, LifecycleInv, HealthInv, CountInv, RecordsAreExact
<1>2. QED
  BY <1>1, DeliveryInvariant, PTL

\* heldEntriesDeliveredElsewhere is right about every entry logged so far: it was
\* accepted by a live sink other than the asker (deliveredByHealthySink).
THEOREM ReadinessIsSound == Spec => []ReadinessVouchesDelivery
<1>1. DeliveryInv => ReadinessVouchesDelivery
  BY DEF DeliveryInv, VouchInv
<1>2. QED
  BY <1>1, DeliveryInvariant, PTL

\* When all destinations failed, the rescuer's level is low enough for every
\* entry any of them was to receive, and it passed over none.
LEMMA NotSilent == DeliveryInv => TotalFailureIsNotSilent
<1> SUFFICES ASSUME DeliveryInv, failed = Dest,
                    NEW e \in Entries, NEW d \in Dest, fate[d][e] # "filtered"
             PROVE  fate[rescuer][e] \notin {"filtered", "skipped"}
  BY DEF TotalFailureIsNotSilent
<1>1. TypeOK /\ HealthInv /\ RescuerInv /\ FateInv /\ SkipInv
  BY DEF DeliveryInv, LifecycleInv
<1>2. Healthy = {}
  BY <1>1 DEF HealthInv, ActiveMatchesHealth, Healthy
<1>3. /\ rescuer \in Dest
      /\ EffectiveLevel(rescuer) < EffectiveLevel(d) \/ EffectiveLevel(rescuer) = EffectiveLevel(d)
  BY <1>1 DEF RescuerInv, RescuerIsFirstOfTheLowest
<1>4. emitted[e].level \in Levels
  BY <1>1, LevelType
<1>5. emitted[e].level >= EffectiveLevel(d)
  BY <1>1, <1>4, FilterAgrees DEF FateInv
<1>6. emitted[e].level >= EffectiveLevel(rescuer)
  BY <1>3, <1>4, <1>5, EffectiveLevelType DEF Levels
<1>7. fate[rescuer][e] # "filtered"
  BY <1>1, <1>3, <1>4, <1>6, FilterAgrees DEF FateInv
<1>8. rescuer # NoDestination
  BY <1>3 DEF Dest, NoDestination
<1>9. fate[rescuer][e] # "skipped"
  BY <1>1, <1>2, <1>8 DEF SkipInv
<1>10. QED
  BY <1>7, <1>9

\* A total failure of initialization is not silent: no entry that some
\* destination was configured to receive is filtered or skipped by the rescuer
\* (markFailed, shouldRescue, destinationToStream).
THEOREM TotalFailureKeepsTheUnion == Spec => []TotalFailureIsNotSilent
<1>1. DeliveryInv => TotalFailureIsNotSilent
  BY NotSilent
<1>2. QED
  BY <1>1, DeliveryInvariant, PTL

\* From the bootstrap entry on no two destinations put the same entry on stdout
\* in place of a sink (shouldRescue, announceBootstrap).
THEOREM OneRescuePerEntry == Spec => []RescuedOnceAfterBoot
<1>1. DeliveryInv => RescuedOnceAfterBoot
  BY DEF DeliveryInv, RescueInv, RescuedOnceAfterBoot
<1>2. QED
  BY <1>1, DeliveryInvariant, PTL

\* Every live destination is closed once, last registered first, whichever hooks
\* throw; and a sink that never returns a promise was handed the farewell entry
\* before its onShutdown (onApplicationShutdown).
THEOREM OrderlyTeardown == Spec => []TeardownIsOrderly
<1>1. DeliveryInv => ReverseOrderShutdown
  BY DEF DeliveryInv, OrderInv, Closed, ReverseOrderShutdown
<1>2. DeliveryInv => FarewellBeforeClose
  BY DEF DeliveryInv, FarewellInv
<1>3. DeliveryInv => TeardownIsOrderly
  BY <1>1, <1>2 DEF TeardownIsOrderly
<1>4. QED
  BY <1>3, DeliveryInvariant, PTL

\* Whatever the sinks and the registry do, each destination settles what its
\* level takes once, in logging order, passing over entries only when dead, and
\* lets stdout stand in only while no destination is live: the fan-out
\* implements the safety part of EntryDelivery (destinationToStream).
THEOREM FanOutDelivers == Spec => Promise!Spec
<1>1. Init => Promise!Init
  <2>1. SUFFICES ASSUME Init PROVE Promise!Init
    OBVIOUS
  <2>2. Entries = {} /\ Healthy = {} /\ failed = {}
    BY <2>1 DEF Init, HealthInit, Healthy, Entries
  <2>3. ASSUME NEW d \in Dest PROVE [e \in Entries |-> ResultOf(fate[d][e])] = <<>>
    BY <2>2
  <2>4. QED
    BY <2>2, <2>3 DEF Promise!Init
<1>2. DeliveryInv /\ [Next]_vars => [Promise!Next]_(Promise!deliveryVars)
  BY StepIsDeliveryStep DEF DeliveryInv, LifecycleInv
<1>3. QED
  BY <1>1, <1>2, DeliveryInvariant, PTL DEF Spec, Promise!Spec
=============================================================================
