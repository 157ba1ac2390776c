-------------------------- MODULE DestinationHealth --------------------------
(***************************************************************************)
(* The init-health record shared by the destination registry, which writes *)
(* it while it initializes the sinks, and by the write fan-out, which      *)
(* consults it for every entry (services/destination-health.service.ts).   *)
(*                                                                         *)
(* The record is passive: its operations are called by the actions of      *)
(* DestinationFanOut.  Each operation constrains only the fields it writes *)
(* so that a caller can combine several of them in one step.               *)
(*                                                                         *)
(* Destinations are numbered in registration order.  Levels are indices    *)
(* into LOG_LEVEL_PRIORITY (trace = 0 ... fatal = 5), the comparison key   *)
(* the code uses.                                                          *)
(***************************************************************************)
EXTENDS Integers

CONSTANTS
  N,            \* how many destinations are registered
  ModuleLevel,  \* options.level
  MinLevel      \* the minLevel of each destination, Absent when it has none

Dest   == 1..N
Levels == 0..5
Absent == -1

Info == 2
Warn == 3

NoDestination == 0
Infinity      == 6       \* above every level

ASSUME HealthAssumption ==
  /\ N \in Nat \ {0}
  /\ ModuleLevel \in Levels
  /\ MinLevel \in [Dest -> Levels \cup {Absent}]

VARIABLES
  failed,         \* destinations whose onInit threw or rejected
  healthy,        \* effective level of each destination that initialized
  writeFailed,    \* destinations whose write threw or rejected at least once
  pendingWrites,  \* asynchronous writes in flight, per destination
  rescuer,        \* the failed destination that speaks when nothing came up
  rescuerLevel

healthVars == <<failed, healthy, writeFailed, pendingWrites, rescuer, rescuerLevel>>

Healthy == {d \in Dest : healthy[d] # Absent}

HealthInit ==
  /\ failed = {}
  /\ healthy = [d \in Dest |-> Absent]
  /\ writeFailed = {}
  /\ pendingWrites = [d \in Dest |-> 0]
  /\ rescuer = NoDestination
  /\ rescuerLevel = Infinity

-----------------------------------------------------------------------------

(***************************************************************************)
(* The stricter of the module level and the destination's own minLevel:    *)
(* what the registry records, because Pino filters at the instance level   *)
(* before the multistream sees the entry.                                  *)
(***************************************************************************)
EffectiveLevel(d) ==
  IF MinLevel[d] # Absent /\ MinLevel[d] > ModuleLevel
  THEN MinLevel[d]
  ELSE ModuleLevel

MarkHealthy(d, level) == healthy' = [healthy EXCEPT ![d] = level]

(***************************************************************************)
(* The comparison is strict: ties keep the destination marked first.       *)
(***************************************************************************)

\* Mutant: the first destination to fail stays the rescuer.
MarkFailedFirstComes(d, level) ==
  /\ failed' = failed \cup {d}
  /\ IF rescuer = NoDestination
     THEN rescuer' = d /\ rescuerLevel' = level
     ELSE UNCHANGED <<rescuer, rescuerLevel>>

\* Mutant: the comparison is not strict.
MarkFailedTiesMove(d, level) ==
  /\ failed' = failed \cup {d}
  /\ IF level <= rescuerLevel
     THEN rescuer' = d /\ rescuerLevel' = level
     ELSE UNCHANGED <<rescuer, rescuerLevel>>

MarkFailed(d, level) ==
  /\ failed' = failed \cup {d}
  /\ IF level < rescuerLevel
     THEN rescuer' = d /\ rescuerLevel' = level
     ELSE UNCHANGED <<rescuer, rescuerLevel>>

MarkWriteFailed(d) == writeFailed' = writeFailed \cup {d}

MarkWritePending(d) == pendingWrites' = [pendingWrites EXCEPT ![d] = @ + 1]

\* Every call is paired with an earlier MarkWritePending, so the code's default
\* for a destination never counted is never used.
MarkWriteSettled(d) == pendingWrites' = [pendingWrites EXCEPT ![d] = @ - 1]

-----------------------------------------------------------------------------

IsFailed(d) == d \in failed

\* Mutant: every failed sink rescues.
ShouldRescueAnyFailed(d) == Healthy = {}

ShouldRescue(d) == Healthy = {} /\ rescuer = d

\* Mutant: writes in flight are trusted to succeed.
DeliveredTrustingPending(asking, level) ==
  \E d \in Healthy \ {asking} :
    /\ d \notin writeFailed
    /\ healthy[d] <= level

(***************************************************************************)
(* May the asker trust that another live sink took everything it took?     *)
(* A witness is healthy, not the asker, has no failed write, no write in   *)
(* flight, and a level at or below the asker's.                            *)
(***************************************************************************)
DeliveredByHealthySink(asking, level) ==
  \E d \in Healthy \ {asking} :
    /\ d \notin writeFailed
    /\ pendingWrites[d] <= 0
    /\ healthy[d] <= level

-----------------------------------------------------------------------------

HealthTypeOK ==
  /\ failed \subseteq Dest
  /\ healthy \in [Dest -> Levels \cup {Absent}]
  /\ writeFailed \subseteq Dest
  /\ pendingWrites \in [Dest -> Int]
  /\ rescuer \in Dest \cup {NoDestination}
  /\ rescuerLevel \in Levels \cup {Infinity}
=============================================================================
