------------------------ MODULE PrettyDevDestination -------------------------
(***************************************************************************)
(* The development sink that renders entries through pino-pretty           *)
(* (destinations/pretty-dev.destination.ts).                               *)
(*                                                                         *)
(* Its transform exists only once onInit has imported the optional peer,   *)
(* so what is written earlier is held in a bounded buffer, and every way   *)
(* out of that state has to decide what becomes of the held entries.       *)
(*                                                                         *)
(* The first part defines the class: its fields and the effect of each     *)
(* method, which PrettyFanOut combines with the steps of the fan-out.  The *)
(* second part drives one object on its own, by any caller that follows    *)
(* the lifecycle: also one that never registers the destination.           *)
(***************************************************************************)
EXTENDS Integers, Sequences

CONSTANTS
  MaxBuffered,  \* MAX_BUFFERED_ENTRIES
  MaxBytes,     \* MAX_BUFFERED_BYTES
  Sizes,        \* the UTF-8 sizes entries have
  MaxWrites     \* bound: how many entries are written

ASSUME PrettyAssumption ==
  /\ MaxBuffered \in Nat
  /\ MaxBytes \in Nat
  /\ Sizes \subseteq Nat \ {0}
  /\ MaxWrites \in Nat

VARIABLES
  stream,            \* the transform: none, open or ended
  initFailed,
  buffer,            \* entries held, with their sizes
  bufferedBytes,
  bufferOverflowed,
  resolved           \* history: what became of each entry, in the order decided

prettyVars == <<stream, initFailed, buffer, bufferedBytes, bufferOverflowed, resolved>>

Outcomes == {"rendered", "raw", "discarded", "dropped"}
Shown    == {"rendered", "raw"}

Held     == {buffer[i].entry : i \in DOMAIN buffer}
Entries(outcomes) ==
  {resolved[i].entry : i \in {j \in DOMAIN resolved : resolved[j].as \in outcomes}}

PrettyInit ==
  /\ stream = "none"
  /\ initFailed = FALSE
  /\ buffer = <<>>
  /\ bufferedBytes = 0
  /\ bufferOverflowed = FALSE
  /\ resolved = <<>>

-----------------------------------------------------------------------------
(***************************************************************************)
(* The methods.                                                            *)
(***************************************************************************)

As(outcome, entry) == [entry |-> entry, as |-> outcome]

\* What flushBuffer hands to emit, oldest first.
Flushed(outcome) == [i \in DOMAIN buffer |-> As(outcome, buffer[i].entry)]

\* Mutant: the counter of held bytes is not reset with the buffer.
EmptyBufferOnly ==
  /\ buffer' = <<>>
  /\ UNCHANGED bufferedBytes

EmptyBuffer ==
  /\ buffer' = <<>>
  /\ bufferedBytes' = 0

\* The buffer is emptied before anything is emitted.
FlushBuffer(outcome) ==
  /\ EmptyBuffer
  /\ resolved' = resolved \o Flushed(outcome)

\* An ended transform takes nothing more.
WriteToStream(entry) ==
  /\ stream # "none"
  /\ resolved' = Append(resolved, As(IF stream = "open" THEN "rendered" ELSE "dropped", entry))
  /\ UNCHANGED <<stream, initFailed, buffer, bufferedBytes, bufferOverflowed>>

WriteWhenFailed(entry) ==
  /\ stream = "none"
  /\ initFailed
  /\ resolved' = Append(resolved, As("dropped", entry))
  /\ UNCHANGED <<stream, initFailed, buffer, bufferedBytes, bufferOverflowed>>

WriteWhenOverflowed(entry) ==
  /\ stream = "none" /\ ~initFailed
  /\ bufferOverflowed
  /\ resolved' = Append(resolved, As("raw", entry))
  /\ UNCHANGED <<stream, initFailed, buffer, bufferedBytes, bufferOverflowed>>

Overflows(bytes) ==
  \/ Len(buffer) >= MaxBuffered
  \/ bufferedBytes + bytes > MaxBytes

\* Mutant: the overflowing entry goes out before the ones that were held.
WriteOverflowsFirst(entry, bytes) ==
  /\ stream = "none" /\ ~initFailed /\ ~bufferOverflowed
  /\ Overflows(bytes)
  /\ bufferOverflowed' = TRUE
  /\ EmptyBuffer
  /\ resolved' = <<As("raw", entry)>> \o resolved \o Flushed("raw")
  /\ UNCHANGED <<stream, initFailed>>

\* Mutant: only the buffer is drained; the entry that found it full is forgotten.
WriteOverflowsForgets(entry, bytes) ==
  /\ stream = "none" /\ ~initFailed /\ ~bufferOverflowed
  /\ Overflows(bytes)
  /\ bufferOverflowed' = TRUE
  /\ FlushBuffer("raw")
  /\ UNCHANGED <<stream, initFailed>>

WriteOverflows(entry, bytes) ==
  /\ stream = "none" /\ ~initFailed /\ ~bufferOverflowed
  /\ Overflows(bytes)
  /\ bufferOverflowed' = TRUE
  /\ EmptyBuffer
  /\ resolved' = Append(resolved \o Flushed("raw"), As("raw", entry))
  /\ UNCHANGED <<stream, initFailed>>

WriteHolds(entry, bytes) ==
  /\ stream = "none" /\ ~initFailed /\ ~bufferOverflowed
  /\ ~Overflows(bytes)
  /\ buffer' = Append(buffer, [entry |-> entry, bytes |-> bytes])
  /\ bufferedBytes' = bufferedBytes + bytes
  /\ UNCHANGED <<stream, initFailed, bufferOverflowed, resolved>>

WriteEntry(entry, bytes) ==
  \/ WriteToStream(entry)
  \/ WriteWhenFailed(entry)
  \/ WriteWhenOverflowed(entry)
  \/ WriteOverflows(entry, bytes)
  \/ WriteHolds(entry, bytes)

\* onInit refuses (production), or the import or build() of pino-pretty fails:
\* the buffer stays as it is, for onRegistryReady to decide.
InitFails ==
  /\ initFailed' = TRUE
  /\ UNCHANGED <<stream, buffer, bufferedBytes, bufferOverflowed, resolved>>

\* The transform exists: what is held is replayed through it, an entry it throws
\* on goes out raw.
InitSucceeds ==
  /\ stream' = "open"
  /\ \E replay \in [DOMAIN buffer -> Shown] :
       resolved' = resolved \o [i \in DOMAIN buffer |-> As(replay[i], buffer[i].entry)]
  /\ EmptyBuffer
  /\ UNCHANGED <<initFailed, bufferOverflowed>>

OnRegistryReady(heldEntriesDeliveredElsewhere) ==
  /\ FlushBuffer(IF heldEntriesDeliveredElsewhere THEN "discarded" ELSE "raw")
  /\ UNCHANGED <<stream, initFailed, bufferOverflowed>>

\* Shut down before any onInit: what is held goes out raw.
ShutdownBeforeInit ==
  /\ stream = "none"
  /\ FlushBuffer("raw")
  /\ UNCHANGED <<stream, initFailed, bufferOverflowed>>

ShutdownStream ==
  /\ stream = "open"
  /\ stream' = "ended"
  /\ UNCHANGED <<initFailed, buffer, bufferedBytes, bufferOverflowed, resolved>>

OnShutdown == ShutdownBeforeInit \/ ShutdownStream

-----------------------------------------------------------------------------
(***************************************************************************)
(* One object on its own.                                                  *)
(***************************************************************************)
VARIABLES
  phase,    \* where its caller is in the lifecycle
  written   \* how many entries were written: they are 1..written

vars == <<prettyVars, phase, written>>

CallWrite ==
  /\ written < MaxWrites
  /\ \E bytes \in Sizes : WriteEntry(written + 1, bytes)
  /\ written' = written + 1
  /\ UNCHANGED phase

\* The production check runs in the call itself, before the first await.
CallOnInitRefused ==
  /\ phase = "constructed"
  /\ InitFails
  /\ phase' = "failed"
  /\ UNCHANGED written

CallOnInit ==
  /\ phase = "constructed"
  /\ phase' = "importing"
  /\ UNCHANGED <<prettyVars, written>>

ImportFails ==
  /\ phase = "importing"
  /\ InitFails
  /\ phase' = "failed"
  /\ UNCHANGED written

ImportResolves ==
  /\ phase = "importing"
  /\ InitSucceeds
  /\ phase' = "initialized"
  /\ UNCHANGED written

\* Every registered destination is told, live or failed.
CallOnRegistryReady ==
  /\ phase \in {"initialized", "failed"}
  /\ \E delivered \in BOOLEAN : OnRegistryReady(delivered)
  /\ phase' = IF phase = "initialized" THEN "ready" ELSE "closed"
  /\ UNCHANGED written

\* A live destination, or one that was never registered.
CallOnShutdown ==
  /\ phase \in {"ready", "constructed"}
  /\ OnShutdown
  /\ phase' = "closed"
  /\ UNCHANGED written

\* Nothing more has to happen to a closed destination.
Closed ==
  /\ phase = "closed"
  /\ UNCHANGED vars

Init == PrettyInit /\ phase = "constructed" /\ written = 0

Next ==
  \/ CallWrite
  \/ CallOnInitRefused
  \/ CallOnInit
  \/ ImportFails
  \/ ImportResolves
  \/ CallOnRegistryReady
  \/ CallOnShutdown
  \/ Closed

Spec == Init /\ [][Next]_vars

-----------------------------------------------------------------------------
(***************************************************************************)
(* Properties.                                                             *)
(***************************************************************************)

\* The size of what is held, added up over the buffer.
HeldBytes ==
  LET total[i \in 0..Len(buffer)] ==
        IF i = 0 THEN 0 ELSE total[i - 1] + buffer[i].bytes
  IN  total[Len(buffer)]

\* The buffer never exceeds either limit, and the running byte count, which the
\* limit is checked against, is the size of what is held (write, flushBuffer).
BufferIsBounded ==
  /\ Len(buffer) <= MaxBuffered
  /\ bufferedBytes <= MaxBytes
  /\ bufferedBytes = HeldBytes

\* What is shown is shown in the order it was written, whichever mix of replay,
\* overflow, drain and direct writes shows it ("Draining first is what keeps the
\* output in order").  In particular nothing is shown twice.
ShownInOrder ==
  \A i, j \in DOMAIN resolved :
    /\ i < j
    /\ resolved[i].as \in Shown
    /\ resolved[j].as \in Shown
    => resolved[i].entry < resolved[j].entry

\* Every entry written is held or was resolved: no path loses one silently, and
\* one is dropped only after initialization failed or the transform ended.
EveryWriteIsAccountedFor ==
  /\ Held \cup Entries(Outcomes) = 1..written
  /\ Entries({"dropped"}) # {} => initFailed \/ stream = "ended"

\* Buffer, byte count and outcomes stay in step: within both limits, and with
\* nothing written unaccounted for.
BufferIsExact == BufferIsBounded /\ EveryWriteIsAccountedFor
=============================================================================
