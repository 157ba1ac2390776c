---------------------------- MODULE MCPrettyFanOut ----------------------------
(* The pretty sink between an unreliable stricter sink and stdout. *)
EXTENDS PrettyFanOut

\* Sink 3 is synchronous, takes what the pretty sink takes and never fails a
\* write, as stdout; its initialization may fail.
MC_MinLevel3 == <<Warn, Absent, Absent>>
MC_Hook3     == <<{"throws", "promise"}, {"promise"}, {"throws", "returns"}>>
MC_Write3    == <<{"throws", "promise"}, {"returns", "throws"}, {"returns"}>>

\* Alone.
MC_MinLevel1 == <<Absent>>
MC_Hook1     == <<{"promise"}>>
MC_Write1    == <<{"returns"}>>
=============================================================================
