------------------------------ MODULE MCFanOut -------------------------------
(* Small instances of DestinationFanOut. *)
EXTENDS DestinationFanOut

\* Two sinks at different levels: anything may happen to either.
MC_MinLevel2 == <<Warn, Absent>>
MC_Any2      == [d \in 1..2 |-> Behaviours]

\* Three sinks, the two last at the lower level: a rescuer that moves, a tie.
MC_MinLevel3 == <<Warn, Info, Info>>
MC_Any3      == [d \in 1..3 |-> Behaviours]
MC_Write3    == <<{"promise"}, {"returns", "throws"}, {"promise", "throws"}>>
=============================================================================
