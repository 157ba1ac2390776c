------------------------------ MODULE MCPretty -------------------------------
(* One PrettyDevDestination with limits small enough to be met in both ways. *)
EXTENDS PrettyDevDestination

MC_Sizes == {1, 2, 4}
=============================================================================
