--------------------------- MODULE MCPulseClient ---------------------------
(* Instances of PulseClient for TLC: one node of the network. *)
EXTENDS PulseClient
=============================================================================
