---------------------------- MODULE MCP2pLatency ----------------------------
(* Three iterations, two sizes, with and without prelaunch.                 *)
EXTENDS P2pLatency
=============================================================================
