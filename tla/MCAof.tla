------------------------------- MODULE MCAof -------------------------------
(***************************************************************************)
(* Instances of Aof for TLC.                                               *)
(***************************************************************************)
EXTENDS Aof

MCPolicies == {"always", "everysec"}
IOFaults   == {"write", "fsync", "manifest", "dirfsync", "history", "kill", "fork"}
=============================================================================
