------------------------------- MODULE MCPlatoon -------------------------------
(* Instances of Platoon.tla: with failures, with a reliable server, and with *)
(* the two situations of the findings.                                       *)
EXTENDS Platoon
===============================================================================
