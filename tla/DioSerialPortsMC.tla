-------------------------- MODULE DioSerialPortsMC --------------------------
(* A small instance of DioSerialPorts: two processes, of which one has two   *)
(* streams, and settings that differ in mode and waiting.                     *)
EXTENDS DioSerialPorts

CONSTANTS a, b, c, p, q

OwnerDef == [s \in Stream |-> IF s = c THEN q ELSE p]
=============================================================================
