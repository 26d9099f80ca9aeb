--------------------------- MODULE DioWin32PortsMC ---------------------------
(* A small instance of DioWin32Ports: two processes, of which one has two    *)
(* streams.                                                                  *)
EXTENDS DioWin32Ports

CONSTANTS a, b, c, p, q

OwnerDef == [s \in Stream |-> IF s = c THEN q ELSE p]
=============================================================================
