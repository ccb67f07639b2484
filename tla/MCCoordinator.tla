--------------------------- MODULE MCCoordinator ---------------------------
(* Coordinator on small instances.                                         *)
EXTENDS Coordinator

\* Two domains: the first, and the one the CPU copy depends on.
MCUnits == <<{"hostname"}, {"logicalCPUCount"}>>
=============================================================================
