--------------------------- MODULE MCNodeProfiler ---------------------------
(* Instances of NodeProfiler for TLC: the constants of each run.           *)
EXTENDS NodeProfiler

AllFaults == {"attach", "read", "symbols", "spawn", "exit", "signal"}
NoFaults == {}

AnyClient == {"overlap", "reenter", "stop"}
SerialClient == {"stop"}
PatientClient == {}
=============================================================================
