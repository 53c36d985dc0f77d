-------------------------- MODULE MCMonitorRuntime --------------------------
(* Instance of MonitorRuntime: one client that comes and goes, two probe   *)
(* connections, and queues and a ring short enough to overflow.            *)
EXTENDS MonitorRuntime
=============================================================================
