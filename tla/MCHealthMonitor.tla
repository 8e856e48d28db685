-------------------------- MODULE MCHealthMonitor --------------------------
(* One subsystem at a time: they share the tick thread and nothing else.    *)
EXTENDS HealthMonitor

CONSTANTS connected, disconnected

Subsystems == {{"heartbeat"}, {"battery"}, {"connectivity"}, {"pump", "bowl"}}
HeartbeatOnly == {{"heartbeat"}}
=============================================================================
