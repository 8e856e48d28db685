-------------------------- MODULE MCEnvironmentNode --------------------------
(* The storage client under any caller, under the environment node without    *)
(* light, and under the whole node with one reading.                          *)
EXTENDS EnvironmentNode

CONSTANTS
    s1, s2,
    MaxEffort    (* bound: ticks, readings and calls together, under the node *)

VARIABLE caller

MCOrder == <<"temperature", "humidity">>

Effort == clock + Readings + calls
Within(effort) == Effort < effort \/ Effort' = Effort
NoLightYet == lux = Nothing /\ \A r \in rows : r.kind # "light"

MCInit == NodeInit /\ caller \in {"any", "sensors", "node"}
MCNext ==
    /\ UNCHANGED caller
    /\ \/ caller = "any" /\ Next /\ UNCHANGED nodeVars
       \/ caller = "sensors" /\ NodeNext /\ Within(MaxEffort) /\ NoLightYet'
       \/ caller = "node" /\ NodeNext /\ Within(MaxEffort - 2) /\ Readings' <= 1
MCSpec == MCInit /\ [][MCNext]_<<allVars, caller>>
=============================================================================
