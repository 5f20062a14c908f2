---------------------------- MODULE Persistence -----------------------------
(* Settings and RouteFile in one process: the same handlers serve PUTs and  *)
(* chats, and the process may exit between any two of their steps and be    *)
(* started again.                                                           *)
EXTENDS Settings, RouteFile

CONSTANT MaxRestarts   \* bound on the restarts

ASSUME RestartsAssumption == MaxRestarts \in Nat

VARIABLE restarts

vars == <<serving, calls, settingsVars, routeVars, restarts>>

Init == ServingInit /\ SettingsInit /\ RoutesInit /\ restarts = 0

\* The process exits, by a signal, by the restart button of the panel or by
\* Go's fatal error on two writers of the map WatchInfo, and starts again.
Restart ==
  /\ restarts < MaxRestarts
  /\ restarts' = restarts + 1
  /\ serving' = [h \in Handlers |-> "idle"]
  /\ UNCHANGED calls
  /\ SettingsRestart /\ RoutesRestart

Next ==
  \/ SettingsNext /\ UNCHANGED <<routeVars, restarts>>
  \/ RoutesNext /\ UNCHANGED <<settingsVars, restarts>>
  \/ Restart

Spec == Init /\ [][Next]_vars

\* Every variable of the two parts has its type.
TypeOK ==
  ServingTypeOK /\ SettingsTypeOK /\ RoutesTypeOK /\ restarts \in 0 .. MaxRestarts
=============================================================================
