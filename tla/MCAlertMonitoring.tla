-------------------------- MODULE MCAlertMonitoring ---------------------------
(* Two worker processes, as docker-compose starts them, and two callers; one *)
(* rule measures a drift, the other counts open alerts.                      *)
EXTENDS AlertMonitoring
===============================================================================
