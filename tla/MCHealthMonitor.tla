---------------------------- MODULE MCHealthMonitor ----------------------------
(* Model checking HealthMonitor: one time unit is the length of a pass's wait *)
(* or half of it, the thresholds keep the order of the defaults.              *)
EXTENDS HealthMonitor
================================================================================
