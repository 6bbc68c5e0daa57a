-------------------------- MODULE MCAlertDispatcher --------------------------
(* Model checking AlertDispatcher: one alert and one listing row.            *)
EXTENDS AlertDispatcher

MCRetryDelays == <<1, 2>>
===============================================================================
