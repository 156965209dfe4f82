----------------------------- MODULE MCMonitor -----------------------------
(* Two targets, of which the second is Studio's. *)
EXTENDS Monitor

MCInterval == <<1, 1>>
============================================================================
