----------------------------- MODULE MCDashboard -----------------------------
(* An instance of Dashboard for TLC. *)
EXTENDS Dashboard

(* Both gauges and two texts: the third differs in its thresholds only. *)
MCPolled == <<"rpm", "speed", "temperature", "tirePressure">>

(* Values within and beyond the ranges of gauges and texts.                *)
MCValues ==
  [p \in Properties |->
     CASE p = "rpm"          -> {4000}
       [] p = "speed"        -> {200, 300}
       [] p = "temperature"  -> {110}
       [] p = "tirePressure" -> {29, 50}]
=============================================================================
