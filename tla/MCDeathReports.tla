---------------------------- MODULE MCDeathReports ----------------------------
(* DeathReports with and without the watchdog, and three faults: one whose *)
(* report is complete, and one that faults again while it is handled.      *)
EXTENDS DeathReports
=============================================================================
