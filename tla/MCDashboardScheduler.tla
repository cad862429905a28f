------------------------ MODULE MCDashboardScheduler ------------------------
(* Small instances of DashboardScheduler. *)
EXTENDS DashboardScheduler
CONSTANTS health, f1, c1
MCCauses == {health}
MCFlushers == {f1}
MCCancellers == {c1}
=============================================================================
