------------------------------ MODULE MCAlerting ------------------------------
(***************************************************************************)
(* Values for TLC: a rule computed from snapshots and one from records.    *)
(***************************************************************************)
EXTENDS Alerting

KvAndErrors == <<KvRule, "error_rate">>
=============================================================================
