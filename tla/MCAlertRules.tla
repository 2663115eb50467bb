----------------------------- MODULE MCAlertRules -----------------------------
(***************************************************************************)
(* Fractions and clusters for TLC.                                         *)
(***************************************************************************)
EXTENDS AlertRules

TwoThirds == [num |-> 2, den |-> 3]
OneAndAHalf == [num |-> 3, den |-> 2]
Half == [num |-> 1, den |-> 2]

(* Two clusters, one of them with two of the records.                       *)
MCClusterOf == <<"east", "west", "east">>
=============================================================================
