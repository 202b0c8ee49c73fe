---------------------------- MODULE MCDashboard ----------------------------
(* Two scans, and three events: selections and fetches that fail.           *)
EXTENDS Dashboard
CONSTANTS s1, s2
TwoScans == {s1, s2}
OneBroken == {s2}
=============================================================================
