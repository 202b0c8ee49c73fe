--------------------------- MODULE MCSpecService ---------------------------
(* One spec, two scans it may be linked to, and overlapping requests.       *)
EXTENDS SpecService, TLC
CONSTANTS c1, c2, p1, x1, x2, b1, b2

TwoClients == {c1, c2}
OneSpec == {p1}
OneScan == {x1}
TwoScans == {x1, x2}
OneBody == {b1}
TwoBodies == {b1, b2}
=============================================================================
