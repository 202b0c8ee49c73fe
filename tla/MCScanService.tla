--------------------------- MODULE MCScanService ---------------------------
(* The service with a scan of an upload (s1) and one of a location (s2).    *)
EXTENDS ScanService
CONSTANTS s1, s2, m1, m2

OneScan == {s1}
TwoScans == {s1, s2}
FirstIsUpload == {s1}
TwoMetas == {m1, m2}
=============================================================================
