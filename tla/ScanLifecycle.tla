--------------------------- MODULE ScanLifecycle ---------------------------
(***************************************************************************)
(* What ScanService promises about one scan, without threads, locks or     *)
(* files: the phases a client can observe and how they follow each other,  *)
(* restarts included.  ScanService is shown to implement it.               *)
(***************************************************************************)
CONSTANT Scans
VARIABLE phase

(* "lost": the id was issued and the scan is no longer there; "kept": a     *)
(* finished scan read back from disk; "stalled": a scan read back from disk *)
(* that says it is running although nothing runs it.                        *)
Phases == {"new", "queued", "running", "done", "failed", "kept", "stalled", "lost"}

Init == phase = [s \in Scans |-> "new"]

Move(s, from, to) == phase[s] = from /\ phase' = [phase EXCEPT ![s] = to]

Submit(s) == Move(s, "new", "queued")
Start(s) == Move(s, "queued", "running")
Finish(s) == Move(s, "running", "done") \/ Move(s, "running", "failed")

(* What a restart may make of a phase: only scans with a result can come    *)
(* back, a scan that came back once comes back always, a lost one never.    *)
AfterRestart(p) ==
    CASE p = "new" -> {"new"}
      [] p \in {"kept", "stalled", "lost"} -> {p}
      [] p = "done" -> {"kept", "stalled", "lost"}
      [] p = "running" -> {"stalled", "lost"}
      [] OTHER -> {"lost"}

Restart ==
    /\ phase' \in [Scans -> Phases]
    /\ \A s \in Scans : phase'[s] \in AfterRestart(phase[s])

Next ==
    \/ \E s \in Scans : Submit(s) \/ Start(s) \/ Finish(s)
    \/ Restart

Spec == Init /\ [][Next]_phase
=============================================================================
