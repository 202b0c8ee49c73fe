---------------------------- MODULE ScanService ----------------------------
(***************************************************************************)
(* Jobs of application/services/scan_service.py over the file store of     *)
(* infrastructure/persistence/file_scan_store.py, driven by the routes     *)
(* POST /scans, POST /scans/upload and PUT /scans/{id}/meta.               *)
(*                                                                         *)
(* Every scan has at most one execute() thread (pc) and the set_meta()     *)
(* call that holds the service lock may save the same scan meanwhile: the  *)
(* two savers share <id>.json.tmp.  Files are modelled by inodes, because  *)
(* a saver keeps writing to the inode it opened even after another saver   *)
(* has renamed it.  A crash kills every thread, keeps the files and is     *)
(* followed by _restore().                                                 *)
(***************************************************************************)
EXTENDS Naturals

CONSTANTS
    Scans,      \* scan ids that may be issued
    Uploads,    \* the scans created by an archive upload
    Metas,      \* values of (title, tags) in ScanOptions
    NoMeta,     \* the title and tags of no job
    MaxMeta,    \* bound on set_meta calls
    MaxCrash    \* bound on process restarts

ASSUME ConstantsAssumption ==
    /\ Uploads \subseteq Scans
    /\ NoMeta \notin Metas \cup Scans
    /\ MaxMeta \in Nat /\ MaxCrash \in Nat

VARIABLES
    job,        \* ScanService._jobs
    issued,     \* ids new_id() has returned
    pc,         \* where the background thread of each scan is
    lock,       \* the scan whose set_meta call holds _lock across its save
    save,       \* the two possible _store.save calls of each scan
    tmp, final, \* inode of <id>.json.tmp and of <id>.json
    inode,      \* what each inode of a scan holds
    upload,     \* scans whose uploaded archive is still in the temp directory
    disturbed,  \* history: a save of the scan failed, or met the other saver
    metas, crashes  \* history: calls and crashes so far, for the bounds

files == <<tmp, final, inode>>
vars == <<job, issued, pc, lock, save, tmp, final, inode, upload, disturbed,
          metas, crashes>>

Status == {"queued", "running", "done", "failed"}
Savers == {"execute", "set_meta"}
Inodes == 1..3      \* <id>.json, <id>.json.tmp and one an open file still refers to
NoFile == 0
Unlocked == NoMeta

Pc == {"idle", "receiving", "queued", "running", "result_set", "docs_set",
       "done_set", "saving", "error_set", "finally", "cleanup", "finished"}

Job == [status: Status \cup {"absent"}, meta: Metas \cup {NoMeta},
        result: BOOLEAN, docs: BOOLEAN, error: BOOLEAN, finished: BOOLEAN]
NoJob == [status |-> "absent", meta |-> NoMeta, result |-> FALSE,
          docs |-> FALSE, error |-> FALSE, finished |-> FALSE]

(* A ScanRecord always carries the facts of a result: _persist is only     *)
(* called with one.                                                        *)
Record == [status: Status \cup {"absent"}, meta: Metas \cup {NoMeta},
           docs: BOOLEAN, finished: BOOLEAN]
NoRecord == [status |-> "absent", meta |-> NoMeta, docs |-> FALSE,
             finished |-> FALSE]
RecordFrom(j) == [status |-> j.status, meta |-> j.meta, docs |-> j.docs,
                  finished |-> j.finished]

Content == [text: {"empty", "mixed", "whole"}, rec: Record]
Empty == [text |-> "empty", rec |-> NoRecord]
Mixed == [text |-> "mixed", rec |-> NoRecord]
Whole(r) == [text |-> "whole", rec |-> r]

Save == [at: {"idle", "record", "open", "write", "replace"}, rec: Record,
         fd: Inodes \cup {NoFile}]
Idle == [at |-> "idle", rec |-> NoRecord, fd |-> NoFile]

TypeOK ==
    /\ job \in [Scans -> Job]
    /\ issued \subseteq Scans
    /\ pc \in [Scans -> Pc]
    /\ lock \in Scans \cup {Unlocked}
    /\ save \in [Scans -> [Savers -> Save]]
    /\ tmp \in [Scans -> Inodes \cup {NoFile}]
    /\ final \in [Scans -> Inodes \cup {NoFile}]
    /\ inode \in [Scans -> [Inodes -> Content]]
    /\ upload \subseteq Uploads
    /\ disturbed \subseteq Scans
    /\ metas \in 0..MaxMeta
    /\ crashes \in 0..MaxCrash

Init ==
    /\ job = [s \in Scans |-> NoJob]
    /\ issued = {}
    /\ pc = [s \in Scans |-> "idle"]
    /\ lock = Unlocked
    /\ save = [s \in Scans |-> [k \in Savers |-> Idle]]
    /\ tmp = [s \in Scans |-> NoFile]
    /\ final = [s \in Scans |-> NoFile]
    /\ inode = [s \in Scans |-> [i \in Inodes |-> Empty]]
    /\ upload = {}
    /\ disturbed = {}
    /\ metas = 0
    /\ crashes = 0

-----------------------------------------------------------------------------
(* Submission *)

Goto(s, from, to) == pc[s] = from /\ pc' = [pc EXCEPT ![s] = to]

(* Mutant: any file name is accepted, not only the archive suffixes.        *)
AnyFileReceived(s) ==
    /\ s \notin issued \cup upload
    /\ Goto(s, "idle", "receiving")
    /\ upload' = upload \cup {s}
    /\ UNCHANGED <<job, issued, lock, save, files, disturbed, metas, crashes>>

(* _save_upload: the archive is streamed to a temp file, which is unlinked  *)
(* on any failure; the job is submitted only after it has arrived.          *)
UploadReceived(s) ==
    /\ s \in Uploads \ (issued \cup upload)
    /\ Goto(s, "idle", "receiving")
    /\ upload' = upload \cup {s}
    /\ UNCHANGED <<job, issued, lock, save, files, disturbed, metas, crashes>>

UploadRejected(s) ==
    /\ Goto(s, "receiving", "idle")
    /\ upload' = upload \ {s}
    /\ UNCHANGED <<job, issued, lock, save, files, disturbed, metas, crashes>>

(* Mutant: the request handler discards the archive when it responds.       *)
SubmitAndDiscard(s, m) ==
    /\ lock = Unlocked
    /\ s \notin issued
    /\ Goto(s, IF s \in Uploads THEN "receiving" ELSE "idle", "queued")
    /\ job' = [job EXCEPT ![s] = [NoJob EXCEPT !.status = "queued", !.meta = m]]
    /\ issued' = issued \cup {s}
    /\ upload' = upload \ {s}
    /\ UNCHANGED <<lock, save, files, disturbed, metas, crashes>>

(* submit(), and the background task that create_scan adds for it.          *)
Submit(s, m) ==
    /\ lock = Unlocked
    /\ s \notin issued
    /\ Goto(s, IF s \in Uploads THEN "receiving" ELSE "idle", "queued")
    /\ job' = [job EXCEPT ![s] = [NoJob EXCEPT !.status = "queued", !.meta = m]]
    /\ issued' = issued \cup {s}
    /\ UNCHANGED <<lock, save, files, upload, disturbed, metas, crashes>>

-----------------------------------------------------------------------------
(* execute(): the lock is taken only to look the job up *)

SetJob(s, j) ==
    /\ job' = [job EXCEPT ![s] = j]
    /\ UNCHANGED <<issued, lock, save, files, upload, disturbed, metas, crashes>>

Begin(s) ==
    /\ lock = Unlocked
    /\ Goto(s, "queued", "running")
    /\ SetJob(s, [job[s] EXCEPT !.status = "running"])

PipelineSucceeds(s) ==
    /\ Goto(s, "running", "result_set")
    /\ SetJob(s, [job[s] EXCEPT !.result = TRUE])

PipelineFails(s) ==
    /\ Goto(s, "running", "error_set")
    /\ SetJob(s, [job[s] EXCEPT !.error = TRUE])

(* Mutant: docs_dir is never assigned.                                      *)
SkipDocsDir(s) ==
    /\ Goto(s, "result_set", "docs_set")
    /\ SetJob(s, job[s])

SetDocsDir(s) ==
    /\ Goto(s, "result_set", "docs_set")
    /\ SetJob(s, [job[s] EXCEPT !.docs = TRUE])

SetDone(s) ==
    /\ Goto(s, "docs_set", "done_set")
    /\ SetJob(s, [job[s] EXCEPT !.status = "done"])

(* Mutant: a failed scan is put back in the queue.                          *)
Requeue(s) ==
    /\ Goto(s, "error_set", "finally")
    /\ SetJob(s, [job[s] EXCEPT !.status = "queued"])

SetFailed(s) ==
    /\ Goto(s, "error_set", "finally")
    /\ SetJob(s, [job[s] EXCEPT !.status = "failed"])

Finally(s) ==
    /\ Goto(s, "finally", IF s \in Uploads THEN "cleanup" ELSE "finished")
    /\ SetJob(s, [job[s] EXCEPT !.finished = TRUE])

(* _run_and_cleanup unlinks the uploaded archive once execute() returns.    *)
Cleanup(s) ==
    /\ Goto(s, "cleanup", "finished")
    /\ upload' = upload \ {s}
    /\ UNCHANGED <<job, issued, lock, save, files, disturbed, metas, crashes>>

-----------------------------------------------------------------------------
(* _persist() and FileScanStore.save(), by either saver *)

Other(k) == IF k = "execute" THEN "set_meta" ELSE "execute"

Disturb(s, k) ==
    disturbed' = IF save[s][Other(k)].at = "idle" THEN disturbed
                 ELSE disturbed \cup {s}

ExecutePersists(s) ==
    /\ Goto(s, "done_set", "saving")
    /\ save' = [save EXCEPT ![s]["execute"] =
                  [at |-> "open", rec |-> RecordFrom(job[s]), fd |-> NoFile]]
    /\ Disturb(s, "execute")
    /\ UNCHANGED <<job, issued, lock, files, upload, metas, crashes>>

(* Mutant: a rename stays in memory.                                        *)
RenameInMemory(s, m) ==
    /\ lock = Unlocked
    /\ job[s].status # "absent"
    /\ metas < MaxMeta
    /\ job' = [job EXCEPT ![s].meta = m]
    /\ metas' = metas + 1
    /\ UNCHANGED <<issued, pc, lock, save, files, upload, disturbed, crashes>>

(* set_meta under the lock: new options, and a save when there is a result. *)
SetMeta(s, m) ==
    /\ lock = Unlocked
    /\ job[s].status # "absent"
    /\ metas < MaxMeta
    /\ job' = [job EXCEPT ![s].meta = m]
    /\ IF job[s].result
       THEN /\ lock' = s
            /\ save' = [save EXCEPT ![s]["set_meta"] =
                          [at |-> "record", rec |-> NoRecord, fd |-> NoFile]]
            /\ Disturb(s, "set_meta")
       ELSE UNCHANGED <<lock, save, disturbed>>
    /\ metas' = metas + 1
    /\ UNCHANGED <<issued, pc, files, upload, crashes>>

MetaRecord(s) ==
    /\ save[s]["set_meta"].at = "record"
    /\ save' = [save EXCEPT ![s]["set_meta"].at = "open",
                            ![s]["set_meta"].rec = RecordFrom(job[s])]
    /\ UNCHANGED <<job, issued, pc, lock, files, upload, disturbed, metas, crashes>>

Opened(s, k) == save[s][k].at = "write"

(* The inode a new directory entry gets: one that nothing refers to.        *)
Busy(s) == {tmp[s], final[s]} \cup
           {save[s][k].fd : k \in {x \in Savers : Opened(s, x)}}
Fresh(s, i) == i \notin Busy(s) /\ \A j \in Inodes : j < i => j \in Busy(s)

(* Mutant: the record is written in place, without a temporary file.        *)
OpenFinal(s, k) ==
    /\ save[s][k].at = "open"
    /\ \E i \in Inodes :
          /\ IF final[s] # NoFile THEN i = final[s] ELSE Fresh(s, i)
          /\ final' = [final EXCEPT ![s] = i]
          /\ tmp' = [tmp EXCEPT ![s] = i]
          /\ inode' = [inode EXCEPT ![s][i] = Empty]
          /\ save' = [save EXCEPT ![s][k].at = "write", ![s][k].fd = i]
    /\ UNCHANGED <<job, issued, pc, lock, upload, disturbed, metas, crashes>>

(* open(tmp, "w"): truncates the file if it is there, creates it if not.    *)
OpenTmp(s, k) ==
    /\ save[s][k].at = "open"
    /\ \E i \in Inodes :
          /\ IF tmp[s] # NoFile THEN i = tmp[s] ELSE Fresh(s, i)
          /\ tmp' = [tmp EXCEPT ![s] = i]
          /\ inode' = [inode EXCEPT ![s][i] = Empty]
          /\ save' = [save EXCEPT ![s][k].at = "write", ![s][k].fd = i]
    /\ UNCHANGED <<job, issued, pc, lock, final, upload, disturbed, metas, crashes>>

(* Nobody else has written to the open file, or has it open.                *)
Alone(s, k) ==
    /\ inode[s][save[s][k].fd] = Empty
    /\ ~ (Opened(s, Other(k)) /\ save[s][Other(k)].fd = save[s][k].fd)

WriteTmp(s, k) ==
    /\ save[s][k].at = "write"
    /\ \E c \in {Whole(save[s][k].rec)} \cup (IF Alone(s, k) THEN {} ELSE {Mixed}) :
          inode' = [inode EXCEPT ![s][save[s][k].fd] = c]
    /\ save' = [save EXCEPT ![s][k].at = "replace", ![s][k].fd = NoFile]
    /\ UNCHANGED <<job, issued, pc, lock, tmp, final, upload, disturbed, metas, crashes>>

(* Mutant: the lock is released on the normal path only, not in a finally.  *)
SaveEndsLocked(s, k) ==
    /\ save' = [save EXCEPT ![s][k] = Idle]
    /\ IF k = "execute"
       THEN Goto(s, "saving", "finally") /\ UNCHANGED lock
       ELSE lock' = (IF tmp[s] = NoFile THEN lock ELSE Unlocked) /\ UNCHANGED pc
    /\ UNCHANGED <<job, issued, upload, metas, crashes>>

(* Where the caller goes when save() returns or its OSError is swallowed.   *)
SaveEnds(s, k) ==
    /\ save' = [save EXCEPT ![s][k] = Idle]
    /\ IF k = "execute"
       THEN Goto(s, "saving", "finally") /\ UNCHANGED lock
       ELSE lock' = Unlocked /\ UNCHANGED pc
    /\ UNCHANGED <<job, issued, upload, metas, crashes>>

(* tmp.replace(path); FileNotFoundError when the other saver took the file. *)
ReplaceTmp(s, k) ==
    /\ save[s][k].at = "replace"
    /\ IF tmp[s] = NoFile THEN UNCHANGED <<tmp, final>>
       ELSE /\ final' = [final EXCEPT ![s] = tmp[s]]
            /\ tmp' = [tmp EXCEPT ![s] = NoFile]
    /\ SaveEnds(s, k)
    /\ UNCHANGED <<inode, disturbed>>

(* Any OSError of the three calls (no space, no permission): a write that   *)
(* fails leaves part of the record behind.                                  *)
SaveFails(s, k) ==
    /\ save[s][k].at \in {"open", "write", "replace"}
    /\ inode' = IF Opened(s, k)
                THEN [inode EXCEPT ![s][save[s][k].fd] = Mixed] ELSE inode
    /\ disturbed' = disturbed \cup {s}
    /\ SaveEnds(s, k)
    /\ UNCHANGED <<tmp, final>>

-----------------------------------------------------------------------------
(* Restart: _restore() reads every <id>.json it can parse *)

Readable(s) == final[s] # NoFile /\ inode[s][final[s]].text = "whole"
OnDisk(s) == inode[s][final[s]].rec

JobFromRecord(s) ==
    IF Readable(s)
    THEN [status |-> OnDisk(s).status, meta |-> OnDisk(s).meta, result |-> TRUE,
          docs |-> OnDisk(s).docs, error |-> FALSE,
          finished |-> OnDisk(s).finished]
    ELSE NoJob

Crash ==
    /\ crashes < MaxCrash
    /\ crashes' = crashes + 1
    /\ job' = [s \in Scans |-> JobFromRecord(s)]
    /\ pc' = [s \in Scans |-> "idle"]
    /\ lock' = Unlocked
    /\ save' = [s \in Scans |-> [k \in Savers |-> Idle]]
    /\ disturbed' = {}
    /\ UNCHANGED <<issued, files, upload, metas>>

-----------------------------------------------------------------------------
SaveStep(s, k) ==
    OpenTmp(s, k) \/ WriteTmp(s, k) \/ ReplaceTmp(s, k) \/ SaveFails(s, k)

ExecuteStep(s) ==
    \/ Begin(s)
    \/ PipelineSucceeds(s) \/ PipelineFails(s)
    \/ SetDocsDir(s) \/ SetDone(s) \/ SetFailed(s)
    \/ ExecutePersists(s) \/ SaveStep(s, "execute")
    \/ Finally(s) \/ Cleanup(s)

MetaStep(s) == MetaRecord(s) \/ SaveStep(s, "set_meta")

Next ==
    \/ \E s \in Scans :
          \/ UploadReceived(s) \/ UploadRejected(s)
          \/ \E m \in Metas : Submit(s, m) \/ SetMeta(s, m)
          \/ ExecuteStep(s) \/ MetaStep(s)
    \/ Crash

Spec == Init /\ [][Next]_vars

(* A background thread and a set_meta call that have started keep running.  *)
(* Clients owe nothing: Submit and SetMeta are not fair.                    *)
FairSpec ==
    /\ Spec
    /\ \A s \in Scans : WF_vars(ExecuteStep(s)) /\ WF_vars(MetaStep(s))
-----------------------------------------------------------------------------
(* Properties *)

(* What a reader sees of a finished scan is there: a DONE job has its       *)
(* result and docs_dir (the routes serve them without a lock once the       *)
(* status says so, also after a restart), a FAILED job has its error and no *)
(* result to serve.                                                         *)
FinishedIsTruthful ==
    \A s \in Scans :
        /\ job[s].status = "done" => job[s].result /\ job[s].docs /\ ~job[s].error
        /\ job[s].status = "failed" => job[s].error /\ ~job[s].result

(* The scans no thread is changing or saving.                               *)
AtRest(s) ==
    /\ \A k \in Savers : save[s][k].at = "idle"
    /\ pc[s] \in {"idle", "finally", "cleanup", "finished"}

(* Persistence is best-effort, but a scan none of whose saves failed or met *)
(* another save of the same scan is on disk as it is in memory, with the    *)
(* title and tags of the last rename whenever that came.                    *)
UndisturbedIsDurable ==
    \A s \in Scans :
        (AtRest(s) /\ job[s].result /\ s \notin disturbed) =>
            /\ Readable(s)
            /\ OnDisk(s).status = job[s].status
            /\ OnDisk(s).meta = job[s].meta
            /\ OnDisk(s).docs = job[s].docs

(* The pipeline never loses the archive it has to read: the uploaded file   *)
(* outlives the response and is there until the run has its outcome.        *)
UploadOutlivesPipeline ==
    \A s \in Uploads : pc[s] \in {"queued", "running"} => s \in upload

(* A scan that came back from disk comes back from every later restart with *)
(* the same status, whatever renames are cut short by the next crash.       *)
RestoredStays ==
    [][\A s \in Scans :
          (pc[s] = "idle" /\ job[s].status # "absent")
              => job'[s].status = job[s].status]_vars

(* A submitted scan always settles: unless the process dies it becomes DONE *)
(* or FAILED with its finishing time set, and its uploaded archive is gone; *)
(* no set_meta call can keep it waiting for the lock for ever.              *)
Settled(s) ==
    /\ job[s].status \in {"done", "failed"}
    /\ job[s].finished
    /\ s \notin upload
ScansSettle ==
    \A s \in Scans :
        pc[s] = "queued" ~> ((pc[s] = "finished" /\ Settled(s)) \/ pc[s] = "idle")

(* The phase a client observes: the refinement mapping to ScanLifecycle.    *)
Phase(s) ==
    CASE job[s].status = "absent" -> IF s \in issued THEN "lost" ELSE "new"
      [] job[s].status = "running" /\ pc[s] = "idle" -> "stalled"
      [] job[s].status = "done" /\ pc[s] = "idle" -> "kept"
      [] OTHER -> job[s].status

Lifecycle == INSTANCE ScanLifecycle WITH phase <- [s \in Scans |-> Phase(s)]

(* Every step of the service is a step of ScanLifecycle or a stutter.       *)
ImplementsLifecycle == Lifecycle!Spec

(* file_scan_store.py says of the rename that it is "atomic on the same     *)
(* filesystem": <id>.json would always hold one whole record.               *)
FinalIsWhole == \A s \in Scans : final[s] # NoFile => Readable(s)

(* scan_record.py calls a record "the persistable snapshot of a completed   *)
(* scan": what is on disk would never be a scan still running.              *)
PersistedIsCompleted ==
    \A s \in Scans : Readable(s) => OnDisk(s).status = "done"
=============================================================================
