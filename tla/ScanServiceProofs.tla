------------------------- MODULE ScanServiceProofs -------------------------
(***************************************************************************)
(* Proofs about ScanService, for any set of scans, any bounds and any       *)
(* number of restarts.  The safety properties need one inductive invariant: *)
(* JobInv ties the fields of a job to where its thread is, RecInv says what *)
(* a record may hold, DiskInv what is on disk once a scan has come back     *)
(* from it.                                                                 *)
(***************************************************************************)
EXTENDS ScanService, TLAPS

JobInv(s) ==
    /\ s \notin issued => job[s].status = "absent"
    /\ pc[s] = "receiving" => s \notin issued
    /\ job[s].status = "absent" => pc[s] \in {"idle", "receiving"} /\ ~job[s].result
    /\ job[s].status = "queued" => pc[s] = "queued"
    /\ pc[s] = "queued" => job[s].status = "queued" /\ ~job[s].result /\ ~job[s].error
    /\ pc[s] = "running" => job[s].status = "running" /\ ~job[s].result /\ ~job[s].error
    /\ pc[s] = "error_set" => job[s].status = "running" /\ ~job[s].result /\ job[s].error
    /\ pc[s] = "result_set" => job[s].status = "running" /\ job[s].result
    /\ pc[s] = "docs_set" => job[s].status = "running" /\ job[s].result /\ job[s].docs
    /\ pc[s] \in {"done_set", "saving"} => job[s].status = "done"
    /\ pc[s] \in {"finally", "cleanup", "finished"} => job[s].status \in {"done", "failed"}
    /\ job[s].result => job[s].status \in {"running", "done"} /\ ~job[s].error
    /\ job[s].status = "done" => job[s].result /\ job[s].docs
    /\ job[s].status = "failed" => job[s].error /\ ~job[s].result
    /\ pc[s] = "idle" => job[s].status = "absent" \/ job[s].result

(* A record is one of a scan with a result; it has docs if it says done.    *)
Sound(r) == r.status \in {"running", "done"} /\ (r.status = "done" => r.docs)

RecInv(s) ==
    /\ \A k \in Savers : save[s][k].at # "idle" => job[s].result
    /\ \A k \in Savers : save[s][k].at \in {"open", "write", "replace"} =>
          /\ Sound(save[s][k].rec)
          /\ job[s].status = "running" => save[s][k].rec.status = "running"
    /\ save[s]["execute"].at # "idle" => pc[s] = "saving"
    /\ \A i \in Inodes : inode[s][i].text = "whole" =>
          /\ Sound(inode[s][i].rec)
          /\ pc[s] # "idle" /\ job[s].status = "running"
                => inode[s][i].rec.status = "running"
    /\ ~job[s].result => ~Readable(s)
    /\ (s \notin issued \/ pc[s] \in {"queued", "running"}) =>
          \A i \in Inodes : inode[s][i].text # "whole"

DiskInv(s) ==
    /\ tmp[s] = final[s] => tmp[s] = NoFile
    /\ pc[s] = "idle" /\ job[s].result =>
          /\ Readable(s) /\ OnDisk(s).status = job[s].status
          /\ save[s]["set_meta"].at \in {"open", "write", "replace"} =>
                save[s]["set_meta"].rec.status = job[s].status
          /\ save[s]["set_meta"].at = "write" =>
                /\ tmp[s] # NoFile /\ save[s]["set_meta"].fd = tmp[s]
                /\ inode[s][tmp[s]] = Empty
          /\ save[s]["set_meta"].at = "replace" =>
                /\ tmp[s] # NoFile
                /\ inode[s][tmp[s]] = Whole(save[s]["set_meta"].rec)

ScanInv(s) == JobInv(s) /\ RecInv(s) /\ DiskInv(s)
IInv == TypeOK /\ \A s \in Scans : ScanInv(s)

-----------------------------------------------------------------------------
(* A save record stays one when a saver moves on.                           *)
LEMMA SaveTyped ==
    ASSUME TypeOK, NEW s \in Scans, NEW k \in Savers
    PROVE  /\ save[s][k] \in Save /\ job[s] \in Job
           /\ save[s][k].rec \in Record /\ save[s][k].fd \in Inodes \cup {NoFile}
           /\ RecordFrom(job[s]) \in Record
           /\ inode[s] \in [Inodes -> Content]
  BY DEF TypeOK, Save, Job, Record, RecordFrom

LEMMA ConstantsTyped ==
    /\ NoRecord \in Record /\ NoJob \in Job /\ Idle \in Save
    /\ Empty \in Content /\ Mixed \in Content
    /\ \A r \in Record : Whole(r) \in Content
    /\ \A k \in Savers : Other(k) \in Savers
  BY DEF NoRecord, Record, NoJob, Job, Idle, Save, Empty, Mixed, Whole, Content,
         Savers, Other, Status

(* The thread of a scan only writes its own job and control state.          *)
LEMMA JobStepTyped ==
    ASSUME TypeOK, NEW s \in Scans, NEW j \in Job, NEW from, NEW to \in Pc,
           Goto(s, from, to), SetJob(s, j)
    PROVE  TypeOK'
  BY DEF TypeOK, Goto, SetJob, files

LEMMA SaveStepTyped ==
    ASSUME ConstantsAssumption, TypeOK, NEW s \in Scans, NEW k \in Savers,
           SaveStep(s, k)
    PROVE  TypeOK'
<1> USE SaveTyped, ConstantsTyped
<1>1. CASE OpenTmp(s, k)
  <2>1. PICK i \in Inodes :
          /\ tmp' = [tmp EXCEPT ![s] = i]
          /\ inode' = [inode EXCEPT ![s][i] = Empty]
          /\ save' = [save EXCEPT ![s][k].at = "write", ![s][k].fd = i]
    BY <1>1 DEF OpenTmp
  <2>2. [save[s][k] EXCEPT !.at = "write", !.fd = i] \in Save
    BY DEF Save
  <2>3. save' \in [Scans -> [Savers -> Save]]
    BY <2>1, <2>2 DEF TypeOK
  <2>4. inode' \in [Scans -> [Inodes -> Content]]
    BY <2>1 DEF TypeOK
  <2> QED  BY <1>1, <2>1, <2>3, <2>4 DEF TypeOK, OpenTmp
<1>2. CASE WriteTmp(s, k)
  <2>1. PICK c \in Content : inode' = [inode EXCEPT ![s][save[s][k].fd] = c]
    BY <1>2 DEF WriteTmp
  <2>2. [save[s][k] EXCEPT !.at = "replace", !.fd = NoFile] \in Save
    BY DEF Save
  <2>3. save' \in [Scans -> [Savers -> Save]]
    BY <1>2, <2>2 DEF TypeOK, WriteTmp
  <2>4. inode' \in [Scans -> [Inodes -> Content]]
    BY <2>1 DEF TypeOK
  <2> QED  BY <1>2, <2>3, <2>4 DEF TypeOK, WriteTmp
<1>3. CASE ReplaceTmp(s, k)
  <2>1. save' \in [Scans -> [Savers -> Save]]
    BY <1>3 DEF ReplaceTmp, SaveEnds, TypeOK
  <2>2. tmp' \in [Scans -> Inodes \cup {NoFile}] /\ final' \in [Scans -> Inodes \cup {NoFile}]
    BY <1>3 DEF ReplaceTmp, TypeOK
  <2>3. pc' \in [Scans -> Pc] /\ lock' \in Scans \cup {Unlocked}
    BY <1>3 DEF ReplaceTmp, SaveEnds, Goto, Pc, TypeOK
  <2> QED  BY <1>3, <2>1, <2>2, <2>3 DEF ReplaceTmp, SaveEnds, TypeOK
<1>4. CASE SaveFails(s, k)
  <2>1. save' \in [Scans -> [Savers -> Save]]
    BY <1>4 DEF SaveFails, SaveEnds, TypeOK
  <2>2. inode' \in [Scans -> [Inodes -> Content]]
    BY <1>4 DEF SaveFails, TypeOK
  <2>3. pc' \in [Scans -> Pc] /\ lock' \in Scans \cup {Unlocked}
    BY <1>4 DEF SaveFails, SaveEnds, Goto, Pc, TypeOK
  <2> QED  BY <1>4, <2>1, <2>2, <2>3 DEF SaveFails, SaveEnds, TypeOK
<1> QED  BY <1>1, <1>2, <1>3, <1>4 DEF SaveStep

LEMMA TypeInit == ConstantsAssumption => (Init => TypeOK)
  BY ConstantsTyped DEF ConstantsAssumption, Init, TypeOK, Pc

LEMMA TypeNext ==
    ASSUME ConstantsAssumption, TypeOK, [Next]_vars
    PROVE  TypeOK'
<1> USE SaveTyped, ConstantsTyped
<1>1. ASSUME NEW s \in Scans, UploadReceived(s) \/ UploadRejected(s) \/ Cleanup(s)
      PROVE  TypeOK'
  BY <1>1 DEF UploadReceived, UploadRejected, Cleanup, Goto, files, TypeOK, Pc
<1>2. ASSUME NEW s \in Scans, NEW m \in Metas, Submit(s, m)
      PROVE  TypeOK'
  <2>1. [NoJob EXCEPT !.status = "queued", !.meta = m] \in Job
    BY DEF NoJob, Job, Status
  <2> QED  BY <1>2, <2>1 DEF Submit, Goto, files, TypeOK, Pc
<1>3. ASSUME NEW s \in Scans, NEW m \in Metas, SetMeta(s, m)
      PROVE  TypeOK'
  <2>1. [job[s] EXCEPT !.meta = m] \in Job
    BY DEF Job, Savers
  <2>2. job' \in [Scans -> Job]
    BY <1>3, <2>1 DEF SetMeta, TypeOK
  <2>3. [at |-> "record", rec |-> NoRecord, fd |-> NoFile] \in Save
    BY DEF Save
  <2>4. save' \in [Scans -> [Savers -> Save]]
    <3>1. save \in [Scans -> [Savers -> Save]]
      BY DEF TypeOK
    <3>2. CASE job[s].result
      BY <1>3, <2>3, <3>1, <3>2 DEF SetMeta
    <3> QED  BY <1>3, <3>1, <3>2 DEF SetMeta
  <2>5. metas' \in 0..MaxMeta
    BY <1>3 DEF SetMeta, TypeOK, ConstantsAssumption
  <2> QED  BY <1>3, <2>2, <2>4, <2>5 DEF SetMeta, Disturb, files, TypeOK
<1>4. ASSUME NEW s \in Scans, MetaRecord(s)
      PROVE  TypeOK'
  <2>1. [save[s]["set_meta"] EXCEPT !.at = "open", !.rec = RecordFrom(job[s])] \in Save
    BY DEF Save, Savers
  <2>2. save' \in [Scans -> [Savers -> Save]]
    BY <1>4, <2>1 DEF MetaRecord, TypeOK
  <2> QED  BY <1>4, <2>2 DEF MetaRecord, files, TypeOK
<1>5. ASSUME NEW s \in Scans, ExecutePersists(s)
      PROVE  TypeOK'
  <2>1. [at |-> "open", rec |-> RecordFrom(job[s]), fd |-> NoFile] \in Save
    BY DEF Save, Savers
  <2>2. save' \in [Scans -> [Savers -> Save]]
    BY <1>5, <2>1 DEF ExecutePersists, TypeOK
  <2> QED  BY <1>5, <2>2 DEF ExecutePersists, Disturb, Goto, files, TypeOK, Pc
<1>6. ASSUME NEW s \in Scans,
             \/ Begin(s) \/ PipelineSucceeds(s) \/ PipelineFails(s) \/ SetDocsDir(s)
             \/ SetDone(s) \/ SetFailed(s) \/ Finally(s)
      PROVE  TypeOK'
  <2>1. job[s] \in Job
    BY DEF TypeOK
  <2>2. PICK j \in Job, from \in Pc, to \in Pc : Goto(s, from, to) /\ SetJob(s, j)
    <3>1. /\ [job[s] EXCEPT !.status = "running"] \in Job
          /\ [job[s] EXCEPT !.status = "done"] \in Job
          /\ [job[s] EXCEPT !.status = "failed"] \in Job
          /\ [job[s] EXCEPT !.result = TRUE] \in Job
          /\ [job[s] EXCEPT !.docs = TRUE] \in Job
          /\ [job[s] EXCEPT !.error = TRUE] \in Job
          /\ [job[s] EXCEPT !.finished = TRUE] \in Job
      BY <2>1 DEF Job, Status
    <3> QED  BY <1>6, <3>1 DEF Begin, PipelineSucceeds, PipelineFails, SetDocsDir,
                 SetDone, SetFailed, Finally, Pc
  <2> QED  BY <2>2, JobStepTyped
<1>7. ASSUME NEW s \in Scans, NEW k \in Savers, SaveStep(s, k)
      PROVE  TypeOK'
  BY <1>7, SaveStepTyped
<1>8. ASSUME Crash
      PROVE  TypeOK'
  <2>1. ASSUME NEW s \in Scans
        PROVE  JobFromRecord(s) \in Job
    <3>1. CASE Readable(s)
      <4>1. OnDisk(s) \in Record
        BY <3>1 DEF TypeOK, Readable, OnDisk, Content
      <4> QED  BY <3>1, <4>1 DEF JobFromRecord, Record, Job
    <3>2. CASE ~Readable(s)
      BY <3>2 DEF JobFromRecord
    <3> QED  BY <3>1, <3>2
  <2> QED  BY <1>8, <2>1 DEF Crash, files, TypeOK, Pc, ConstantsAssumption
<1>9. CASE UNCHANGED vars
  BY <1>9 DEF vars, TypeOK
<1> QED
  BY <1>1, <1>2, <1>3, <1>4, <1>5, <1>6, <1>7, <1>8, <1>9
  DEF Next, ExecuteStep, MetaStep, Savers

(* Every variable keeps its type, whatever the scans, renames and restarts. *)
THEOREM TypeCorrect == Spec => []TypeOK
  BY ConstantsAssumption, TypeInit, TypeNext, PTL DEF Spec
-----------------------------------------------------------------------------
(* A scan whose own part of the state does not change keeps its invariant.  *)
Same(s) ==
    /\ job'[s] = job[s] /\ pc'[s] = pc[s] /\ save'[s] = save[s]
    /\ tmp'[s] = tmp[s] /\ final'[s] = final[s] /\ inode'[s] = inode[s]
    /\ s \in issued' <=> s \in issued

LEMMA Frame ==
    ASSUME NEW s \in Scans, ScanInv(s), Same(s)
    PROVE  ScanInv(s)'
<1>1. JobInv(s)'
  BY DEF ScanInv, JobInv, Same
<1>2. RecInv(s)'
  BY DEF ScanInv, RecInv, Same, Readable, Sound
<1>3. DiskInv(s)'
  BY DEF ScanInv, DiskInv, Same, Readable, OnDisk, Whole, Empty
<1> QED  BY <1>1, <1>2, <1>3 DEF ScanInv

(* A step of execute() outside its save: only the job and pc change.        *)
LEMMA JobStepInv ==
    ASSUME TypeOK, NEW s \in Scans, ScanInv(s),
           \/ Begin(s) \/ PipelineSucceeds(s) \/ PipelineFails(s) \/ SetDocsDir(s)
           \/ SetDone(s) \/ SetFailed(s) \/ Finally(s)
    PROVE  ScanInv(s)' /\ \A t \in Scans \ {s} : Same(t)
<1> USE DEF Begin, PipelineSucceeds, PipelineFails, SetDocsDir, SetDone, SetFailed,
            Finally, Goto, SetJob, files
<1>1. job[s] \in Job /\ pc \in [Scans -> Pc]
  BY DEF TypeOK
<1>2. JobInv(s)'
  <2>1. CASE Begin(s)
    BY <1>1, <2>1 DEF TypeOK, ScanInv, JobInv, Job
  <2>2. CASE PipelineSucceeds(s)
    BY <1>1, <2>2 DEF TypeOK, ScanInv, JobInv, Job
  <2>3. CASE PipelineFails(s)
    BY <1>1, <2>3 DEF TypeOK, ScanInv, JobInv, Job
  <2>4. CASE SetDocsDir(s)
    BY <1>1, <2>4 DEF TypeOK, ScanInv, JobInv, Job
  <2>5. CASE SetDone(s)
    BY <1>1, <2>5 DEF TypeOK, ScanInv, JobInv, Job
  <2>6. CASE SetFailed(s)
    BY <1>1, <2>6 DEF TypeOK, ScanInv, JobInv, Job
  <2>7. CASE Finally(s)
    BY <1>1, <2>7 DEF TypeOK, ScanInv, JobInv, Job
  <2> QED  BY <2>1, <2>2, <2>3, <2>4, <2>5, <2>6, <2>7
<1>3. RecInv(s)'
  <2>1. CASE Begin(s)
    BY <1>1, <2>1 DEF TypeOK, ScanInv, JobInv, RecInv, Job, Readable, Sound
  <2>2. CASE PipelineSucceeds(s)
    BY <1>1, <2>2 DEF TypeOK, ScanInv, JobInv, RecInv, Job, Readable, Sound
  <2>3. CASE PipelineFails(s)
    BY <1>1, <2>3 DEF TypeOK, ScanInv, JobInv, RecInv, Job, Readable, Sound
  <2>4. CASE SetDocsDir(s)
    BY <1>1, <2>4 DEF TypeOK, ScanInv, JobInv, RecInv, Job, Readable, Sound
  <2>5. CASE SetDone(s)
    BY <1>1, <2>5 DEF TypeOK, ScanInv, JobInv, RecInv, Job, Readable, Sound
  <2>6. CASE SetFailed(s)
    BY <1>1, <2>6 DEF TypeOK, ScanInv, JobInv, RecInv, Job, Readable, Sound
  <2>7. CASE Finally(s)
    BY <1>1, <2>7 DEF TypeOK, ScanInv, JobInv, RecInv, Job, Readable, Sound
  <2> QED  BY <2>1, <2>2, <2>3, <2>4, <2>5, <2>6, <2>7
<1>4. DiskInv(s)'
  BY <1>1 DEF TypeOK, ScanInv, JobInv, DiskInv, Job, Readable, OnDisk
<1>5. \A t \in Scans \ {s} : Same(t)
  BY DEF TypeOK, Same
<1> QED  BY <1>2, <1>3, <1>4, <1>5 DEF ScanInv

(* Submission, upload and clean-up steps.                                   *)
LEMMA ClientStepInv ==
    ASSUME TypeOK, NEW s \in Scans, ScanInv(s),
           \/ UploadReceived(s) \/ UploadRejected(s) \/ Cleanup(s)
           \/ \E m \in Metas : Submit(s, m)
    PROVE  ScanInv(s)' /\ \A t \in Scans \ {s} : Same(t)
<1> USE DEF UploadReceived, UploadRejected, Cleanup, Submit, Goto, files
<1>1. job[s] \in Job /\ pc \in [Scans -> Pc]
  BY DEF TypeOK
<1>6. ASSUME NEW m \in Metas, Submit(s, m)
      PROVE  /\ job'[s].status = "queued" /\ ~job'[s].result /\ ~job'[s].error
             /\ pc'[s] = "queued" /\ s \in issued' /\ s \notin issued
             /\ job[s].status = "absent"
  BY <1>1, <1>6 DEF TypeOK, NoJob, ScanInv, JobInv
<1>2. JobInv(s)'
  <2>1. CASE UploadReceived(s)
    BY <1>1, <2>1 DEF TypeOK, ScanInv, JobInv, Job, NoJob
  <2>2. CASE UploadRejected(s)
    BY <1>1, <2>2 DEF TypeOK, ScanInv, JobInv, Job, NoJob
  <2>3. CASE Cleanup(s)
    BY <1>1, <2>3 DEF TypeOK, ScanInv, JobInv, Job, NoJob
  <2>4. CASE \E m \in Metas : Submit(s, m)
    BY <1>1, <1>6, <2>4 DEF ScanInv, JobInv
  <2> QED  BY <2>1, <2>2, <2>3, <2>4
<1>3. RecInv(s)'
  <2>1. CASE UploadReceived(s)
    BY <1>1, <2>1 DEF TypeOK, ScanInv, JobInv, RecInv, Job, Readable, Sound, NoJob
  <2>2. CASE UploadRejected(s)
    BY <1>1, <2>2 DEF TypeOK, ScanInv, JobInv, RecInv, Job, Readable, Sound, NoJob
  <2>3. CASE Cleanup(s)
    BY <1>1, <2>3 DEF TypeOK, ScanInv, JobInv, RecInv, Job, Readable, Sound, NoJob
  <2>4. CASE \E m \in Metas : Submit(s, m)
    BY <1>1, <1>6, <2>4 DEF ScanInv, JobInv, RecInv, Readable, Sound
  <2> QED  BY <2>1, <2>2, <2>3, <2>4
<1>4. DiskInv(s)'
  BY <1>1 DEF TypeOK, ScanInv, JobInv, DiskInv, Job, Readable, OnDisk, NoJob
<1>5. \A t \in Scans \ {s} : Same(t)
  BY DEF TypeOK, Same
<1> QED  BY <1>2, <1>3, <1>4, <1>5 DEF ScanInv

(* The steps that build the record to save.                                 *)
LEMMA PersistInv ==
    ASSUME TypeOK, NEW s \in Scans, ScanInv(s), ExecutePersists(s)
    PROVE  ScanInv(s)' /\ \A t \in Scans \ {s} : Same(t)
<1> USE DEF ExecutePersists, Goto, files
<1>1. /\ job[s] \in Job /\ pc \in [Scans -> Pc]
      /\ save'[s]["execute"] = [at |-> "open", rec |-> RecordFrom(job[s]), fd |-> NoFile]
      /\ save'[s]["set_meta"] = save[s]["set_meta"]
  BY DEF TypeOK, Savers
<1>2. JobInv(s)'
  BY <1>1 DEF TypeOK, ScanInv, JobInv, Job
<1>3. RecInv(s)'
  BY <1>1 DEF TypeOK, ScanInv, JobInv, RecInv, Job, Readable, Sound, RecordFrom, Savers
<1>4. DiskInv(s)'
  BY <1>1 DEF TypeOK, ScanInv, JobInv, DiskInv, Readable, OnDisk
<1>5. \A t \in Scans \ {s} : Same(t)
  BY DEF TypeOK, Same
<1> QED  BY <1>2, <1>3, <1>4, <1>5 DEF ScanInv

LEMMA SetMetaInv ==
    ASSUME TypeOK, NEW s \in Scans, NEW m \in Metas, ScanInv(s), SetMeta(s, m)
    PROVE  ScanInv(s)' /\ \A t \in Scans \ {s} : Same(t)
<1> USE DEF SetMeta, files
<1>1. /\ job'[s] = [job[s] EXCEPT !.meta = m] /\ job[s] \in Job
      /\ pc'[s] = pc[s] /\ tmp'[s] = tmp[s] /\ final'[s] = final[s]
      /\ inode'[s] = inode[s] /\ issued' = issued
      /\ job'[s].status = job[s].status /\ job'[s].result = job[s].result
      /\ job'[s].docs = job[s].docs /\ job'[s].error = job[s].error
  BY DEF TypeOK, Job
<1>2. /\ save'[s]["execute"] = save[s]["execute"]
      /\ \/ save'[s]["set_meta"] = save[s]["set_meta"]
         \/ /\ save'[s]["set_meta"].at = "record"
            /\ job[s].result
  BY DEF TypeOK, Savers
<1>3. JobInv(s)'
  BY <1>1 DEF ScanInv, JobInv
<1>4. RecInv(s)'
  BY <1>1, <1>2 DEF ScanInv, RecInv, Readable, Savers
<1>5. DiskInv(s)'
  BY <1>1, <1>2 DEF ScanInv, DiskInv, Readable, OnDisk
<1>6. \A t \in Scans \ {s} : Same(t)
  BY DEF TypeOK, Same
<1> QED  BY <1>3, <1>4, <1>5, <1>6 DEF ScanInv

LEMMA MetaRecordInv ==
    ASSUME TypeOK, NEW s \in Scans, ScanInv(s), MetaRecord(s)
    PROVE  ScanInv(s)' /\ \A t \in Scans \ {s} : Same(t)
<1> USE DEF MetaRecord, files
<1>1. /\ job[s] \in Job
      /\ save'[s]["set_meta"].at = "open"
      /\ save'[s]["set_meta"].rec = RecordFrom(job[s])
      /\ save'[s]["execute"] = save[s]["execute"]
  BY DEF TypeOK, Savers, Save
<1>2. JobInv(s)'
  BY DEF ScanInv, JobInv
<1>3. job[s].result
  BY DEF ScanInv, RecInv, Savers
<1>4. RecInv(s)'
  <2>1. Sound(RecordFrom(job[s])) /\ RecordFrom(job[s]).status = job[s].status
    BY <1>3 DEF ScanInv, JobInv, RecordFrom, Sound
  <2>2. \A x \in Savers : x = "set_meta" \/ save'[s][x] = save[s][x]
    BY <1>1 DEF Savers
  <2> QED  BY <1>1, <1>3, <2>1, <2>2 DEF ScanInv, RecInv, Readable, Savers
<1>5. DiskInv(s)'
  BY <1>1 DEF ScanInv, DiskInv, Readable, OnDisk, RecordFrom
<1>6. \A t \in Scans \ {s} : Same(t)
  BY DEF TypeOK, Same
<1> QED  BY <1>2, <1>4, <1>5, <1>6 DEF ScanInv

(* The steps of FileScanStore.save.                                         *)
LEMMA OpenTmpInv ==
    ASSUME TypeOK, NEW s \in Scans, NEW k \in Savers, ScanInv(s), OpenTmp(s, k)
    PROVE  ScanInv(s)' /\ \A t \in Scans \ {s} : Same(t)
<1> USE DEF files
<1>1. PICK i \in Inodes :
        /\ IF tmp[s] # NoFile THEN i = tmp[s] ELSE Fresh(s, i)
        /\ tmp' = [tmp EXCEPT ![s] = i]
        /\ inode' = [inode EXCEPT ![s][i] = Empty]
        /\ save' = [save EXCEPT ![s][k].at = "write", ![s][k].fd = i]
  BY DEF OpenTmp
<1>2. /\ save[s][k].at = "open" /\ UNCHANGED <<job, issued, pc, final>>
      /\ save'[s][k].at = "write" /\ save'[s][k].fd = i
      /\ save'[s][k].rec = save[s][k].rec
      /\ \A x \in Savers \ {k} : save'[s][x] = save[s][x]
      /\ tmp'[s] = i
      /\ inode'[s][i] = Empty
      /\ \A j \in Inodes \ {i} : inode'[s][j] = inode[s][j]
  BY <1>1 DEF OpenTmp, TypeOK, Save
<1>3. i # final[s] /\ i # NoFile
  BY <1>1 DEF Fresh, Busy, ScanInv, DiskInv, Inodes, NoFile
<1>4. JobInv(s)'
  BY <1>2 DEF ScanInv, JobInv
<1>5. Readable(s)' = Readable(s) /\ (Readable(s) => OnDisk(s)' = OnDisk(s))
  BY <1>2, <1>3 DEF Readable, OnDisk, TypeOK
<1>6. RecInv(s)'
  <2>1. \A j \in Inodes : inode'[s][j].text = "whole" => inode'[s][j] = inode[s][j]
    BY <1>2 DEF Empty
  <2>2. \A x \in Savers : /\ save'[s][x].rec = save[s][x].rec
                          /\ save'[s][x].at = "idle" <=> save[s][x].at = "idle"
                          /\ save'[s][x].at \in {"open", "write", "replace"} <=>
                                save[s][x].at \in {"open", "write", "replace"}
    BY <1>2
  <2>3. "execute" \in Savers
    BY DEF Savers
  <2> QED  BY <1>2, <1>5, <2>1, <2>2, <2>3 DEF ScanInv, RecInv, Sound
<1>7. DiskInv(s)'
  <2>1. pc[s] = "idle" => save[s]["execute"].at = "idle"
    BY DEF ScanInv, RecInv
  <2> QED  BY <1>2, <1>3, <1>5, <2>1 DEF ScanInv, RecInv, DiskInv, Savers
<1>8. \A t \in Scans \ {s} : Same(t)
  BY <1>1, <1>2 DEF TypeOK, Same
<1> QED  BY <1>4, <1>6, <1>7, <1>8 DEF ScanInv

LEMMA WriteTmpInv ==
    ASSUME TypeOK, NEW s \in Scans, NEW k \in Savers, ScanInv(s), WriteTmp(s, k)
    PROVE  ScanInv(s)' /\ \A t \in Scans \ {s} : Same(t)
<1> DEFINE i == save[s][k].fd
<1>1. PICK c \in {Whole(save[s][k].rec)} \cup (IF Alone(s, k) THEN {} ELSE {Mixed}) :
        inode' = [inode EXCEPT ![s][i] = c]
  BY DEF WriteTmp
<1>2. /\ save[s][k].at = "write" /\ UNCHANGED <<job, issued, pc, tmp, final>>
      /\ save'[s][k].at = "replace"
      /\ save'[s][k].rec = save[s][k].rec
      /\ \A x \in Savers \ {k} : save'[s][x] = save[s][x]
      /\ \A j \in Inodes : inode'[s][j] = IF j = i THEN c ELSE inode[s][j]
  BY <1>1 DEF WriteTmp, TypeOK, Save
<1>3. JobInv(s)'
  BY <1>2 DEF ScanInv, JobInv
<1>4. /\ c.text = "whole" => c = Whole(save[s][k].rec) /\ c.rec = save[s][k].rec
      /\ Alone(s, k) => c = Whole(save[s][k].rec)
  BY <1>1 DEF Whole, Mixed
<1>5. RecInv(s)'
  <2>1. job[s].result
    BY <1>2 DEF ScanInv, RecInv
  <2>2. s \in issued /\ pc[s] \notin {"queued", "running"}
    BY <2>1 DEF ScanInv, JobInv
  <2> QED  BY <1>2, <1>4, <2>1, <2>2 DEF ScanInv, RecInv, Sound, Savers
<1>6. DiskInv(s)'
  <2>1. SUFFICES ASSUME pc[s] = "idle", job[s].result
                 PROVE  DiskInv(s)'
    BY <1>2 DEF ScanInv, DiskInv
  <2>2. k = "set_meta" /\ save[s]["execute"].at = "idle"
    BY <1>2, <2>1 DEF ScanInv, RecInv, Savers
  <2>3. i = tmp[s] /\ tmp[s] # NoFile /\ inode[s][i] = Empty /\ i # final[s]
    BY <1>2, <2>1, <2>2 DEF ScanInv, DiskInv
  <2>4. Alone(s, k)
    BY <2>2, <2>3 DEF Alone, Opened, Other
  <2>5. inode'[s][tmp[s]] = Whole(save[s][k].rec)
    BY <1>2, <1>4, <2>3, <2>4 DEF TypeOK
  <2>6. Readable(s)' /\ OnDisk(s)' = OnDisk(s)
    BY <1>2, <2>1, <2>3 DEF ScanInv, DiskInv, Readable, OnDisk, TypeOK
  <2> QED  BY <1>2, <2>1, <2>2, <2>3, <2>5, <2>6 DEF ScanInv, DiskInv, Whole
<1>7. \A t \in Scans \ {s} : Same(t)
  BY <1>1, <1>2 DEF WriteTmp, TypeOK, Same
<1> QED  BY <1>3, <1>5, <1>6, <1>7 DEF ScanInv

LEMMA ReplaceTmpInv ==
    ASSUME TypeOK, NEW s \in Scans, NEW k \in Savers, ScanInv(s), ReplaceTmp(s, k)
    PROVE  ScanInv(s)' /\ \A t \in Scans \ {s} : Same(t)
<1>1. /\ save[s][k].at = "replace" /\ UNCHANGED <<job, issued, inode>>
      /\ save'[s][k].at = "idle"
      /\ \A x \in Savers \ {k} : save'[s][x] = save[s][x]
      /\ IF tmp[s] = NoFile THEN tmp'[s] = tmp[s] /\ final'[s] = final[s]
         ELSE tmp'[s] = NoFile /\ final'[s] = tmp[s]
      /\ IF k = "execute" THEN pc[s] = "saving" /\ pc'[s] = "finally" ELSE pc' = pc
  BY DEF ReplaceTmp, SaveEnds, Goto, TypeOK, Idle
<1>2. job[s].result
  BY <1>1 DEF ScanInv, RecInv
<1>3. JobInv(s)'
  BY <1>1, <1>2 DEF ScanInv, JobInv
<1>4. RecInv(s)'
  <2>1. \A x \in Savers : /\ x = k => save'[s][x].at = "idle"
                          /\ x # k => save'[s][x] = save[s][x]
    BY <1>1
  <2>2. pc[s] = "idle" <=> pc'[s] = "idle"
    BY <1>1
  <2>3. pc'[s] \in {"queued", "running"} <=> pc[s] \in {"queued", "running"}
    BY <1>1
  <2>4. save'[s]["execute"].at # "idle" => pc'[s] = "saving"
    BY <1>1, <2>1 DEF ScanInv, RecInv, Savers
  <2> QED  BY <1>1, <1>2, <2>1, <2>2, <2>3, <2>4 DEF ScanInv, RecInv, Sound
<1>5. DiskInv(s)'
  <2>1. tmp'[s] = final'[s] => tmp'[s] = NoFile
    BY <1>1 DEF ScanInv, DiskInv
  <2>2. SUFFICES ASSUME pc[s] = "idle", pc'[s] = "idle"
                 PROVE  DiskInv(s)'
    BY <1>1, <2>1 DEF DiskInv
  <2>3. k = "set_meta"
    BY <1>1, <2>2 DEF Savers
  <2>4. /\ tmp[s] # NoFile /\ inode[s][tmp[s]] = Whole(save[s][k].rec)
        /\ save[s][k].rec.status = job[s].status
    BY <1>1, <1>2, <2>2, <2>3 DEF ScanInv, DiskInv
  <2>5. Readable(s)' /\ OnDisk(s)' = save[s][k].rec
    BY <1>1, <2>4 DEF Readable, OnDisk, Whole
  <2> QED  BY <1>1, <2>1, <2>3, <2>4, <2>5 DEF DiskInv
<1>6. \A t \in Scans \ {s} : Same(t)
  BY DEF ReplaceTmp, SaveEnds, Goto, TypeOK, Same
<1> QED  BY <1>3, <1>4, <1>5, <1>6 DEF ScanInv

LEMMA SaveFailsInv ==
    ASSUME TypeOK, NEW s \in Scans, NEW k \in Savers, ScanInv(s), SaveFails(s, k)
    PROVE  ScanInv(s)' /\ \A t \in Scans \ {s} : Same(t)
<1> DEFINE i == save[s][k].fd
<1>1. /\ save[s][k].at \in {"open", "write", "replace"}
      /\ UNCHANGED <<job, issued, tmp, final>>
      /\ save'[s][k].at = "idle"
      /\ \A x \in Savers \ {k} : save'[s][x] = save[s][x]
      /\ IF k = "execute" THEN pc[s] = "saving" /\ pc'[s] = "finally" ELSE pc' = pc
  BY DEF SaveFails, SaveEnds, Goto, TypeOK, Idle
<1>2. \A j \in Inodes :
        inode'[s][j] = IF save[s][k].at = "write" /\ j = i THEN Mixed ELSE inode[s][j]
  BY DEF SaveFails, Opened, TypeOK
<1>3. job[s].result
  BY <1>1 DEF ScanInv, RecInv
<1>4. JobInv(s)'
  BY <1>1, <1>3 DEF ScanInv, JobInv
<1>5. RecInv(s)'
  <2>1. \A j \in Inodes : inode'[s][j].text = "whole" => inode'[s][j] = inode[s][j]
    BY <1>2 DEF Mixed
  <2>2. \A x \in Savers : /\ x = k => save'[s][x].at = "idle"
                          /\ x # k => save'[s][x] = save[s][x]
    BY <1>1
  <2>3. pc[s] = "idle" <=> pc'[s] = "idle"
    BY <1>1
  <2>4. pc'[s] \in {"queued", "running"} <=> pc[s] \in {"queued", "running"}
    BY <1>1
  <2>5. save'[s]["execute"].at # "idle" => pc'[s] = "saving"
    BY <1>1, <2>2 DEF ScanInv, RecInv, Savers
  <2> QED  BY <1>1, <1>3, <2>1, <2>2, <2>3, <2>4, <2>5 DEF ScanInv, RecInv, Sound
<1>6. DiskInv(s)'
  <2>1. SUFFICES ASSUME pc[s] = "idle", pc'[s] = "idle"
                 PROVE  DiskInv(s)'
    BY <1>1 DEF ScanInv, DiskInv
  <2>2. k = "set_meta"
    BY <1>1, <2>1 DEF Savers
  <2>3. save[s][k].at = "write" => i = tmp[s] /\ i # final[s]
    BY <1>3, <2>1, <2>2 DEF ScanInv, DiskInv
  <2>4. Readable(s)' /\ OnDisk(s)' = OnDisk(s)
    BY <1>1, <1>2, <1>3, <2>1, <2>3 DEF ScanInv, DiskInv, Readable, OnDisk, TypeOK
  <2> QED  BY <1>1, <1>3, <2>1, <2>2, <2>4 DEF ScanInv, DiskInv
<1>7. \A t \in Scans \ {s} : Same(t)
  BY DEF SaveFails, SaveEnds, Goto, TypeOK, Same
<1> QED  BY <1>4, <1>5, <1>6, <1>7 DEF ScanInv

(* Restart: a job is back exactly when its record can be read.              *)
LEMMA CrashInv ==
    ASSUME TypeOK, NEW s \in Scans, ScanInv(s), Crash
    PROVE  ScanInv(s)'
<1>1. /\ job'[s] = JobFromRecord(s) /\ pc'[s] = "idle"
      /\ \A k \in Savers : save'[s][k].at = "idle"
      /\ UNCHANGED <<issued, tmp, final, inode>>
  BY DEF Crash, files, Idle
<1>2. Readable(s)' = Readable(s) /\ OnDisk(s)' = OnDisk(s)
  BY <1>1 DEF Readable, OnDisk
<1>3. CASE Readable(s)
  <2>1. Sound(OnDisk(s)) /\ job[s].result /\ s \in issued
    BY <1>3 DEF ScanInv, JobInv, RecInv, Readable, OnDisk, TypeOK
  <2>2. /\ job'[s].status = OnDisk(s).status /\ job'[s].docs = OnDisk(s).docs
        /\ job'[s].result /\ ~job'[s].error
    BY <1>1, <1>3 DEF JobFromRecord
  <2>3. JobInv(s)'
    BY <1>1, <2>1, <2>2 DEF JobInv, Sound
  <2>4. RecInv(s)'
    BY <1>1, <2>1, <2>2 DEF ScanInv, RecInv, Savers, Sound
  <2>5. DiskInv(s)'
    BY <1>1, <1>2, <1>3, <2>2 DEF ScanInv, DiskInv, Savers
  <2> QED  BY <2>3, <2>4, <2>5 DEF ScanInv
<1>4. CASE ~Readable(s)
  <2>1. job'[s].status = "absent" /\ ~job'[s].result /\ ~job'[s].error
    BY <1>1, <1>4 DEF JobFromRecord, NoJob
  <2>2. JobInv(s)'
    BY <1>1, <2>1 DEF JobInv
  <2>3. RecInv(s)'
    BY <1>1, <1>2, <1>4, <2>1 DEF ScanInv, RecInv, Savers, Sound
  <2>4. DiskInv(s)'
    BY <1>1, <2>1 DEF ScanInv, DiskInv
  <2> QED  BY <2>2, <2>3, <2>4 DEF ScanInv
<1> QED  BY <1>3, <1>4

LEMMA InvInit == ConstantsAssumption /\ Init => IInv
<1> SUFFICES ASSUME ConstantsAssumption, Init
             PROVE  IInv
  OBVIOUS
<1>1. ASSUME NEW s \in Scans
      PROVE  JobInv(s) /\ RecInv(s) /\ DiskInv(s)
  BY DEF Init, JobInv, RecInv, DiskInv, Readable, NoJob, Idle, Empty, Savers
<1> QED  BY <1>1, TypeInit DEF IInv, ScanInv

LEMMA InvNext ==
    ASSUME ConstantsAssumption, IInv, [Next]_vars
    PROVE  IInv'
<1>1. TypeOK'
  BY TypeNext DEF IInv
<1>2. ASSUME NEW s \in Scans, ScanInv(s)' /\ \A t \in Scans \ {s} : Same(t)
      PROVE  \A t \in Scans : ScanInv(t)'
  BY <1>2, Frame DEF IInv
<1>3. CASE \E s \in Scans :
        \/ UploadReceived(s) \/ UploadRejected(s) \/ Cleanup(s)
        \/ \E m \in Metas : Submit(s, m)
  BY <1>1, <1>2, <1>3, ClientStepInv DEF IInv
<1>4. CASE \E s \in Scans :
        \/ Begin(s) \/ PipelineSucceeds(s) \/ PipelineFails(s) \/ SetDocsDir(s)
        \/ SetDone(s) \/ SetFailed(s) \/ Finally(s)
  BY <1>1, <1>2, <1>4, JobStepInv DEF IInv
<1>5. CASE \E s \in Scans : ExecutePersists(s) \/ MetaRecord(s)
  BY <1>1, <1>2, <1>5, PersistInv, MetaRecordInv DEF IInv
<1>6. CASE \E s \in Scans, m \in Metas : SetMeta(s, m)
  BY <1>1, <1>2, <1>6, SetMetaInv DEF IInv
<1>7. CASE \E s \in Scans, k \in Savers : SaveStep(s, k)
  BY <1>1, <1>2, <1>7, OpenTmpInv, WriteTmpInv, ReplaceTmpInv, SaveFailsInv
  DEF IInv, SaveStep
<1>8. CASE Crash
  BY <1>1, <1>8, CrashInv DEF IInv
<1>9. CASE UNCHANGED vars
  BY <1>1, <1>9, Frame DEF IInv, vars, Same
<1> QED
  BY <1>3, <1>4, <1>5, <1>6, <1>7, <1>8, <1>9
  DEF Next, ExecuteStep, MetaStep, Savers

THEOREM Invariance == Spec => []IInv
  BY ConstantsAssumption, InvInit, InvNext, PTL DEF Spec

(* What the routes read without the lock is there: result and docs_dir of   *)
(* every DONE scan, the error of every FAILED one, across any restarts.     *)
THEOREM Truthful == Spec => []FinishedIsTruthful
<1>1. IInv => FinishedIsTruthful
  BY DEF IInv, ScanInv, JobInv, FinishedIsTruthful
<1> QED  BY <1>1, Invariance, PTL

(* A scan read back from disk is never lost by a later step or restart.     *)
THEOREM RestoredIsKept == Spec => RestoredStays
<1>1. ASSUME IInv, [Next]_vars, NEW s \in Scans,
             pc[s] = "idle", job[s].status # "absent"
      PROVE  job'[s].status = job[s].status
  <2>1. CASE Crash
    <3>1. Readable(s) /\ OnDisk(s).status = job[s].status
      BY <1>1 DEF IInv, ScanInv, JobInv, DiskInv
    <3> QED  BY <2>1, <3>1 DEF Crash, JobFromRecord
  <2>2. ASSUME NEW t \in Scans, NEW m \in Metas, SetMeta(t, m)
        PROVE  job'[s].status = job[s].status
    BY <2>2 DEF SetMeta, IInv, TypeOK, Job
  <2>3. ASSUME NEW t \in Scans, NEW m \in Metas, Submit(t, m)
        PROVE  job'[s].status = job[s].status
    <3>1. t # s
      BY <1>1, <2>3 DEF Submit, IInv, ScanInv, JobInv
    <3> QED  BY <2>3, <3>1 DEF Submit, IInv, TypeOK
  <2>4. ASSUME NEW t \in Scans,
               \/ Begin(t) \/ PipelineSucceeds(t) \/ PipelineFails(t) \/ SetDocsDir(t)
               \/ SetDone(t) \/ SetFailed(t) \/ Finally(t)
        PROVE  job'[s].status = job[s].status
    <3>1. t # s
      BY <1>1, <2>4 DEF Begin, PipelineSucceeds, PipelineFails, SetDocsDir, SetDone,
                        SetFailed, Finally, Goto
    <3>2. \E j : job' = [job EXCEPT ![t] = j]
      BY <2>4 DEF Begin, PipelineSucceeds, PipelineFails, SetDocsDir, SetDone,
                  SetFailed, Finally, SetJob
    <3> QED  BY <1>1, <3>1, <3>2 DEF IInv, TypeOK
  <2>5. CASE UNCHANGED job
    BY <2>5
  <2> QED
    BY <1>1, <2>1, <2>2, <2>3, <2>4, <2>5
    DEF Next, ExecuteStep, MetaStep, SaveStep, OpenTmp, WriteTmp, ReplaceTmp, SaveFails,
        SaveEnds, MetaRecord, ExecutePersists, Cleanup, UploadReceived, UploadRejected, vars
<1>2. IInv /\ [Next]_vars =>
        [\A s \in Scans : (pc[s] = "idle" /\ job[s].status # "absent")
             => job'[s].status = job[s].status]_vars
  BY <1>1
<1> QED  BY <1>2, Invariance, PTL DEF RestoredStays, Spec
-----------------------------------------------------------------------------
(* Refinement: the observed phases follow ScanLifecycle.                    *)
LEMMA PhaseTyped ==
    ASSUME TypeOK, NEW s \in Scans
    PROVE  Phase(s) \in Lifecycle!Phases
  BY DEF TypeOK, Job, Status, Phase, Lifecycle!Phases

(* A step of one scan moves the phase of that scan only.                    *)
LEMMA PhaseFrame ==
    ASSUME NEW s \in Scans, \A t \in Scans \ {s} : Same(t)
    PROVE  [t \in Scans |-> Phase(t)]' =
              [[t \in Scans |-> Phase(t)] EXCEPT ![s] = Phase(s)']
<1>1. \A t \in Scans \ {s} : Phase(t)' = Phase(t)
  BY DEF Same, Phase
<1> QED  BY <1>1

LEMMA PhaseOfStep ==
    ASSUME IInv, NEW s \in Scans
    PROVE  /\ \A m \in Metas :
                 Submit(s, m) => Phase(s) = "new" /\ Phase(s)' = "queued"
           /\ Begin(s) => Phase(s) = "queued" /\ Phase(s)' = "running"
           /\ SetDone(s) => Phase(s) = "running" /\ Phase(s)' = "done"
           /\ SetFailed(s) => Phase(s) = "running" /\ Phase(s)' = "failed"
           /\ PipelineSucceeds(s) \/ PipelineFails(s) \/ SetDocsDir(s)
              \/ Finally(s) \/ Cleanup(s) \/ UploadReceived(s)
              \/ UploadRejected(s) \/ ExecutePersists(s) \/ MetaRecord(s)
                 => Phase(s)' = Phase(s)
           /\ \A m \in Metas : SetMeta(s, m) => Phase(s)' = Phase(s)
           /\ \A k \in Savers : SaveStep(s, k) => Phase(s)' = Phase(s)
<1> USE DEF Goto, SetJob, Phase
<1>1. job \in [Scans -> Job] /\ pc \in [Scans -> Pc] /\ JobInv(s)
  BY DEF IInv, TypeOK, ScanInv
<1>2. ASSUME NEW m \in Metas, Submit(s, m)
      PROVE  Phase(s) = "new" /\ Phase(s)' = "queued"
  BY <1>1, <1>2 DEF Submit, JobInv, NoJob
<1>3. Begin(s) => Phase(s) = "queued" /\ Phase(s)' = "running"
  BY <1>1 DEF Begin, JobInv, Job
<1>4. SetDone(s) => Phase(s) = "running" /\ Phase(s)' = "done"
  BY <1>1 DEF SetDone, JobInv, Job
<1>5. SetFailed(s) => Phase(s) = "running" /\ Phase(s)' = "failed"
  BY <1>1 DEF SetFailed, JobInv, Job
<1>6. PipelineSucceeds(s) \/ PipelineFails(s) \/ SetDocsDir(s) \/ Finally(s)
         => Phase(s)' = Phase(s)
  BY <1>1 DEF PipelineSucceeds, PipelineFails, SetDocsDir, Finally, JobInv, Job
<1>7. Cleanup(s) \/ ExecutePersists(s) => Phase(s)' = Phase(s)
  BY <1>1 DEF Cleanup, ExecutePersists, JobInv
<1>8. UploadReceived(s) \/ UploadRejected(s) => Phase(s)' = Phase(s)
  BY <1>1 DEF UploadReceived, UploadRejected, JobInv
<1>9. MetaRecord(s) => Phase(s)' = Phase(s)
  BY DEF MetaRecord
<1>10. ASSUME NEW m \in Metas, SetMeta(s, m)
       PROVE  Phase(s)' = Phase(s)
  BY <1>1, <1>10 DEF SetMeta, Job
<1>11. ASSUME NEW k \in Savers, SaveStep(s, k)
       PROVE  Phase(s)' = Phase(s)
  <2>1. UNCHANGED <<job, issued>> /\ (pc' = pc \/ Goto(s, "saving", "finally"))
    BY <1>11 DEF SaveStep, OpenTmp, WriteTmp, ReplaceTmp, SaveFails, SaveEnds
  <2> QED  BY <1>1, <2>1 DEF JobInv
<1> QED
  BY <1>2, <1>3, <1>4, <1>5, <1>6, <1>7, <1>8, <1>9, <1>10, <1>11

(* A restart makes of every phase what ScanLifecycle allows.                *)
LEMMA PhaseOfCrash ==
    ASSUME IInv, IInv', NEW s \in Scans, Crash
    PROVE  Phase(s)' \in Lifecycle!AfterRestart(Phase(s))
<1>1. /\ job'[s] = JobFromRecord(s) /\ pc'[s] = "idle" /\ issued' = issued
  BY DEF Crash
<1>2. CASE ~Readable(s)
  <2>1. job'[s].status = "absent"
    BY <1>1, <1>2 DEF JobFromRecord, NoJob
  <2>2. Phase(s)' = IF s \in issued THEN "lost" ELSE "new"
    BY <1>1, <2>1 DEF Phase
  <2>3. s \notin issued => Phase(s) = "new"
    BY DEF Phase, IInv, ScanInv, JobInv
  <2>4. s \in issued => Phase(s) \in {"lost", "queued", "running", "done", "failed"}
    <3>1. pc[s] = "idle" => job[s].status = "absent"
      BY <1>2 DEF IInv, ScanInv, JobInv, DiskInv
    <3> QED  BY <3>1 DEF Phase, IInv, TypeOK, Job, Status
  <2> QED  BY <2>2, <2>3, <2>4 DEF Lifecycle!AfterRestart
<1>3. CASE Readable(s)
  <2>1. /\ job'[s].status = OnDisk(s).status
        /\ OnDisk(s).status \in {"running", "done"}
        /\ job[s].result /\ job[s].status \in {"running", "done"}
        /\ pc[s] # "idle" /\ job[s].status = "running" => OnDisk(s).status = "running"
        /\ pc[s] = "idle" => OnDisk(s).status = job[s].status
    BY <1>1, <1>3 DEF JobFromRecord, IInv, ScanInv, JobInv, RecInv, DiskInv, Sound,
                      Readable, OnDisk, TypeOK
  <2>2. Phase(s)' = IF OnDisk(s).status = "running" THEN "stalled" ELSE "kept"
    BY <1>1, <2>1 DEF Phase
  <2> QED  BY <2>1, <2>2 DEF Phase, Lifecycle!AfterRestart
<1> QED  BY <1>2, <1>3

LEMMA StepRefines ==
    ASSUME IInv, IInv', [Next]_vars
    PROVE  [Lifecycle!Next]_([s \in Scans |-> Phase(s)])
<1> DEFINE ph == [s \in Scans |-> Phase(s)]
<1>1. ASSUME NEW s \in Scans, \A t \in Scans \ {s} : Same(t),
             NEW from, NEW to, Phase(s) = from, Phase(s)' = to
      PROVE  Lifecycle!Move(s, from, to)
  BY <1>1, PhaseFrame DEF Lifecycle!Move
<1>2. ASSUME NEW s \in Scans, \A t \in Scans \ {s} : Same(t), Phase(s)' = Phase(s)
      PROVE  UNCHANGED ph
  BY <1>2, PhaseFrame
<1>3. ASSUME NEW s \in Scans, \E m \in Metas : Submit(s, m)
      PROVE  Lifecycle!Submit(s)
  BY <1>1, <1>3, ClientStepInv, PhaseOfStep DEF Lifecycle!Submit, IInv
<1>4. ASSUME NEW s \in Scans, Begin(s) \/ SetDone(s) \/ SetFailed(s)
      PROVE  Lifecycle!Start(s) \/ Lifecycle!Finish(s)
  <2>1. \A t \in Scans \ {s} : Same(t)
    BY <1>4, JobStepInv DEF IInv
  <2> QED  BY <1>1, <1>4, <2>1, PhaseOfStep DEF Lifecycle!Start, Lifecycle!Finish
<1>5. ASSUME NEW s \in Scans,
             PipelineSucceeds(s) \/ PipelineFails(s) \/ SetDocsDir(s) \/ Finally(s)
      PROVE  UNCHANGED ph
  BY <1>2, <1>5, JobStepInv, PhaseOfStep DEF IInv
<1>6. ASSUME NEW s \in Scans, Cleanup(s) \/ UploadReceived(s) \/ UploadRejected(s)
      PROVE  UNCHANGED ph
  BY <1>2, <1>6, ClientStepInv, PhaseOfStep DEF IInv
<1>7. ASSUME NEW s \in Scans,
             ExecutePersists(s) \/ MetaRecord(s) \/ \E m \in Metas : SetMeta(s, m)
      PROVE  UNCHANGED ph
  BY <1>2, <1>7, PersistInv, MetaRecordInv, SetMetaInv, PhaseOfStep DEF IInv
<1>8. ASSUME NEW s \in Scans, NEW k \in Savers, SaveStep(s, k)
      PROVE  UNCHANGED ph
  <2>1. \A t \in Scans \ {s} : Same(t)
    BY <1>8, OpenTmpInv, WriteTmpInv, ReplaceTmpInv, SaveFailsInv DEF IInv, SaveStep
  <2> QED  BY <1>2, <1>8, <2>1, PhaseOfStep
<1>9. CASE Crash
  <2>1. ph' \in [Scans -> Lifecycle!Phases]
    BY PhaseTyped DEF IInv, Lifecycle!Phases, TypeOK, Phase, Job, Status
  <2>2. \A s \in Scans : ph'[s] \in Lifecycle!AfterRestart(ph[s])
    BY <1>9, PhaseOfCrash
  <2> QED  BY <2>1, <2>2 DEF Lifecycle!Next, Lifecycle!Restart
<1>10. CASE UNCHANGED vars
  BY <1>10 DEF vars, Phase
<1> QED
  BY <1>3, <1>4, <1>5, <1>6, <1>7, <1>8, <1>9, <1>10
  DEF Next, ExecuteStep, MetaStep, Savers, Lifecycle!Next

(* The service, with its threads, lock and files, implements the lifecycle. *)
THEOREM Refinement == Spec => ImplementsLifecycle
<1>1. Init => Lifecycle!Init
  BY DEF Init, NoJob, Phase, Lifecycle!Init
<1> QED  BY <1>1, Invariance, StepRefines, PTL
         DEF Spec, ImplementsLifecycle, Lifecycle!Spec
=============================================================================
