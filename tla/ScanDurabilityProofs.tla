------------------------ MODULE ScanDurabilityProofs ------------------------
(***************************************************************************)
(* What ScanService promises of the disk and of uploaded archives, proved  *)
(* for any scans, bounds and restarts on top of the invariant IInv of      *)
(* ScanServiceProofs.  LockInv says whose set_meta call holds the lock,    *)
(* QuietInv follows the one save a scan may have in progress while nothing *)
(* has disturbed it, from the record it was given to the renamed file.     *)
(***************************************************************************)
EXTENDS ScanServiceProofs

LockInv == \A s \in Scans : save[s]["set_meta"].at # "idle" => lock = s

(* The record says of the job what will not change before the next save.   *)
Current(s, r) ==
    /\ r.meta = job[s].meta
    /\ pc[s] \in {"idle", "saving", "finally", "cleanup", "finished"} =>
          r.status = job[s].status /\ r.docs = job[s].docs

QuietInv(s) ==
    /\ \A k \in Savers :
          /\ save[s][k].at # "idle" => save[s][Other(k)].at = "idle"
          /\ save[s][k].at \in {"open", "write", "replace"} =>
                Current(s, save[s][k].rec)
          /\ save[s][k].at = "write" =>
                /\ tmp[s] # NoFile /\ save[s][k].fd = tmp[s]
                /\ inode[s][tmp[s]] = Empty
          /\ save[s][k].at = "replace" =>
                tmp[s] # NoFile /\ inode[s][tmp[s]] = Whole(save[s][k].rec)
    /\ AtRest(s) /\ job[s].result => Readable(s) /\ Current(s, OnDisk(s))

QInv == \A s \in Scans : s \notin disturbed => QuietInv(s)

(* The archive of an upload is there from its first byte to the clean-up.  *)
ArchiveInv ==
    \A s \in Uploads : pc[s] \notin {"idle", "finished"} => s \in upload
-----------------------------------------------------------------------------
(* Every step is one of these; the case splits below follow them.          *)
JobStep(s) ==
    \/ Begin(s) \/ PipelineSucceeds(s) \/ PipelineFails(s) \/ SetDocsDir(s)
    \/ SetDone(s) \/ SetFailed(s) \/ Finally(s)
ClientStep(s) ==
    \/ UploadReceived(s) \/ UploadRejected(s) \/ Cleanup(s)
    \/ \E m \in Metas : Submit(s, m)
AnySetMeta(s) == \E m \in Metas : SetMeta(s, m)

LEMMA Steps ==
    ASSUME [Next]_vars
    PROVE  \/ \E s \in Scans :
                 \/ JobStep(s) \/ ClientStep(s) \/ AnySetMeta(s)
                 \/ ExecutePersists(s) \/ MetaRecord(s)
                 \/ \E k \in Savers : SaveStep(s, k)
           \/ Crash \/ UNCHANGED vars
  BY DEF Next, ExecuteStep, MetaStep, Savers, JobStep, ClientStep, AnySetMeta

(* The lock is held by the scan whose set_meta call is saving.             *)
LEMMA LockNext ==
    ASSUME ConstantsAssumption, TypeOK, LockInv, [Next]_vars
    PROVE  LockInv'
<1> USE DEF LockInv
<1>1. ASSUME NEW s \in Scans, JobStep(s) \/ ClientStep(s)
      PROVE  LockInv'
  BY <1>1 DEF JobStep, ClientStep, Begin, PipelineSucceeds, PipelineFails, SetDocsDir,
              SetDone, SetFailed, Finally, SetJob, UploadReceived, UploadRejected,
              Cleanup, Submit
<1>2. ASSUME NEW s \in Scans, AnySetMeta(s)
      PROVE  LockInv'
  <2>1. \A t \in Scans : save[t]["set_meta"].at = "idle"
    BY <1>2 DEF AnySetMeta, SetMeta, Unlocked, ConstantsAssumption
  <2>2. \A t \in Scans \ {s} : save'[t] = save[t]
    BY <1>2 DEF AnySetMeta, SetMeta, TypeOK
  <2>3. save' = save \/ lock' = s
    BY <1>2 DEF AnySetMeta, SetMeta
  <2> QED  BY <2>1, <2>2, <2>3
<1>3. ASSUME NEW s \in Scans, ExecutePersists(s) \/ MetaRecord(s)
      PROVE  LockInv'
  <2>1. lock' = lock
    BY <1>3 DEF ExecutePersists, MetaRecord
  <2>2. \A t \in Scans \ {s} : save'[t] = save[t]
    BY <1>3 DEF ExecutePersists, MetaRecord, TypeOK
  <2>3. MetaRecord(s) => save[s]["set_meta"].at # "idle"
    BY DEF MetaRecord
  <2>4. ExecutePersists(s) => save'[s]["set_meta"] = save[s]["set_meta"]
    BY DEF ExecutePersists, TypeOK, Savers
  <2> QED  BY <1>3, <2>1, <2>2, <2>3, <2>4
<1>4. ASSUME NEW s \in Scans, NEW k \in Savers, SaveStep(s, k)
      PROVE  LockInv'
  <2>1. save[s][k].at # "idle"
    BY <1>4 DEF SaveStep, OpenTmp, WriteTmp, ReplaceTmp, SaveFails
  <2>2. \A t \in Scans : save'[t]["set_meta"].at # "idle" => save[t]["set_meta"].at # "idle"
    <3>1. save' = [save EXCEPT ![s] = save'[s]]
      BY <1>4 DEF SaveStep, OpenTmp, WriteTmp, ReplaceTmp, SaveFails, SaveEnds, TypeOK
    <3>2. \A x \in Savers \ {k} : save'[s][x] = save[s][x]
      BY <1>4 DEF SaveStep, OpenTmp, WriteTmp, ReplaceTmp, SaveFails, SaveEnds, TypeOK
    <3> QED  BY <2>1, <3>1, <3>2 DEF TypeOK, Savers
  <2>3. CASE lock' = lock
    BY <2>2, <2>3
  <2>4. CASE lock' # lock
    <3>1. k = "set_meta" /\ save'[s][k].at = "idle"
      BY <1>4, <2>4 DEF SaveStep, OpenTmp, WriteTmp, ReplaceTmp, SaveFails, SaveEnds,
                        Savers, TypeOK, Idle
    <3> QED  BY <2>1, <2>2, <3>1
  <2> QED  BY <2>3, <2>4
<1>5. CASE Crash
  BY <1>5 DEF Crash, Idle, Savers
<1>6. CASE UNCHANGED vars
  BY <1>6 DEF vars
<1> QED  BY <1>1, <1>2, <1>3, <1>4, <1>5, <1>6, Steps
-----------------------------------------------------------------------------
(* One lemma for each kind of step of a scan that stays undisturbed.       *)
LEMMA QuietFrame ==
    ASSUME NEW s \in Scans, QuietInv(s), Same(s)
    PROVE  QuietInv(s)'
  BY DEF QuietInv, Same, Current, AtRest, Readable, OnDisk, Whole, Empty, Other

LEMMA QuietJobStep ==
    ASSUME TypeOK, NEW s \in Scans, ScanInv(s), QuietInv(s), JobStep(s)
    PROVE  QuietInv(s)'
<1> USE DEF JobStep, Begin, PipelineSucceeds, PipelineFails, SetDocsDir, SetDone,
            SetFailed, Finally, Goto, SetJob, files
<1>1. /\ UNCHANGED <<save, tmp, final, inode>>
      /\ job'[s].meta = job[s].meta
      /\ job[s] \in Job
  BY DEF TypeOK, Job
<1>2. \/ pc'[s] \notin {"idle", "saving", "finally", "cleanup", "finished"}
      \/ ~job[s].result /\ ~job'[s].result
      \/ /\ pc[s] = "finally" /\ job'[s].status = job[s].status
         /\ job'[s].docs = job[s].docs /\ job'[s].result = job[s].result
  BY <1>1 DEF TypeOK, Job, ScanInv, JobInv
<1>3. \A k \in Savers : save[s][k].at # "idle" => job[s].result
  BY DEF ScanInv, RecInv
<1>4. \A r : Current(s, r) /\ job[s].result => Current(s, r)'
  BY <1>1, <1>2 DEF Current
<1> QED  BY <1>1, <1>2, <1>3, <1>4 DEF QuietInv, AtRest, Readable, OnDisk

LEMMA QuietClientStep ==
    ASSUME TypeOK, NEW s \in Scans, ScanInv(s), QuietInv(s), ClientStep(s)
    PROVE  QuietInv(s)'
<1> USE DEF ClientStep, UploadReceived, UploadRejected, Cleanup, Submit, Goto, files
<1>1. UNCHANGED <<save, tmp, final, inode>>
  OBVIOUS
<1>2. \/ pc[s] = "cleanup" /\ job' = job
      \/ ~job[s].result /\ ~job'[s].result
  <2>1. UploadReceived(s) \/ UploadRejected(s) => ~job[s].result /\ job' = job
    BY DEF ScanInv, JobInv
  <2>2. Cleanup(s) => pc[s] = "cleanup" /\ job' = job
    OBVIOUS
  <2>3. ASSUME NEW m \in Metas, Submit(s, m)
        PROVE  ~job[s].result /\ ~job'[s].result
    BY <2>3 DEF ScanInv, JobInv, NoJob, TypeOK
  <2> QED  BY <2>1, <2>2, <2>3
<1>3. \A k \in Savers : save[s][k].at # "idle" => job[s].result
  BY DEF ScanInv, RecInv
<1>4. \A r : Current(s, r) /\ job[s].result => Current(s, r)'
  BY <1>2 DEF Current
<1> QED  BY <1>1, <1>2, <1>3, <1>4 DEF QuietInv, AtRest, Readable, OnDisk

(* A save that starts while the other saver is at work disturbs the scan.  *)
LEMMA QuietPersist ==
    ASSUME TypeOK, NEW s \in Scans, ScanInv(s), QuietInv(s), ExecutePersists(s),
           s \notin disturbed'
    PROVE  QuietInv(s)'
<1>1. /\ pc'[s] = "saving" /\ UNCHANGED <<job, tmp, final, inode>>
      /\ save'[s]["execute"] = [at |-> "open", rec |-> RecordFrom(job[s]), fd |-> NoFile]
      /\ save'[s]["set_meta"] = save[s]["set_meta"]
  BY DEF ExecutePersists, Goto, TypeOK, Savers, files
<1>2. save[s]["set_meta"].at = "idle"
  BY DEF ExecutePersists, Disturb, Other
<1>3. Current(s, RecordFrom(job[s]))'
  BY <1>1 DEF Current, RecordFrom
<1> QED  BY <1>1, <1>2, <1>3 DEF QuietInv, AtRest, Savers, Other

LEMMA QuietSetMeta ==
    ASSUME TypeOK, NEW s \in Scans, ScanInv(s), QuietInv(s), AnySetMeta(s),
           s \notin disturbed'
    PROVE  QuietInv(s)'
<1> PICK m \in Metas : SetMeta(s, m)
  BY DEF AnySetMeta
<1>1. UNCHANGED <<pc, tmp, final, inode>> /\ job'[s].result = job[s].result
  BY DEF SetMeta, files, TypeOK, Job
<1>2. CASE ~job[s].result
  <2>1. \A k \in Savers : save'[s][k].at = "idle"
    BY <1>2 DEF SetMeta, ScanInv, RecInv
  <2> QED  BY <1>1, <1>2, <2>1 DEF QuietInv
<1>3. CASE job[s].result
  <2>1. save'[s]["set_meta"].at = "record" /\ save'[s]["execute"] = save[s]["execute"]
    BY <1>3 DEF SetMeta, TypeOK, Savers
  <2>2. save[s]["execute"].at = "idle"
    BY <1>3 DEF SetMeta, Disturb, Other
  <2> QED  BY <2>1, <2>2 DEF QuietInv, AtRest, Savers, Other
<1> QED  BY <1>2, <1>3

LEMMA QuietMetaRecord ==
    ASSUME TypeOK, NEW s \in Scans, ScanInv(s), QuietInv(s), MetaRecord(s)
    PROVE  QuietInv(s)'
<1>1. UNCHANGED <<job, pc, tmp, final, inode>>
  BY DEF MetaRecord, files
<1>2. /\ save[s]["set_meta"].at = "record" /\ save'[s]["set_meta"].at = "open"
      /\ save'[s]["set_meta"].rec = RecordFrom(job[s])
      /\ save'[s]["execute"] = save[s]["execute"]
  BY DEF MetaRecord, TypeOK, Savers, Save
<1>3. save[s]["execute"].at = "idle"
  BY <1>2 DEF QuietInv, Savers, Other
<1>4. Current(s, RecordFrom(job[s]))'
  BY <1>1 DEF Current, RecordFrom
<1> QED  BY <1>1, <1>2, <1>3, <1>4 DEF QuietInv, AtRest, Savers, Other

(* The undisturbed saver has the file for itself: it opens it empty, writes *)
(* the whole record and renames what it wrote.                              *)
LEMMA QuietSaveStep ==
    ASSUME TypeOK, NEW s \in Scans, NEW k \in Savers, ScanInv(s), QuietInv(s),
           SaveStep(s, k), s \notin disturbed'
    PROVE  QuietInv(s)'
<1>1. /\ save[s][k].at # "idle" /\ save[s][Other(k)].at = "idle"
      /\ Other(k) \in Savers /\ Savers = {k, Other(k)} /\ k # Other(k)
      /\ Other(Other(k)) = k
  BY DEF SaveStep, OpenTmp, WriteTmp, ReplaceTmp, SaveFails, QuietInv, Other, Savers
<1>2. CASE OpenTmp(s, k)
  <2>1. PICK i \in Inodes :
          /\ tmp' = [tmp EXCEPT ![s] = i]
          /\ inode' = [inode EXCEPT ![s][i] = Empty]
          /\ save' = [save EXCEPT ![s][k].at = "write", ![s][k].fd = i]
    BY <1>2 DEF OpenTmp
  <2>2. /\ save[s][k].at = "open" /\ UNCHANGED <<job, pc>>
        /\ save'[s][k].at = "write" /\ save'[s][k].fd = i
        /\ save'[s][k].rec = save[s][k].rec
        /\ save'[s][Other(k)] = save[s][Other(k)]
        /\ tmp'[s] = i /\ inode'[s][i] = Empty /\ i # NoFile
    BY <1>1, <1>2, <2>1 DEF OpenTmp, TypeOK, Save, Inodes, NoFile
  <2>3. Current(s, save[s][k].rec)'
    BY <2>2 DEF QuietInv, Current
  <2> QED  BY <1>1, <2>2, <2>3 DEF QuietInv, AtRest
<1>3. CASE WriteTmp(s, k)
  <2>1. /\ save[s][k].at = "write" /\ UNCHANGED <<job, pc, tmp, final>>
        /\ save'[s][k].at = "replace" /\ save'[s][k].rec = save[s][k].rec
        /\ save'[s][Other(k)] = save[s][Other(k)]
    BY <1>1, <1>3 DEF WriteTmp, TypeOK, Save
  <2>2. tmp[s] # NoFile /\ save[s][k].fd = tmp[s] /\ Alone(s, k)
    BY <1>1, <2>1 DEF QuietInv, Alone, Opened
  <2>3. inode'[s][tmp[s]] = Whole(save[s][k].rec)
    BY <1>3, <2>2 DEF WriteTmp, TypeOK
  <2>4. Current(s, save[s][k].rec)'
    BY <2>1 DEF QuietInv, Current
  <2> QED  BY <1>1, <2>1, <2>2, <2>3, <2>4 DEF QuietInv, AtRest
<1>4. CASE ReplaceTmp(s, k)
  <2>1. /\ save[s][k].at = "replace" /\ UNCHANGED <<job, inode>>
        /\ save'[s][k].at = "idle"
        /\ save'[s][Other(k)] = save[s][Other(k)]
        /\ IF k = "execute" THEN pc[s] = "saving" /\ pc'[s] = "finally" ELSE pc' = pc
    BY <1>1, <1>4 DEF ReplaceTmp, SaveEnds, Goto, TypeOK, Idle
  <2>2. tmp[s] # NoFile /\ inode[s][tmp[s]] = Whole(save[s][k].rec)
    BY <2>1 DEF QuietInv
  <2>3. final'[s] = tmp[s]
    BY <1>4, <2>2 DEF ReplaceTmp, TypeOK
  <2>4. Readable(s)' /\ OnDisk(s)' = save[s][k].rec
    BY <2>1, <2>2, <2>3 DEF Readable, OnDisk, Whole
  <2>5. PICK r : r = save[s][k].rec
    OBVIOUS
  <2>6. Current(s, r)'
    BY <2>1, <2>5 DEF QuietInv, Current
  <2>7. Current(s, OnDisk(s))'
    BY <2>4, <2>5, <2>6 DEF Current
  <2> QED  BY <1>1, <2>1, <2>4, <2>7 DEF QuietInv
<1>5. CASE SaveFails(s, k)
  BY <1>5 DEF SaveFails
<1> QED  BY <1>2, <1>3, <1>4, <1>5 DEF SaveStep

(* A restart reads the job from the very record the invariant speaks of.   *)
LEMMA QuietCrash ==
    ASSUME NEW s \in Scans, Crash
    PROVE  QuietInv(s)'
<1>1. /\ job'[s] = JobFromRecord(s) /\ pc'[s] = "idle"
      /\ \A k \in Savers : save'[s][k].at = "idle"
      /\ UNCHANGED <<tmp, final, inode>>
  BY DEF Crash, files, Idle
<1>2. Readable(s)' = Readable(s) /\ OnDisk(s)' = OnDisk(s)
  BY <1>1 DEF Readable, OnDisk
<1>3. job'[s].result => Readable(s)
  BY <1>1 DEF JobFromRecord, NoJob
<1>4. Readable(s) => /\ job'[s].meta = OnDisk(s)'.meta
                     /\ job'[s].status = OnDisk(s)'.status
                     /\ job'[s].docs = OnDisk(s)'.docs
  BY <1>1, <1>2 DEF JobFromRecord
<1> QED  BY <1>1, <1>2, <1>3, <1>4 DEF QuietInv, Current
-----------------------------------------------------------------------------
(* A step of one scan leaves the others as they are, disturbed or not.     *)
LEMMA OthersUndisturbed ==
    ASSUME NEW s \in Scans, TypeOK,
           \/ JobStep(s) \/ ClientStep(s) \/ AnySetMeta(s)
           \/ ExecutePersists(s) \/ MetaRecord(s)
           \/ \E k \in Savers : SaveStep(s, k)
    PROVE  disturbed \subseteq disturbed' /\ disturbed' \subseteq disturbed \cup {s}
<1>1. JobStep(s) \/ ClientStep(s) \/ MetaRecord(s) => disturbed' = disturbed
  BY DEF JobStep, Begin, PipelineSucceeds, PipelineFails, SetDocsDir, SetDone, SetFailed,
         Finally, SetJob, ClientStep, UploadReceived, UploadRejected, Cleanup, Submit,
         MetaRecord
<1>2. AnySetMeta(s) \/ ExecutePersists(s)
         => disturbed' \in {disturbed, disturbed \cup {s}}
  BY DEF AnySetMeta, SetMeta, ExecutePersists, Disturb
<1>3. ASSUME NEW k \in Savers, SaveStep(s, k)
      PROVE  disturbed' \in {disturbed, disturbed \cup {s}}
  BY <1>3 DEF SaveStep, OpenTmp, WriteTmp, ReplaceTmp, SaveFails
<1> QED  BY <1>1, <1>2, <1>3

LEMMA QuietNext ==
    ASSUME ConstantsAssumption, IInv, QInv, [Next]_vars
    PROVE  QInv'
<1> USE DEF IInv
<1>1. ASSUME NEW s \in Scans,
             \/ JobStep(s) \/ ClientStep(s) \/ AnySetMeta(s)
             \/ ExecutePersists(s) \/ MetaRecord(s)
             \/ \E k \in Savers : SaveStep(s, k)
      PROVE  QInv'
  <2>1. \A t \in Scans \ {s} : Same(t)
    <3>1. JobStep(s) => \A t \in Scans \ {s} : Same(t)
      BY JobStepInv DEF JobStep
    <3>2. ClientStep(s) => \A t \in Scans \ {s} : Same(t)
      BY ClientStepInv DEF ClientStep
    <3>3. AnySetMeta(s) => \A t \in Scans \ {s} : Same(t)
      BY SetMetaInv DEF AnySetMeta
    <3>4. ASSUME NEW k \in Savers, SaveStep(s, k)
          PROVE  \A t \in Scans \ {s} : Same(t)
      BY <3>4, OpenTmpInv, WriteTmpInv, ReplaceTmpInv, SaveFailsInv DEF SaveStep
    <3> QED  BY <1>1, <3>1, <3>2, <3>3, <3>4, PersistInv, MetaRecordInv
  <2>2. \A t \in Scans \ {s} : t \notin disturbed' => QuietInv(t)'
    BY <1>1, <2>1, OthersUndisturbed, QuietFrame DEF QInv
  <2>3. s \notin disturbed' => QuietInv(s)'
    <3>1. SUFFICES ASSUME s \notin disturbed'
                   PROVE  QuietInv(s)'
      OBVIOUS
    <3>2. QuietInv(s) /\ ScanInv(s)
      BY <1>1, <3>1, OthersUndisturbed DEF QInv
    <3> QED
      BY <1>1, <3>1, <3>2, QuietJobStep, QuietClientStep, QuietSetMeta, QuietPersist,
         QuietMetaRecord, QuietSaveStep
  <2> QED  BY <2>2, <2>3 DEF QInv
<1>2. CASE Crash
  BY <1>2, QuietCrash DEF QInv
<1>3. CASE UNCHANGED vars
  <2>1. \A s \in Scans : Same(s) /\ disturbed' = disturbed
    BY <1>3 DEF vars, Same
  <2> QED  BY <2>1, QuietFrame DEF QInv
<1> QED  BY <1>1, <1>2, <1>3, Steps

LEMMA QuietInit == ConstantsAssumption /\ Init => QInv /\ LockInv
  BY DEF Init, QInv, LockInv, QuietInv, Idle, NoJob, Savers, Other

(* A set_meta call that is saving holds the service lock, so no two of     *)
(* them ever save at the same time, whatever scans they rename.            *)
THEOREM LockHeld == Spec => []LockInv
<1>1. LockInv /\ TypeOK /\ [Next]_vars => LockInv'
  BY ConstantsAssumption, LockNext
<1> QED  BY <1>1, ConstantsAssumption, QuietInit, TypeCorrect, PTL DEF Spec

(* A scan no save of which failed or met another save of the same scan is  *)
(* on disk as it is in memory whenever no thread is changing it: the save  *)
(* in progress has the temporary file for itself, and every change made    *)
(* after a save is followed by another.                                    *)
THEOREM Durable == Spec => []UndisturbedIsDurable
<1>1. QInv => UndisturbedIsDurable
  <2>1. SUFFICES ASSUME QInv, NEW s \in Scans, AtRest(s), job[s].result,
                        s \notin disturbed
                 PROVE  Readable(s) /\ Current(s, OnDisk(s)) /\
                        pc[s] \in {"idle", "finally", "cleanup", "finished"}
    BY DEF UndisturbedIsDurable, Current
  <2> QED  BY <2>1 DEF QInv, QuietInv, AtRest
<1>2. QInv /\ IInv /\ [Next]_vars => QInv'
  BY ConstantsAssumption, QuietNext
<1> QED  BY <1>1, <1>2, ConstantsAssumption, QuietInit, Invariance, PTL DEF Spec

(* The uploaded archive is in the temporary directory from the moment it   *)
(* is received until the run that reads it has its outcome; only a rejected *)
(* upload and the clean-up remove it.                                      *)
THEOREM ArchiveOutlives == Spec => []UploadOutlivesPipeline
<1>1. Init => ArchiveInv
  BY ConstantsAssumption DEF Init, ArchiveInv, ConstantsAssumption
<1>2. ASSUME TypeOK, ArchiveInv, [Next]_vars
      PROVE  ArchiveInv'
  <2>1. ASSUME NEW s \in Scans,
               \/ JobStep(s) \/ ExecutePersists(s) \/ MetaRecord(s) \/ AnySetMeta(s)
               \/ \E k \in Savers : SaveStep(s, k)
        PROVE  ArchiveInv'
    <3>1. /\ upload' = upload
          /\ pc' = pc \/ \E to \in Pc : pc[s] \notin {"idle", "finished"}
                                      /\ pc' = [pc EXCEPT ![s] = to]
      BY <2>1 DEF JobStep, Begin, PipelineSucceeds, PipelineFails, SetDocsDir, SetDone,
                  SetFailed, Finally, SetJob, Goto, ExecutePersists, MetaRecord, AnySetMeta,
                  SetMeta, SaveStep, OpenTmp, WriteTmp, ReplaceTmp, SaveFails, SaveEnds, Pc
    <3> QED  BY <1>2, <3>1, ConstantsAssumption DEF ArchiveInv, TypeOK, ConstantsAssumption
  <2>2. ASSUME NEW s \in Scans, ClientStep(s)
        PROVE  ArchiveInv'
    <3>1. UploadReceived(s) => ArchiveInv'
      BY <1>2, ConstantsAssumption
      DEF UploadReceived, Goto, ArchiveInv, TypeOK, ConstantsAssumption
    <3>2. UploadRejected(s) \/ Cleanup(s) => ArchiveInv'
      BY <1>2, ConstantsAssumption
      DEF UploadRejected, Cleanup, Goto, ArchiveInv, TypeOK, ConstantsAssumption
    <3>3. ASSUME NEW m \in Metas, Submit(s, m)
          PROVE  ArchiveInv'
      BY <1>2, <3>3, ConstantsAssumption
      DEF Submit, Goto, ArchiveInv, TypeOK, ConstantsAssumption
    <3> QED  BY <2>2, <3>1, <3>2, <3>3 DEF ClientStep
  <2>3. CASE Crash
    BY <2>3, ConstantsAssumption DEF Crash, ArchiveInv, ConstantsAssumption
  <2>4. CASE UNCHANGED vars
    BY <1>2, <2>4 DEF vars, ArchiveInv
  <2> QED  BY <1>2, <2>1, <2>2, <2>3, <2>4, Steps
<1>3. ArchiveInv => UploadOutlivesPipeline
  BY DEF ArchiveInv, UploadOutlivesPipeline
<1> QED  BY <1>1, <1>2, <1>3, TypeCorrect, PTL DEF Spec
=============================================================================
