------------------------ MODULE NarratedScansProofs ------------------------
(***************************************************************************)
(* Proofs about NarratedScans, for any runs, codebases, languages and      *)
(* provider answers, and any number of killed runs and file errors.  The   *)
(* inductive invariant has a part for the runs, RunInv, and one for the    *)
(* cache files, FileInv: what is cached was written by a run that is past  *)
(* its provider call, so that neither its key nor its narrative can change *)
(* any more.                                                               *)
(***************************************************************************)
EXTENDS NarratedScans, TLAPS

RunInv(r) ==
    /\ pc[r] = "idle" => narrative[r] = NoNarrative
    /\ pc[r] \in {"idle", "lookup"} => r \notin misread
    /\ pc[r] \in {"lookup", "call", "open", "write"} => Key(r) \in Keys
    /\ pc[r] \in {"open", "write"} => narrative[r] \in Report /\ narrative[r].by = r
    /\ narrative[r].kind = "report" => narrative[r].refs \subseteq Allowed[graph[r]]

FileInv(k) ==
    file[k].text = "whole" =>
        /\ file[k].report \in Report
        /\ pc[file[k].report.by] \in {"document"} \cup Ended
        /\ Key(file[k].report.by) = k
        /\ narrative[file[k].report.by] = file[k].report

IInv == TypeOK /\ (\A r \in Runs : RunInv(r)) /\ (\A k \in Keys : FileInv(k))

(* A step of run r that is past its import.                                *)
StepOf(r) == Step(r) \/ Kill(r)
Begins(r) ==
    \/ \E c \in Codes, l \in Languages : Analyse(r, c, l) \/ AnalyseOnly(r, c, l)
    \/ ImportFails(r)

-----------------------------------------------------------------------------
LEMMA Consts ==
    /\ NoNarrative.kind # "report" /\ EmptyReport.kind # "report"
    /\ Absent \in File /\ Blank \in File /\ Broken \in File
    /\ Absent.text # "whole" /\ Blank.text # "whole" /\ Broken.text # "whole"
    /\ \A q \in Report : /\ Whole(q) \in File /\ Whole(q).text = "whole"
                        /\ Whole(q).report = q /\ q.kind = "report"
  BY DEF NoNarrative, EmptyReport, Absent, Blank, Broken, Whole, File, Report

(* A file that holds a whole report holds one of the runs.                 *)
LEMMA WholeFile ==
    ASSUME NEW f \in File, f.text = "whole"
    PROVE  f.report \in Report /\ f = Whole(f.report)
  BY DEF File, Whole

(* What references of an answer stay is a report of the run.               *)
LEMMA ParsedTyped ==
    ASSUME NEW r \in Runs, NEW raw \in Answers, graph[r] \in Graphs
    PROVE  Parsed(r, raw) \in Report /\ Parsed(r, raw).by = r
           /\ Parsed(r, raw).refs \subseteq Allowed[graph[r]]
<1>1. raw \cap Allowed[graph[r]] \subseteq Refs
  BY DEF Refs
<1> QED  BY <1>1 DEF Parsed, Report

LEMMA TypeInit == RunsAssumption /\ Init => TypeOK
  BY Consts DEF RunsAssumption, Init, TypeOK, Pc

LEMMA TypeNext ==
    ASSUME TypeOK, \A r \in Runs : RunInv(r), [Next]_vars
    PROVE  TypeOK'
<1> USE Consts DEF Goto
<1>1. ASSUME NEW r \in Runs, Begins(r)
      PROVE  TypeOK'
  <2>1. CASE ImportFails(r)
    BY <2>1 DEF ImportFails, TypeOK, inputs, Pc, Ended
  <2>2. ASSUME NEW c \in Codes, NEW l \in Languages, NEW to \in {"lookup", "document"},
               Imports(r, c, l, to)
        PROVE  TypeOK'
    <3>1. PICK g \in GraphsOf[c] : graph' = [graph EXCEPT ![r] = g]
      BY <2>2 DEF Imports
    <3>2. g \in Graphs
      BY DEF GraphsOf
    <3> QED  BY <2>2, <3>1, <3>2 DEF Imports, TypeOK, Pc
  <2> QED  BY <1>1, <2>1, <2>2 DEF Begins, Analyse, AnalyseOnly
<1>2. ASSUME NEW r \in Runs, Lookup(r)
      PROVE  TypeOK'
  <2>1. Key(r) \in Keys
    BY <1>2 DEF Lookup, RunInv
  <2>2. file[Key(r)].text = "whole" => file[Key(r)].report \in Report
    BY <2>1, WholeFile DEF TypeOK
  <2> QED  BY <1>2, <2>2 DEF Lookup, TypeOK, inputs, Pc
<1>3. ASSUME NEW r \in Runs, Misread(r)
      PROVE  TypeOK'
  BY <1>3, RunsAssumption DEF Misread, TypeOK, inputs, Pc, RunsAssumption
<1>4. ASSUME NEW r \in Runs, NEW raw \in Answers, Completes(r, raw)
      PROVE  TypeOK'
  <2>1. graph[r] \in Graphs
    BY <1>4 DEF Completes, RunInv, Key, Keys
  <2> QED  BY <1>4, <2>1, ParsedTyped DEF Completes, TypeOK, inputs, Pc
<1>5. ASSUME NEW r \in Runs, Fails(r) \/ Document(r)
      PROVE  TypeOK'
  BY <1>5 DEF Fails, Document, TypeOK, inputs, Pc, Ended
<1>6. ASSUME NEW r \in Runs, OpenCache(r)
      PROVE  TypeOK'
  BY <1>6 DEF OpenCache, TypeOK, inputs, Pc
<1>7. ASSUME NEW r \in Runs, WriteCache(r)
      PROVE  TypeOK'
  <2>1. narrative[r] \in Report
    BY <1>7 DEF WriteCache, RunInv
  <2>2. PICK f \in File : file' = [file EXCEPT ![Key(r)] = f]
    BY <1>7, <2>1 DEF WriteCache
  <2> QED  BY <1>7, <2>2 DEF WriteCache, TypeOK, inputs, Pc
<1>8. ASSUME NEW r \in Runs, PutFails(r) \/ Kill(r)
      PROVE  TypeOK'
  BY <1>8, RunsAssumption
  DEF PutFails, Kill, CutShort, TypeOK, inputs, Pc, Ended, RunsAssumption
<1>9. CASE UNCHANGED vars
  BY <1>9 DEF vars, inputs, TypeOK
<1> QED
  BY <1>1, <1>2, <1>3, <1>4, <1>5, <1>6, <1>7, <1>8, <1>9 DEF Next, Begins, Step
-----------------------------------------------------------------------------
(* What a step of one run leaves of the others.                            *)
Same(q) ==
    /\ pc'[q] = pc[q] /\ graph'[q] = graph[q] /\ language'[q] = language[q]
    /\ narrative'[q] = narrative[q] /\ (q \in misread' <=> q \in misread)

LEMMA OthersSame ==
    ASSUME TypeOK, NEW r \in Runs, NEW q \in Runs \ {r}, Begins(r) \/ StepOf(r)
    PROVE  Same(q)
<1> USE DEF Same, Goto, inputs, TypeOK
<1>1. Begins(r) => Same(q)
  BY DEF Begins, Analyse, AnalyseOnly, Imports, ImportFails
<1>2. Lookup(r) \/ Misread(r) \/ Fails(r) \/ Document(r) => Same(q)
  BY DEF Lookup, Misread, Fails, Document
<1>3. ASSUME NEW raw \in Answers, Completes(r, raw)
      PROVE  Same(q)
  BY <1>3 DEF Completes
<1>4. OpenCache(r) \/ WriteCache(r) \/ PutFails(r) \/ Kill(r) => Same(q)
  BY DEF OpenCache, WriteCache, PutFails, Kill
<1> QED  BY <1>1, <1>2, <1>3, <1>4 DEF StepOf, Step

LEMMA RunFrame ==
    ASSUME NEW q \in Runs, RunInv(q), Same(q)
    PROVE  RunInv(q)'
  BY DEF RunInv, Same, Key

(* A run past its provider call keeps its key and its narrative for good.  *)
LEMMA PastTheCall ==
    ASSUME TypeOK, NEW r \in Runs, Begins(r) \/ StepOf(r),
           NEW q \in Runs, pc[q] \in {"document"} \cup Ended
    PROVE  /\ pc'[q] \in {"document"} \cup Ended
           /\ Key(q)' = Key(q) /\ narrative'[q] = narrative[q]
<1>1. CASE q # r
  BY <1>1, OthersSame DEF Same, Key
<1>2. CASE q = r
  <2>1. pc[r] \notin {"idle", "lookup", "call", "open", "write"}
    BY <1>2 DEF Ended
  <2>2. Document(r) \/ Kill(r)
    BY <2>1 DEF Begins, StepOf, Step, Goto, Analyse, AnalyseOnly, Imports, ImportFails,
                Lookup, Misread, Completes, Fails, OpenCache, WriteCache, PutFails
  <2>3. pc'[r] \in Ended
    BY <2>2 DEF Document, Kill, Goto, TypeOK, Ended
  <2> QED  BY <1>2, <2>2, <2>3 DEF Document, Kill, inputs, Key
<1> QED  BY <1>1, <1>2

LEMMA FileFrame ==
    ASSUME TypeOK, NEW r \in Runs, Begins(r) \/ StepOf(r),
           NEW k \in Keys, FileInv(k), file'[k] = file[k]
    PROVE  FileInv(k)'
<1> SUFFICES ASSUME file[k].text = "whole"
             PROVE  FileInv(k)'
  BY DEF FileInv
<1>1. PICK q \in Runs : q = file[k].report.by
  BY DEF FileInv, Report
<1>2. /\ pc'[q] \in {"document"} \cup Ended
      /\ Key(q)' = Key(q) /\ narrative'[q] = narrative[q]
  BY <1>1, PastTheCall DEF FileInv
<1> QED  BY <1>1, <1>2 DEF FileInv, Key

(* Only OpenCache, WriteCache and a run cut short touch a file: that of    *)
(* their key.                                                              *)
LEMMA FileTouched ==
    ASSUME TypeOK, NEW r \in Runs, RunInv(r), Begins(r) \/ StepOf(r),
           NEW k \in Keys, file'[k] # file[k]
    PROVE  /\ pc[r] \in {"open", "write"} /\ Key(r) = k
           /\ \/ file'[k] \in {Blank, Broken}
              \/ WriteCache(r) /\ file'[k] = Whole(narrative[r])
<1>1. OpenCache(r) \/ WriteCache(r) \/ PutFails(r) \/ Kill(r)
  BY DEF Begins, StepOf, Step, Analyse, AnalyseOnly, Imports, ImportFails, Lookup,
         Misread, Completes, Fails, Document
<1>2. CASE OpenCache(r)
  BY <1>2 DEF OpenCache, Goto, TypeOK
<1>3. CASE WriteCache(r)
  BY <1>3 DEF WriteCache, Goto, TypeOK
<1>4. CASE PutFails(r) \/ Kill(r)
  BY <1>4 DEF PutFails, Kill, CutShort, TypeOK
<1> QED  BY <1>1, <1>2, <1>3, <1>4

-----------------------------------------------------------------------------
LEMMA RunStep ==
    ASSUME IInv, NEW r \in Runs, Begins(r) \/ StepOf(r)
    PROVE  RunInv(r)'
<1> USE Consts DEF Goto, IInv
<1>1. RunInv(r) /\ TypeOK
  OBVIOUS
<1>2. CASE Begins(r)
  <2>1. CASE ImportFails(r)
    BY <1>1, <2>1 DEF ImportFails, RunInv, TypeOK, inputs
  <2>2. ASSUME NEW c \in Codes, NEW l \in Languages, NEW to \in {"lookup", "document"},
               Imports(r, c, l, to)
        PROVE  RunInv(r)'
    <3>1. PICK g \in GraphsOf[c] : graph' = [graph EXCEPT ![r] = g]
      BY <2>2 DEF Imports
    <3>2. g \in Graphs
      BY DEF GraphsOf
    <3>3. Key(r)' \in Keys
      BY <1>1, <2>2, <3>1, <3>2 DEF Imports, Key, Keys, TypeOK
    <3> QED  BY <1>1, <2>2, <3>3 DEF Imports, RunInv, TypeOK
  <2> QED  BY <1>2, <2>1, <2>2 DEF Begins, Analyse, AnalyseOnly
<1>3. CASE Lookup(r)
  <2>1. Key(r) \in Keys /\ FileInv(Key(r)) /\ UNCHANGED <<graph, language, misread>>
    BY <1>1, <1>3 DEF Lookup, RunInv, inputs
  <2>2. CASE file[Key(r)].text = "whole"
    <3>1. PICK q \in Runs : q = file[Key(r)].report.by
      BY <2>1, <2>2 DEF FileInv, Report
    <3>2. Key(q) = Key(r) /\ narrative[q] = file[Key(r)].report
      BY <2>1, <2>2, <3>1 DEF FileInv
    <3>3. narrative'[r] = narrative[q] /\ pc'[r] = "document" /\ graph[q] = graph[r]
      BY <1>1, <1>3, <2>2, <3>2 DEF Lookup, TypeOK, Key
    <3>4. RunInv(q)
      OBVIOUS
    <3> QED  BY <2>1, <3>3, <3>4 DEF RunInv
  <2>3. CASE file[Key(r)].text # "whole"
    <3>1. pc'[r] = "call" /\ narrative' = narrative
      BY <1>1, <1>3, <2>3 DEF Lookup, TypeOK
    <3> QED  BY <1>1, <2>1, <3>1 DEF RunInv, Key
  <2> QED  BY <2>2, <2>3
<1>4. CASE Misread(r)
  BY <1>1, <1>4 DEF Misread, RunInv, TypeOK, inputs, Key
<1>5. ASSUME NEW raw \in Answers, Completes(r, raw)
      PROVE  RunInv(r)'
  <2>1. graph[r] \in Graphs /\ Key(r) \in Keys
    BY <1>1, <1>5 DEF Completes, RunInv, Key, Keys
  <2>2. /\ pc'[r] = "open" /\ narrative'[r] = Parsed(r, raw)
        /\ UNCHANGED <<graph, language, misread>>
    BY <1>1, <1>5 DEF Completes, TypeOK, inputs
  <2> QED  BY <2>1, <2>2, ParsedTyped DEF RunInv, Key
<1>6. CASE Fails(r)
  BY <1>1, <1>6 DEF Fails, RunInv, TypeOK, inputs
<1>7. CASE OpenCache(r) \/ WriteCache(r)
  BY <1>1, <1>7 DEF OpenCache, WriteCache, RunInv, TypeOK, inputs, Key
<1>8. CASE PutFails(r) \/ Kill(r) \/ Document(r)
  BY <1>1, <1>8 DEF PutFails, Kill, Document, RunInv, TypeOK, inputs, Ended
<1> QED
  BY <1>2, <1>3, <1>4, <1>5, <1>6, <1>7, <1>8 DEF StepOf, Step

LEMMA FileStep ==
    ASSUME IInv, NEW r \in Runs, Begins(r) \/ StepOf(r), NEW k \in Keys
    PROVE  FileInv(k)'
<1>1. CASE file'[k] = file[k]
  BY <1>1, FileFrame DEF IInv
<1>2. CASE file'[k] # file[k]
  <2>1. CASE file'[k] \in {Blank, Broken}
    BY <2>1, Consts DEF FileInv
  <2>2. CASE WriteCache(r) /\ file'[k] = Whole(narrative[r])
    <3>1. narrative[r] \in Report /\ narrative[r].by = r /\ Key(r) = k
      BY <1>2, <2>2, FileTouched DEF IInv, RunInv
    <3>2. pc'[r] = "document" /\ UNCHANGED <<graph, language, narrative>>
      BY <2>2 DEF WriteCache, Goto, inputs, IInv, TypeOK
    <3> QED  BY <2>2, <3>1, <3>2, Consts DEF FileInv, Key
  <2> QED  BY <1>2, <2>1, <2>2, FileTouched DEF IInv
<1> QED  BY <1>1, <1>2

LEMMA InvInit == RunsAssumption /\ Init => IInv
  BY TypeInit, Consts DEF Init, IInv, RunInv, FileInv

LEMMA InvNext ==
    ASSUME IInv, [Next]_vars
    PROVE  IInv'
<1>1. TypeOK'
  BY TypeNext DEF IInv
<1>2. ASSUME NEW r \in Runs, Begins(r) \/ StepOf(r)
      PROVE  IInv'
  <2>1. \A q \in Runs : RunInv(q)'
    BY <1>2, OthersSame, RunFrame, RunStep DEF IInv
  <2>2. \A k \in Keys : FileInv(k)'
    BY <1>2, FileStep
  <2> QED  BY <1>1, <2>1, <2>2 DEF IInv, Keys, Graphs
<1>3. CASE UNCHANGED vars
  BY <1>1, <1>3 DEF vars, inputs, IInv, RunInv, FileInv, Key, Keys, Graphs
<1> QED  BY <1>2, <1>3 DEF Next, Begins, StepOf

THEOREM Invariance == Spec => []IInv
  BY RunsAssumption, InvInit, InvNext, PTL DEF Spec

(* Every run and every cache file has its type; a run that has imported a  *)
(* codebase has facts of that codebase.                                    *)
THEOREM TypeCorrect == Spec => []TypeOK
<1>1. IInv => TypeOK
  BY DEF IInv
<1> QED  BY <1>1, Invariance, PTL

(* No failed call, half-written file or narrative of other facts is served *)
(* from the cache, however many runs write the same file in place.         *)
THEOREM GenuineCache == Spec => []CacheIsGenuine
<1>1. IInv => CacheIsGenuine
  BY DEF IInv, FileInv, CacheIsGenuine
<1> QED  BY <1>1, Invariance, PTL

(* A narrative refers to nothing outside the facts of its run: references  *)
(* are filtered when they are parsed, and those of a cached narrative were *)
(* filtered by a run that had the same facts.                              *)
THEOREM Grounded == Spec => []NarrativeIsGrounded
<1>1. IInv => NarrativeIsGrounded
  BY DEF IInv, RunInv, NarrativeIsGrounded
<1> QED  BY <1>1, Invariance, PTL

(* A settled cache file stays: it is overwritten by runs only that missed  *)
(* it, and a run misses a whole file only when it cannot read it.          *)
THEOREM CacheKept == Spec => CachedIsKept
<1>1. ASSUME IInv, NEW r \in Runs, Begins(r) \/ StepOf(r), NEW k \in Keys, Settled(k),
             misread' = misread
      PROVE  Settled(k)'
  <2>1. file'[k] = file[k]
    BY <1>1, FileTouched DEF IInv, Settled
  <2>2. \A q \in Runs \ {r} : pc'[q] \in {"call", "open", "write"} => Key(q)' # k
    BY <1>1, OthersSame DEF IInv, Settled, Same, Key
  <2>3. pc'[r] \in {"call", "open", "write"} => Key(r)' # k
    <3>1. CASE Begins(r) \/ Fails(r) \/ WriteCache(r) \/ PutFails(r) \/ Document(r) \/ Kill(r)
      <4>1. pc \in [Runs -> Pc]
        BY <1>1 DEF IInv, TypeOK
      <4>2. Begins(r) => pc'[r] \in {"lookup", "document", "failed"}
        BY <4>1 DEF Begins, Analyse, AnalyseOnly, Imports, ImportFails, Goto
      <4>3. Fails(r) \/ WriteCache(r) => pc'[r] = "document"
        BY <4>1 DEF Fails, WriteCache, Goto
      <4>4. PutFails(r) \/ Document(r) \/ Kill(r) => pc'[r] \in Ended
        BY <4>1 DEF PutFails, Document, Kill, Goto, Ended
      <4> QED  BY <3>1, <4>2, <4>3, <4>4 DEF Ended
    <3>2. CASE Lookup(r)
      <4>1. Key(r) = k => pc'[r] = "document"
        BY <1>1, <3>2 DEF Lookup, Settled, Goto, IInv, TypeOK
      <4>2. Key(r)' = Key(r)
        BY <3>2 DEF Lookup, inputs, Key
      <4> QED  BY <4>1, <4>2
    <3>3. CASE Misread(r)
      BY <1>1, <3>3 DEF Misread, Goto, IInv, RunInv
    <3>4. CASE OpenCache(r) \/ \E raw \in Answers : Completes(r, raw)
      <4>1. pc[r] \in {"call", "open"} /\ Key(r)' = Key(r)
        BY <3>4 DEF OpenCache, Completes, Goto, inputs, Key
      <4> QED  BY <1>1, <4>1 DEF Settled
    <3> QED  BY <1>1, <3>1, <3>2, <3>3, <3>4 DEF StepOf, Step
  <2> QED  BY <1>1, <2>1, <2>2, <2>3 DEF Settled
<1>2. ASSUME IInv, [Next]_vars
      PROVE  [\A k \in Keys : Settled(k) => Settled(k)' \/ misread' # misread]_vars
  BY <1>1, <1>2 DEF Next, Begins, StepOf
<1> QED  BY <1>2, Invariance, PTL DEF CachedIsKept, Spec
=============================================================================
