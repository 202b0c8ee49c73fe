--------------------------- MODULE NarratedScans ---------------------------
(***************************************************************************)
(* Pipeline runs that share the narrative cache: ScanPipeline.run and      *)
(* _maybe_narrate, GenerateNarrativeUseCase.execute and                    *)
(* FileNarrativeCache.  The runs are threads of the server and command     *)
(* line processes over the same data directory; nothing locks the cache    *)
(* files, which are written in place.  What a run analyses is a codebase   *)
(* of Codes, seen through the module graph that ModuleGraph builds of it.  *)
(***************************************************************************)
EXTENDS ModuleGraph

CONSTANTS
    Runs,       \* pipeline runs
    Codes,      \* the codebases that are scanned
    Languages,  \* of the documentation
    Answers,    \* what providers answer: sets of references, also invented ones
    None,       \* no codebase, no language
    MaxKills,   \* bound on runs that are killed
    MaxErrors   \* bound on failures of the file system

ASSUME RunsAssumption ==
    /\ None \notin Codes /\ None \notin Languages
    /\ MaxKills \in Nat /\ MaxErrors \in Nat

VARIABLES
    pc,         \* where each run is
    scanned,    \* the codebase it analyses
    graph,      \* the facts it has of it
    language,   \* the language it was asked for
    narrative,  \* what it has to put into the documentation
    file,       \* what each cache file holds
    kills, errors,  \* history, for the bounds
    misread     \* history: runs that could not read a cache file

vars == <<pc, scanned, graph, language, narrative, file, kills, errors, misread>>
inputs == <<scanned, graph, language>>

(* The orders in which a process may iterate over the modules.              *)
Orders(code) ==
    {o \in [Modules(code) -> 1..Cardinality(Modules(code))] :
        \A m, n \in Modules(code) : o[m] = o[n] => m = n}

(* _build_prompt: the facts a narrative is about.                           *)
Entries(code) == UNION {f.entries : f \in code}
Facts(code, o) == [modules |-> Modules(code), edges |-> Edges(code, o),
                   entries |-> Entries(code)]

(* The facts that runs can have, numbered; those that a run can have of a   *)
(* codebase, one of them for each order; what a narrative may refer to.     *)
AllFacts == SetToSeq(UNION {{Facts(c, o) : o \in Orders(c)} : c \in Codes})
Graphs == 1..Len(AllFacts)
GraphsOf == [c \in Codes |->
    {g \in Graphs : \E o \in Orders(c) : AllFacts[g] = Facts(c, o)}]
Allowed == [g \in Graphs |-> AllFacts[g].modules \cup AllFacts[g].entries]
Refs == (UNION {Allowed[g] : g \in Graphs}) \cup (UNION Answers)

(* _cache_key: the prompt and the fingerprint of the provider, which is one *)
(* here, hashed.                                                            *)
Keys == Graphs \X Languages
Key(r) == <<graph[r], language[r]>>

(* by: the run whose completion it was parsed from.                         *)
Report == [kind: {"report"}, by: Runs, refs: SUBSET Refs]
NoNarrative == [kind |-> "none"]       \* static documentation
EmptyReport == [kind |-> "empty"]      \* NarrativeReport()

File == [text: {"absent", "blank", "broken"}] \cup [text: {"whole"}, report: Report]
Absent == [text |-> "absent"]
Blank == [text |-> "blank"]            \* opened, and nothing written yet
Broken == [text |-> "broken"]          \* cut short, or one text over another
Whole(q) == [text |-> "whole", report |-> q]

Ended == {"documented", "failed", "killed"}
Pc == {"idle", "lookup", "call", "open", "write", "document"} \cup Ended

TypeOK ==
    /\ pc \in [Runs -> Pc]
    /\ scanned \in [Runs -> Codes \cup {None}]
    /\ graph \in [Runs -> Graphs \cup {0}]
    /\ \A r \in Runs : scanned[r] # None => graph[r] \in GraphsOf[scanned[r]]
    /\ language \in [Runs -> Languages \cup {None}]
    /\ narrative \in [Runs -> Report \cup {NoNarrative, EmptyReport}]
    /\ file \in [Keys -> File]
    /\ kills \in 0..MaxKills /\ errors \in 0..MaxErrors
    /\ misread \subseteq Runs

Init ==
    /\ pc = [r \in Runs |-> "idle"]
    /\ scanned = [r \in Runs |-> None]
    /\ graph = [r \in Runs |-> 0]
    /\ language = [r \in Runs |-> None]
    /\ narrative = [r \in Runs |-> NoNarrative]
    /\ file = [k \in Keys |-> Absent]
    /\ kills = 0 /\ errors = 0
    /\ misread = {}

Goto(r, from, to) == pc[r] = from /\ pc' = [pc EXCEPT ![r] = to]

-----------------------------------------------------------------------------
(* From the import to the analysis: no state is shared.                     *)
Imports(r, c, l, to) ==
    /\ Goto(r, "idle", to)
    /\ scanned' = [scanned EXCEPT ![r] = c]
    /\ \E g \in GraphsOf[c] : graph' = [graph EXCEPT ![r] = g]
    /\ language' = [language EXCEPT ![r] = l]
    /\ UNCHANGED <<narrative, file, kills, errors, misread>>

Analyse(r, c, l) == Imports(r, c, l, "lookup")

(* A run that is static only, or has no provider, asks for no narrative.    *)
AnalyseOnly(r, c, l) == Imports(r, c, l, "document")

(* No provider resolves the location, or fetching it fails.                 *)
ImportFails(r) ==
    /\ Goto(r, "idle", "failed")
    /\ UNCHANGED <<inputs, narrative, file, kills, errors, misread>>

-----------------------------------------------------------------------------
(* Mutant: a cached narrative without references counts as a miss.          *)
LookupNonEmpty(r) ==
    /\ pc[r] = "lookup"
    /\ IF file[Key(r)].text = "whole" /\ file[Key(r)].report.refs # {}
       THEN /\ Goto(r, "lookup", "document")
            /\ narrative' = [narrative EXCEPT ![r] = file[Key(r)].report]
       ELSE Goto(r, "lookup", "call") /\ UNCHANGED narrative
    /\ UNCHANGED <<inputs, file, kills, errors, misread>>

(* FileNarrativeCache.get: a file that is not whole JSON is a miss, and so  *)
(* is one that cannot be read.                                              *)
Lookup(r) ==
    /\ pc[r] = "lookup"
    /\ IF file[Key(r)].text = "whole"
       THEN /\ Goto(r, "lookup", "document")
            /\ narrative' = [narrative EXCEPT ![r] = file[Key(r)].report]
       ELSE Goto(r, "lookup", "call") /\ UNCHANGED narrative
    /\ UNCHANGED <<inputs, file, kills, errors, misread>>

Misread(r) ==
    /\ Goto(r, "lookup", "call")
    /\ file[Key(r)] # Absent
    /\ errors < MaxErrors
    /\ errors' = errors + 1
    /\ misread' = misread \cup {r}
    /\ UNCHANGED <<inputs, narrative, file, kills>>

(* _parse: of what a feature is related to, only what is in the code stays. *)
Parsed(r, raw) ==
    [kind |-> "report", by |-> r, refs |-> raw \cap Allowed[graph[r]]]

(* Mutant: _parse keeps whatever references the model returns.              *)
CompletesUnfiltered(r, raw) ==
    /\ Goto(r, "call", "open")
    /\ narrative' = [narrative EXCEPT ![r] = [kind |-> "report", by |-> r, refs |-> raw]]
    /\ UNCHANGED <<inputs, file, kills, errors, misread>>

(* The provider's text holds a JSON object.                                 *)
Completes(r, raw) ==
    /\ Goto(r, "call", "open")
    /\ narrative' = [narrative EXCEPT ![r] = Parsed(r, raw)]
    /\ UNCHANGED <<inputs, file, kills, errors, misread>>

(* Mutant: what failed is tried again from the lookup on.                   *)
RetryLookup(r) ==
    /\ Goto(r, "call", "lookup")
    /\ UNCHANGED <<inputs, narrative, file, kills, errors, misread>>

(* Mutant: the empty report of a failed call is cached.                     *)
FailsCached(r) ==
    /\ Goto(r, "call", "open")
    /\ narrative' = [narrative EXCEPT ![r] = EmptyReport]
    /\ UNCHANGED <<inputs, file, kills, errors, misread>>

(* It raises, or its text holds none: the documentation has to do without,  *)
(* and nothing is cached.                                                   *)
Fails(r) ==
    /\ Goto(r, "call", "document")
    /\ narrative' = [narrative EXCEPT ![r] = EmptyReport]
    /\ UNCHANGED <<inputs, file, kills, errors, misread>>

-----------------------------------------------------------------------------
(* FileNarrativeCache.put *)

OpenCache(r) ==
    /\ Goto(r, "open", "write")
    /\ file' = [file EXCEPT ![Key(r)] = Blank]
    /\ UNCHANGED <<inputs, narrative, kills, errors, misread>>

(* Another run has the same file open, or has written to it since.          *)
Shared(r) ==
    \/ file[Key(r)] # Blank
    \/ \E q \in Runs \ {r} : pc[q] = "write" /\ Key(q) = Key(r)

(* Mutant: the key forgets the language that was asked for.                 *)
WriteAnyLanguage(r) ==
    /\ Goto(r, "write", "document")
    /\ file' = [k \in Keys |-> IF k[1] = graph[r] THEN Whole(narrative[r]) ELSE file[k]]
    /\ UNCHANGED <<inputs, narrative, kills, errors, misread>>

WriteCache(r) ==
    /\ Goto(r, "write", "document")
    /\ \E t \in {Whole(narrative[r])} \cup (IF Shared(r) THEN {Broken} ELSE {}) :
          file' = [file EXCEPT ![Key(r)] = t]
    /\ UNCHANGED <<inputs, narrative, kills, errors, misread>>

(* A run that stops while it writes leaves some of its text, or none.       *)
CutShort(r) ==
    \/ UNCHANGED file
    \/ pc[r] = "write" /\ file' = [file EXCEPT ![Key(r)] = Broken]

(* An OSError of mkdir, open or write is not caught: the run fails.         *)
PutFails(r) ==
    /\ pc[r] \in {"open", "write"}
    /\ errors < MaxErrors
    /\ errors' = errors + 1
    /\ pc' = [pc EXCEPT ![r] = "failed"]
    /\ CutShort(r)
    /\ UNCHANGED <<inputs, narrative, kills, misread>>

-----------------------------------------------------------------------------
(* build_documentation, the renderer and the exporter.                      *)
Document(r) ==
    /\ Goto(r, "document", "documented") \/ Goto(r, "document", "failed")
    /\ UNCHANGED <<inputs, narrative, file, kills, errors, misread>>

(* The process of a run is killed.                                          *)
Kill(r) ==
    /\ pc[r] \notin {"idle"} \cup Ended
    /\ kills < MaxKills
    /\ kills' = kills + 1
    /\ pc' = [pc EXCEPT ![r] = "killed"]
    /\ CutShort(r)
    /\ UNCHANGED <<inputs, narrative, errors, misread>>

-----------------------------------------------------------------------------
Step(r) ==
    \/ Lookup(r) \/ Misread(r)
    \/ \E raw \in Answers : Completes(r, raw)
    \/ Fails(r)
    \/ OpenCache(r) \/ WriteCache(r) \/ PutFails(r)
    \/ Document(r)

Next == \E r \in Runs :
    \/ \E c \in Codes, l \in Languages : Analyse(r, c, l) \/ AnalyseOnly(r, c, l)
    \/ ImportFails(r)
    \/ Step(r)
    \/ Kill(r)

Spec == Init /\ [][Next]_vars

(* A run that has begun goes on; every provider call has a timeout, so it   *)
(* answers or raises.                                                       *)
FairSpec == Spec /\ \A r \in Runs : WF_vars(Step(r))
-----------------------------------------------------------------------------
(* Properties *)

(* A cached narrative is one that a provider gave about exactly the facts   *)
(* it is filed under: no failure, no half-written file and no narrative of  *)
(* another codebase, graph or language is ever served from the cache.       *)
CacheIsGenuine ==
    \A k \in Keys : file[k].text = "whole" =>
        /\ Key(file[k].report.by) = k
        /\ narrative[file[k].report.by] = file[k].report

(* AI prose refers to nothing but modules and entrypoints of the codebase   *)
(* the run scanned, whether the narrative is fresh or from the cache.       *)
NarrativeIsGrounded ==
    \A r \in Runs : narrative[r].kind = "report" =>
        narrative[r].refs \subseteq Allowed[graph[r]]

(* The narrative under k is cached, and no run that missed it is under way. *)
Settled(k) ==
    /\ file[k].text = "whole"
    /\ \A r \in Runs : pc[r] \in {"call", "open", "write"} => Key(r) # k

(* The cache files are overwritten in place, by runs that missed.  Once a   *)
(* narrative is cached and no such run is under way, it is there for every  *)
(* later run with the same key, unless one of them cannot read it.          *)
CachedIsKept ==
    [][\A k \in Keys : Settled(k) => Settled(k)' \/ misread' # misread]_vars

(* Every run that has begun ends: no failure of the provider or the cache   *)
(* leaves a scan without an outcome.                                        *)
RunsEnd == \A r \in Runs : pc[r] = "lookup" ~> pc[r] \in Ended

(* README.md: "re-scanning an unchanged codebase reuses the previous result *)
(* instead of calling the model again".  It need not: the graph, and so the *)
(* key, of the same codebase may differ from process to process.            *)
RescanReuses ==
    [][\A r \in Runs :
          (pc[r] = "lookup" /\ pc'[r] = "call" /\ misread' = misread) =>
              ~ \E g \in GraphsOf[scanned[r]] : Settled(<<g, language[r]>>)]_vars
=============================================================================
