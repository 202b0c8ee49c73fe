---------------------------- MODULE SpecDocument ----------------------------
(***************************************************************************)
(* POST /specs/{id}/document (api/routes.py, enrich_flows.py): the         *)
(* document of a functional spec.  The handler reads the spec, then the    *)
(* state of each scan linked to it, one after the other, while the scans   *)
(* run; it matches what it has gathered, and may have a runner narrate     *)
(* each feature, which takes as long as the runner does.                   *)
(*                                                                         *)
(* /api-flow and /sequence gather in the same way and answer with parts of *)
(* the same document.                                                      *)
(***************************************************************************)
EXTENDS CliRunner, SpecMatching

CONSTANTS
    Linked,     \* linked_scan_ids of the spec, in order
    Features,   \* its features, in order
    Found,      \* what each scan finds when it is done: its surface
    Starts,     \* the states of the scans when the document is asked for
    AskedFor    \* the requests: [enrich, available, client], whether a narrative
                \* is asked for, whether the provider has a runner, and what it
                \* tells the runner

ASSUME DocumentAssumption ==
    /\ Linked \in Seq(DOMAIN Found)
    /\ Features \in Seq({Features[i] : i \in DOMAIN Features})
    /\ \A s \in DOMAIN Found : Found[s].scan = s
    /\ Starts \subseteq [DOMAIN Found -> {"running", "saved", "unknown"}]
    /\ \A o \in AskedFor : {o.enrich, o.available} \subseteq BOOLEAN

VARIABLES
    spec,       \* is the spec in the store?
    scans,      \* the state of each scan
    pc,         \* where the handler is
    options,    \* what was asked for
    next,       \* the place in linked_scan_ids, or in the features
    gathered,   \* the scans that have been found done
    narratives, \* by name of a feature
    doneBefore  \* history: the scans that were done when the spec was read

vars == <<spec, scans, pc, options, next, gathered, narratives, doneBefore, runnerVars>>
handler == <<pc, options, next, gathered, narratives, doneBefore>>

(* A scan is done before it is saved, and has failed after all when it      *)
(* cannot be saved.  A link may also name a scan that never was.            *)
ScanStates == {"running", "done", "saved", "failed", "unknown"}
Done == {s \in DOMAIN Found : scans[s] \in {"done", "saved"}}
Surfaces(ids) == {Found[s] : s \in ids}

Init ==
    /\ spec = TRUE
    /\ scans \in Starts
    /\ pc = "read" /\ options \in AskedFor /\ next = 1
    /\ gathered = {} /\ narratives = <<>> /\ doneBefore = {}
    /\ RunnerInit

-----------------------------------------------------------------------------
(* What happens to the spec and to the scans until they are read; what      *)
(* happens to them later, this request does not see.                        *)
Proceed(s) ==
    /\ pc \in {"read", "gather"}
    /\ \/ scans[s] = "running" /\ \E end \in {"done", "failed"} : scans' = [scans EXCEPT ![s] = end]
       \/ scans[s] = "done" /\ \E end \in {"saved", "failed"} : scans' = [scans EXCEPT ![s] = end]
    /\ UNCHANGED <<spec, handler, runnerVars>>

DeleteSpec ==
    /\ pc = "read" /\ spec /\ spec' = FALSE
    /\ UNCHANGED <<scans, handler, runnerVars>>

-----------------------------------------------------------------------------
(* _spec_group_facts *)
ReadSpec ==
    /\ pc = "read"
    /\ pc' = IF spec THEN "gather" ELSE "not found"
    /\ doneBefore' = Done
    /\ UNCHANGED <<spec, scans, options, next, gathered, narratives, runnerVars>>

(* Mutant: the first scan that is not done ends the loop (break for         *)
(* continue).                                                               *)
GatherUntilMissing ==
    /\ pc = "gather" /\ next <= Len(Linked)
    /\ IF Linked[next] \in Done
       THEN gathered' = gathered \cup {Linked[next]} /\ next' = next + 1
       ELSE gathered' = gathered /\ next' = Len(Linked) + 1
    /\ UNCHANGED <<spec, scans, pc, options, narratives, doneBefore, runnerVars>>

Gather ==
    /\ pc = "gather" /\ next <= Len(Linked)
    /\ gathered' = gathered \cup ({Linked[next]} \cap Done)
    /\ next' = next + 1
    /\ UNCHANGED <<spec, scans, pc, options, narratives, doneBefore, runnerVars>>

Gathered ==
    /\ pc = "gather" /\ next > Len(Linked)
    /\ pc' = IF options.enrich /\ options.available THEN "narrate" ELSE "answered"
    /\ next' = 1
    /\ UNCHANGED <<spec, scans, options, gathered, narratives, doneBefore, runnerVars>>

(* _prompt: the feature, and which of its endpoints are found in code.      *)
Prompt(i) ==
    [name |-> Features[i].name,
     found |-> IF Features[i].conceptual THEN {}
               ELSE {e \in Features[i].endpoints : Canon(e) \in Confirmed(Surfaces(gathered))}]

(* enrich_spec_flows: one feature after the other.                          *)
Narrate ==
    /\ pc = "narrate" /\ next <= Len(Features)
    /\ Post(options.client, Prompt(next))
    /\ UNCHANGED <<spec, scans, handler>>

Take ==
    /\ pc = "narrate" /\ client.got # "nothing"
    /\ narratives' = IF client.got = "error" THEN narratives
                     ELSE [n \in DOMAIN narratives \cup {Features[next].name} |->
                              IF n = Features[next].name THEN calls[client.call].topic
                              ELSE narratives[n]]
    /\ next' = next + 1
    /\ client' = Nobody
    /\ UNCHANGED <<spec, scans, pc, options, gathered, doneBefore, calls, breaks>>

(* Mutant: the last feature is not waited for.                              *)
NarratedEarly ==
    /\ pc = "narrate" /\ next >= Len(Features)
    /\ pc' = "answered"
    /\ UNCHANGED <<spec, scans, options, next, gathered, narratives, doneBefore, runnerVars>>

Narrated ==
    /\ pc = "narrate" /\ next > Len(Features)
    /\ pc' = "answered"
    /\ UNCHANGED <<spec, scans, options, next, gathered, narratives, doneBefore, runnerVars>>

-----------------------------------------------------------------------------
Handler == ReadSpec \/ Gather \/ Gathered \/ Narrate \/ Take \/ Narrated

Next ==
    \/ Handler \/ (\E s \in DOMAIN Found : Proceed(s)) \/ DeleteSpec
    \/ (ClientTimesOut \/ RunnerStep \/ Tick \/ Chance) /\ UNCHANGED <<spec, scans, handler>>

Spec == Init /\ [][Next]_vars

(* A handler has a thread of its own, a runner goes on, and time passes.  A *)
(* scan need not end, nor an agent of itself.                               *)
FairSpec ==
    /\ Spec
    /\ WF_vars(Handler)
    /\ WF_vars(ClientTimesOut /\ UNCHANGED <<spec, scans, handler>>)
    /\ WF_vars(RunnerStep /\ UNCHANGED <<spec, scans, handler>>)
    /\ WF_vars(Tick /\ UNCHANGED <<spec, scans, handler>>)

(* What is answered. *)
Answered == Document(Features, Surfaces(gathered), narratives)

-----------------------------------------------------------------------------
Answers == {"nothing", "text", "error"}
Topics == [name : {Features[i].name : i \in DOMAIN Features},
           found : SUBSET UNION {Features[i].endpoints : i \in DOMAIN Features}]
Phases == {"request", "running", "response", "over"}

(* Everything has its type; the client waits for the last call, and is left *)
(* alone outside the narratives.                                            *)
TypeOK ==
    /\ spec \in BOOLEAN /\ scans \in [DOMAIN Found -> ScanStates]
    /\ pc \in {"read", "not found", "gather", "narrate", "answered"}
    /\ options \in AskedFor /\ next \in 1..(Len(Linked) + Len(Features) + 1)
    /\ gathered \subseteq DOMAIN Found /\ doneBefore \subseteq DOMAIN Found
    /\ calls \in Seq([phase : Phases, age : 0..Timeout, answer : Answers, topic : Topics,
                       sender : {o.client : o \in AskedFor}])
    /\ client.waits \in {0, Len(calls)} /\ client.age \in 0..Timeout
    /\ client.got \in Answers /\ client.call \in {0, Len(calls)}
    /\ (client # Nobody => pc = "narrate") /\ breaks \in 0..MaxBreaks

(* The scans are read one after the other while they go on, yet a linked    *)
(* scan that was done when the spec was read, and still is, is seen in      *)
(* everything: its calls go to each such scan with a route for their path,  *)
(* of the very method of the call or of ANY, and are not called unmatched;  *)
(* and for a feature whose name no later one has, what it shares a keyword  *)
(* with is not missing and the endpoints it routes are found.  A scan that  *)
(* has not ended is seen in nothing.  (Nothing is said of a call of ANY and *)
(* a route of one method, nor of a feature of a later one's name.)          *)
Serves(r, c) == r.method \in {c.method, "ANY"} /\ Canon(r.path) = Canon(c.path)
IsLastNamed(i) == \A j \in DOMAIN Features : j > i => Features[j].name # Features[i].name
TextsOf(s) ==
    (UNION {{e.name, e.module} : e \in Found[s].entrypoints})
        \cup (UNION {{m.id} \cup m.symbols : m \in Found[s].modules})

CallsAreSeen(before, flow) ==
    \A t \in before : \A r \in Found[t].routes :
        /\ \A s \in before : \A c \in Found[s].calls :
              Serves(r, c) =>
                  [method |-> r.method, path |-> r.path, from_scan |-> s,
                   from_module |-> c.module, to_scan |-> t, to_module |-> r.module]
                      \in flow.edges
        /\ \A u \in flow.unmatched : ~Serves(r, u)

FeatureIsSeen(before, feature, section) ==
    \A s \in before :
        /\ Keywords(feature.texts) \cap Keywords(TextsOf(s)) # {} => section.status # "missing"
        /\ ~feature.conceptual =>
              \A e \in feature.endpoints, r \in Found[s].routes :
                  Canon(r.path) = Canon(e) => <<e, "found">> \in section.marks

NothingIsOverlooked ==
    pc = "answered" =>
        LET linked == {Linked[i] : i \in DOMAIN Linked}
            before == doneBefore \cap Done \cap linked
            doc == Answered
        IN  /\ CallsAreSeen(before, doc.flow)
            /\ \A i \in DOMAIN Features :
                  IsLastNamed(i) => FeatureIsSeen(before, Features[i], doc.sections[i])
            /\ \A e \in doc.flow.edges : \A s \in {e.from_scan, e.to_scan} :
                  s \in linked /\ scans[s] \in {"done", "saved", "failed"}

(* A narrative was written for a feature of the name of its section, and    *)
(* from no fact that the diagram of the section denies: no late answer is   *)
(* taken for the answer to another prompt.                                  *)
NarrativesAreGrounded ==
    pc = "answered" =>
        \A i \in DOMAIN Features :
            LET section == Answered.sections[i]
            IN  section.narrative # None =>
                    /\ section.narrative.name = section.name
                    /\ \A e \in section.narrative.found : <<e, "not found">> \notin section.marks

(* Whatever answers come late, at most two agents run for a client, and one *)
(* more for each connection that has broken.                                *)
AgentsBounded == Cardinality(Running) <= 2 + breaks

(* The document comes, whatever the runner does.                            *)
DocumentAnswered == <>(pc \in {"answered", "not found"})
=============================================================================
