---------------------------- MODULE SpecMatching ----------------------------
(***************************************************************************)
(* What a functional spec is matched with: the calls and routes of several *)
(* scans (domain/services/api_match.py), the keywords of their entrypoints *)
(* and modules (reconcile.py), and the endpoints found in code             *)
(* (sequence_diagram.py), put together in one document (spec_document.py). *)
(*                                                                         *)
(* A surface is what a scan found: its routes, calls, entrypoints, and the *)
(* modules with the names declared in each.  A feature has a name, texts,  *)
(* endpoints (paths) and whether it is conceptual.                         *)
(***************************************************************************)
EXTENDS Integers, Sequences, FiniteSetsExt

CONSTANTS
    Canonical,  \* a segment of a path as it is compared: in lower case, and
                \* the same for all parameters
    TokensOf,   \* the keywords of a text, without those that match anything
    None

(* canon_path *)
Canon(path) == [i \in 1..Len(path) |-> Canonical[path[i]]]

-----------------------------------------------------------------------------
(* match_api_flows: _lookup in an index by method and path.                 *)
Serving(surfaces, call) ==
    UNION {{[scan |-> s.scan, route |-> r] : r \in {q \in s.routes :
               q.method \in {call.method, "ANY"} /\ Canon(q.path) = Canon(call.path)}}
           : s \in surfaces}

FlowOf(s, call, t) ==
    [method |-> t.route.method, path |-> t.route.path, from_scan |-> s.scan,
     from_module |-> call.module, to_scan |-> t.scan, to_module |-> t.route.module]
UnmatchedOf(s, call) ==
    [method |-> call.method, path |-> call.path, from_scan |-> s.scan,
     from_module |-> call.module]

ApiFlow(surfaces) ==
    LET calls == UNION {{s} \X s.calls : s \in surfaces}
    IN  [edges |-> UNION {{FlowOf(c[1], c[2], t) : t \in Serving(surfaces, c[2])} : c \in calls},
         unmatched |-> {UnmatchedOf(c[1], c[2]) : c \in {d \in calls :
                                                      Serving(surfaces, d[2]) = {}}}]

-----------------------------------------------------------------------------
(* reconcile_spec, of several scans as of one: modules of the same id are   *)
(* taken for one.                                                           *)
Keywords(texts) == UNION {TokensOf[x] : x \in texts}

EntrypointId(e) == <<e.name, e.module>>

Artifacts(surfaces) ==
    LET modules == UNION {s.modules : s \in surfaces}
        Declared(id) == UNION {m.symbols : m \in {n \in modules : n.id = id}}
    IN  {[kind |-> "entrypoint", id |-> EntrypointId(e), tokens |-> Keywords({e.name, e.module})]
             : e \in UNION {s.entrypoints : s \in surfaces}}
        \cup {[kind |-> "module", id |-> <<m.id>>, tokens |-> Keywords({m.id} \cup Declared(m.id))]
             : m \in modules}

Scored(feature, artifacts) ==
    {[kind |-> a.kind, id |-> a.id, score |-> Cardinality(Keywords(feature.texts) \cap a.tokens)]
        : a \in {b \in artifacts : Keywords(feature.texts) \cap b.tokens # {}}}

MatchStatus(scored) ==
    IF scored = {} THEN "missing"
    ELSE IF Max({m.score : m \in scored}) >= 2 THEN "implemented" ELSE "partial"

Reconciled(features, surfaces) ==
    LET artifacts == Artifacts(surfaces)
        all == UNION {Scored(features[i], artifacts) : i \in DOMAIN features}
    IN  [coverage |-> [i \in DOMAIN features |-> MatchStatus(Scored(features[i], artifacts))],
         undocumented |-> {EntrypointId(e) : e \in UNION {s.entrypoints : s \in surfaces}}
                              \ {m.id : m \in {n \in all : n.kind = "entrypoint"}}]

-----------------------------------------------------------------------------
(* An endpoint is found in code when a scan has a route of its path, of     *)
(* whatever method.  Nothing is marked in a conceptual feature, nor when    *)
(* there is no route at all.                                                *)
Confirmed(surfaces) == {Canon(r.path) : r \in UNION {s.routes : s \in surfaces}}

Marks(feature, confirmed) ==
    IF feature.conceptual THEN {}
    ELSE {<<e, IF confirmed = {} THEN "unmarked"
               ELSE IF Canon(e) \in confirmed THEN "found" ELSE "not found">>
          : e \in feature.endpoints}

LastNamed(features, name) == Max({j \in DOMAIN features : features[j].name = name})

(* build_spec_document: sections are put together by the name of a feature, *)
(* and the last of those that have the same name counts for all of them.    *)
Document(features, surfaces, narratives) ==
    LET coverage == Reconciled(features, surfaces).coverage
        Same(i) == LastNamed(features, features[i].name)
        Narrative(name) == IF name \in DOMAIN narratives THEN narratives[name] ELSE None
    IN  [sections |-> [i \in DOMAIN features |->
            [name |-> features[i].name, status |-> coverage[Same(i)],
             marks |-> Marks(features[Same(i)], Confirmed(surfaces)),
             narrative |-> Narrative(features[i].name)]],
         totals |-> [s \in {"implemented", "partial", "missing"} |->
                        Cardinality({i \in DOMAIN features : coverage[i] = s})],
         flow |-> ApiFlow(surfaces)]
=============================================================================
