------------------------------ MODULE DocPages ------------------------------
(***************************************************************************)
(* domain/services/documentation_builder.py: which facts each page of the  *)
(* documentation shows.  Wording and layout are left out, and so is the    *)
(* report on the layers, which ArchitectureRules models.                   *)
(***************************************************************************)
EXTENDS CodeFacts

CONSTANTS
    IdRank,         \* the order of the module ids as strings
    MaxGraphNodes, MaxFlows, MaxFlowDepth, MaxFlowNodes   \* caps of the diagrams

ASSUME CapsAssumption ==
    {MaxGraphNodes, MaxFlows, MaxFlowDepth, MaxFlowNodes} \subseteq Nat \ {0}

ById(modules) == InOrder(modules, LAMBDA m, n : IdRank[m] < IdRank[n])
FirstOf(n, seq) == SubSeq(seq, 1, Min({n, Len(seq)}))
Among(nodes, edges) == {e \in edges : {e[1], e[2]} \subseteq nodes}

-----------------------------------------------------------------------------
(* Mutant: the cap is looked at between two rounds only.                    *)
NewTargetsUncapped(visited, node, edges) ==
    ById({e[2] : e \in {d \in edges : d[1] = node}} \ ToSet(visited))

(* _flow_subgraph: breadth first, up to both caps.  At the cap on nodes the *)
(* loop over the targets of a node ends, and those of the next node find it *)
(* reached again.                                                           *)
NewTargets(visited, node, edges) ==
    FirstOf(MaxFlowNodes - Len(visited),
            ById({e[2] : e \in {d \in edges : d[1] = node}} \ ToSet(visited)))

Round(visited, frontier, edges) ==
    LET nodes == ById(frontier)
        after[k \in 0..Len(nodes)] ==
            IF k = 0 THEN visited
            ELSE after[k - 1] \o NewTargets(after[k - 1], nodes[k], edges)
    IN  after[Len(nodes)]

After(s, v) == [visited |-> v, frontier |-> ToSet(v) \ ToSet(s.visited)]

FlowNodes(start, edges) ==
    LET Deeper(s) ==
            IF s.frontier = {} \/ Len(s.visited) >= MaxFlowNodes THEN s
            ELSE After(s, Round(s.visited, s.frontier, edges))
        search[depth \in 0..MaxFlowDepth] ==
            IF depth = 0 THEN [visited |-> <<start>>, frontier |-> {start}]
            ELSE Deeper(search[depth - 1])
    IN  ToSet(search[MaxFlowDepth].visited)

FlowEdges(start, edges) == Among(FlowNodes(start, edges), edges)

(* _flows_page, without a narrative: the first entrypoints that reach       *)
(* another module.                                                          *)
Flows(entrypoints, edges) ==
    LET Of(i) == FlowEdges(entrypoints[i].module, edges)
        shown == {i \in DOMAIN entrypoints : Of(i) # {}}
        first == {i \in shown : Cardinality({j \in shown : j < i}) < MaxFlows}
    IN  {[entrypoint |-> entrypoints[i], edges |-> Of(i)] : i \in first}

(* _layered_graph_diagram: of the first modules, and the edges among them.  *)
Drawn(modules) == ToSet(FirstOf(MaxGraphNodes, ById(modules)))

-----------------------------------------------------------------------------
(* The pages.  imports are the edges of the module graph.                   *)
Overview(ref, files, stacks, deps) ==
    [ref |-> ref, files |-> Len(files), stacks |-> stacks, dependencies |-> Len(deps),
     languages |-> {f.language : f \in ToSet(files)}]

ArchitecturePage(modules, imports) ==
    [layers |-> {<<m, LayerOf(m)>> : m \in modules}, nodes |-> Drawn(modules),
     edges |-> Among(Drawn(modules), imports)]

ModulesPage(files, imports) ==
    {[module |-> m, files |-> {f.path : f \in {g \in ToSet(files) : ModuleOf(g) = m}},
      depends_on |-> {e[2] : e \in {d \in imports : d[1] = m}}] : m \in Modules(ToSet(files))}

EntrypointsPage(entrypoints) == ToSet(entrypoints)
ApiPage(files) == [routes |-> HttpRoutes(files), calls |-> HttpCalls(files)]
DependenciesPage(deps) == ToSet(deps)
SecurityPage(secrets) == IF secrets = None THEN {} ELSE ToSet(secrets)

(* build_documentation; secrets is None if no scanner ran.                  *)
Documentation(ref, files, imports, stacks, deps, secrets) ==
    LET entrypoints == Entrypoints(files)
    IN  [README |-> Overview(ref, files, stacks, deps),
         architecture |-> ArchitecturePage(Modules(ToSet(files)), imports),
         modules |-> ModulesPage(files, imports),
         features |-> StaticFeatures(entrypoints),
         entrypoints |-> EntrypointsPage(entrypoints),
         flows |-> Flows(entrypoints, imports \cup CallEdges(files)),
         api |-> ApiPage(files),
         dependencies |-> DependenciesPage(deps),
         security |-> SecurityPage(secrets)]

(* The pages, in the order in which render makes a file of each.            *)
Pages == <<"README", "architecture", "modules", "features", "entrypoints", "flows",
           "api", "dependencies", "security">>
=============================================================================
