------------------------- MODULE ArchitectureRules -------------------------
(***************************************************************************)
(* domain/services/architecture_rules.py: the dependency rules of the      *)
(* layers, and find_cycles, an iterative Tarjan.  A step of the machine is *)
(* one pass of its "while work" loop.                                      *)
(*                                                                         *)
(* The module ids of the graph are sorted; here they are numbered.         *)
(***************************************************************************)
EXTENDS Integers, SequencesExt, FiniteSetsExt

CONSTANTS
    N,          \* how many modules the graph has
    Layers      \* the layers they are in

(* _LAYER_RANK: inner is low.  A module of another layer has no rank.       *)
Rank == [shared |-> 0, domain |-> 1, application |-> 2, data |-> 3,
         infrastructure |-> 3, presentation |-> 4, ui |-> 4, config |-> 5]
Ranked == DOMAIN Rank

ASSUME SizeAssumption == N \in Nat
ASSUME LayersAssumption == Layers \subseteq Ranked \cup {"other"}

Nodes == 1..N

VARIABLES
    edges,      \* the dependencies between modules
    indices,    \* when each module was entered
    low,        \* the least index it is known to reach
    stack,      \* the modules entered and not yet put into a component
    work,       \* the path being explored: modules, and how far each has come
    cycles      \* the components found that have more than one module

vars == <<edges, indices, low, stack, work, cycles>>

Unseen == -1
Seen == {n \in Nodes : indices[n] # Unseen}
Index == Cardinality(Seen)             \* the next index
OnStack == ToSet(stack)
Grey == {work[i].node : i \in 1..Len(work)}

(* A module of the path and the last child of it looked at, 0 when it is    *)
(* new; the code has the place of the next one.                             *)
Frame == [node: Nodes, last: 0..N]

TypeOK ==
    /\ edges \subseteq Nodes \X Nodes
    /\ indices \in [Nodes -> {Unseen} \cup 0..(N - 1)]
    /\ low \in [Nodes -> {Unseen} \cup 0..(N - 1)]
    /\ stack \in Seq(Nodes) /\ IsInjective(stack)
    /\ work \in Seq(Frame) /\ \A i, j \in DOMAIN work : work[i].node = work[j].node => i = j
    /\ cycles \subseteq SUBSET Nodes

Init ==
    /\ edges \in SUBSET {e \in Nodes \X Nodes : e[1] # e[2]}
    /\ indices = [n \in Nodes |-> Unseen]
    /\ low = [n \in Nodes |-> Unseen]
    /\ stack = <<>>
    /\ work = <<>>
    /\ cycles = {}

Neighbors(n) == {m \in Nodes : <<n, m>> \in edges}

-----------------------------------------------------------------------------
(* The next root, once the work for the one before is done.                 *)
Root(n) ==
    /\ work = <<>>
    /\ n \in Nodes \ Seen
    /\ \A m \in Nodes \ Seen : n <= m
    /\ work' = <<[node |-> n, last |-> 0]>>
    /\ UNCHANGED <<edges, indices, low, stack, cycles>>

Top == Last(work)
IsNew == Top.last = 0

(* Mutant: every pass over a module enters it.                              *)
EnterAgain(n, of) == [of EXCEPT ![n] = Index]

(* On its first pass a module gets the next index, and a place on the stack.*)
Enter(n, of) == IF IsNew THEN [of EXCEPT ![n] = Index] ELSE of
Stacked == IF IsNew THEN Append(stack, Top.node) ELSE stack
Indices == Enter(Top.node, indices)

(* The children this pass looks at: up to the first unseen one.             *)
Ahead == {c \in Neighbors(Top.node) : c > Top.last}
UnseenAhead == {c \in Ahead : Indices[c] = Unseen}
Looked == {c \in Ahead : \A u \in UnseenAhead : c < u}

(* Mutant: the index of a child counts though its component is complete.    *)
PassLowOfAll ==
    LET entered == Enter(Top.node, low)
    IN  [entered EXCEPT ![Top.node] = Min({@} \cup {Indices[c] : c \in Looked})]

PassLow ==
    LET entered == Enter(Top.node, low)
    IN  [entered EXCEPT ![Top.node] =
            Min({@} \cup {Indices[c] : c \in Looked \cap ToSet(Stacked)})]

(* An unseen child is explored first.                                       *)
Descend ==
    /\ UnseenAhead # {}
    /\ indices' = Indices
    /\ low' = PassLow
    /\ stack' = Stacked
    /\ work' = LET child == Min(UnseenAhead)
               IN  Append([work EXCEPT ![Len(work)].last = child],
                          [node |-> child, last |-> 0])
    /\ UNCHANGED <<edges, cycles>>

(* All children are seen.  A module that reaches nothing older closes a     *)
(* component: itself and what is above it on the stack.                     *)
IsComponent == PassLow[Top.node] = Indices[Top.node]
Position == CHOOSE i \in DOMAIN Stacked : Stacked[i] = Top.node
Component == ToSet(SubSeq(Stacked, Position, Len(Stacked)))

(* Mutant: the parent does not learn how far back its child reaches.        *)
RetreatSilently ==
    /\ UnseenAhead = {}
    /\ indices' = Indices
    /\ stack' = IF IsComponent THEN SubSeq(Stacked, 1, Position - 1) ELSE Stacked
    /\ cycles' = IF IsComponent /\ Cardinality(Component) > 1
                 THEN cycles \cup {Component} ELSE cycles
    /\ work' = Front(work)
    /\ low' = PassLow
    /\ UNCHANGED edges

(* Mutant: a module is done only when it closes a component.                *)
RetreatOnComponent ==
    /\ UnseenAhead = {}
    /\ indices' = Indices
    /\ stack' = IF IsComponent THEN SubSeq(Stacked, 1, Position - 1) ELSE Stacked
    /\ cycles' = IF IsComponent /\ Cardinality(Component) > 1
                 THEN cycles \cup {Component} ELSE cycles
    /\ work' = IF IsComponent THEN Front(work) ELSE work
    /\ low' = PassLow
    /\ UNCHANGED edges

(* The parent takes over how far back its child reaches.                    *)
Retreat ==
    /\ UnseenAhead = {}
    /\ indices' = Indices
    /\ stack' = IF IsComponent THEN SubSeq(Stacked, 1, Position - 1) ELSE Stacked
    /\ cycles' = IF IsComponent /\ Cardinality(Component) > 1
                 THEN cycles \cup {Component} ELSE cycles
    /\ work' = Front(work)
    /\ low' = IF work' = <<>> THEN PassLow
              ELSE [PassLow EXCEPT ![Last(work').node] = Min({@, PassLow[Top.node]})]
    /\ UNCHANGED edges

Next == (\E n \in Nodes : Root(n)) \/ (work # <<>> /\ (Descend \/ Retreat))

Spec == Init /\ [][Next]_vars
(* A call runs until it returns.                                            *)
FairSpec == Spec /\ WF_vars(Next)

Done == work = <<>> /\ Seen = Nodes

-----------------------------------------------------------------------------
(* check_dependency_rules: the edges that point outward.                    *)
Violations(layer) ==
    {e \in edges : /\ layer[e[1]] \in Ranked /\ layer[e[2]] \in Ranked
                   /\ Rank[layer[e[1]]] < Rank[layer[e[2]]]}

-----------------------------------------------------------------------------
(* Properties *)

(* n reaches m: m is in every set that holds n and is closed under edges.   *)
Reaches(n, m) ==
    \A S \in SUBSET Nodes :
        (n \in S /\ \A e \in edges : e[1] \in S => e[2] \in S) => m \in S

StronglyConnected(n) == {m \in Nodes : Reaches(n, m) /\ Reaches(m, n)}

(* What find_cycles returns are the strongly connected components with more *)
(* than one module: all of them, and whole.                                 *)
CyclesAreComponents ==
    Done => cycles = {S \in {StronglyConnected(n) : n \in Nodes} : Cardinality(S) > 1}

(* The stack is sorted by index and connected: a module on the path reaches *)
(* all that lies above it, and whatever is on the stack reaches a module of *)
(* the path that is not above it.                                           *)
StackIsConnected ==
    /\ \A i, j \in 1..Len(stack) : i < j => indices[stack[i]] < indices[stack[j]]
    /\ \A n \in Grey \cap OnStack, m \in OnStack :
          indices[n] <= indices[m] => Reaches(n, m)
    /\ \A m \in OnStack : \E n \in Grey \cap OnStack :
          indices[n] <= indices[m] /\ Reaches(m, n)

(* A component is complete when it leaves the stack: nothing in it depends  *)
(* on a module still on the stack or not yet seen.                          *)
RetiredIsClosed ==
    \A e \in edges : e[1] \in Seen \ OnStack => e[2] \in Seen \ OnStack

(* The two checks agree: a dependency cycle through modules of different    *)
(* ranks contains a dependency that points outward, and it is flagged.      *)
CrossLayerCycleIsFlagged ==
    Done => \A c \in cycles, layer \in [Nodes -> Layers] :
        (/\ \A n \in c : layer[n] \in Ranked
         /\ \E n, m \in c : Rank[layer[n]] # Rank[layer[m]]) =>
        \E e \in Violations(layer) : e[1] \in c /\ e[2] \in c

(* The call returns, whatever the graph.                                    *)
Terminates == <>Done
=============================================================================
