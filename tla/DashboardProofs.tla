-------------------------- MODULE DashboardProofs --------------------------
(***************************************************************************)
(* Proofs about Dashboard, for any scans, clicks and failing fetches, with *)
(* clicks at any time.  The invariant has three parts: what handlers were  *)
(* told is so; a selection that no other one met is the last, and alone;   *)
(* and after a calm click whatever is rendered is of the selected scan.    *)
(***************************************************************************)
EXTENDS Dashboard, TLAPS

(* What a handler was told was so when it was told, and the handlers of     *)
(* ticks and pages are where these are.                                     *)
TaskInv ==
    \A k \in Clicks :
        /\ \A h \in Kinds : task[k][h].over => task[k][h].of \in finished
        /\ task[k]["tick"].at \in {"tick", "none"}
        /\ task[k]["page"].at \in {"page", "none"}

Latest(k) == clicked[k] = current /\ \A j \in Clicks : k < j => clicked[j] = None
Selecting(k) == Active(k, "select")

(* Selections that run at the same time are hasty, the others are over      *)
(* before the next one; so an interval that is left behind is of a hasty    *)
(* one.                                                                     *)
HasteInv ==
    /\ \A j \in Clicks : clicked[j] # None => \A k \in Clicks : k < j => clicked[k] # None
    /\ \A k \in Clicks : (Selecting(k) /\ k \notin hasty) =>
          Latest(k) /\ \A j \in Clicks : Selecting(j) => j = k
    /\ \A k \in intervals : k \notin hasty =>
          k = timer /\ Latest(k) /\ \A j \in Clicks : ~Selecting(j)

(* Heads and pages that are fetched are those of the selected scan, and a   *)
(* handler past the head has drawn that.                                    *)
RenderInv ==
    /\ detail.page # None => HasTabs
    /\ calm => \A k \in Clicks, h \in Kinds :
          /\ task[k][h].at \in {"head", "page"} => task[k][h].of = current
          /\ task[k][h].at \in {"docs", "page"} => detail.head = current

IInv == TypeOK /\ TaskInv /\ HasteInv /\ RenderInv /\ PaneOfTheSelected

-----------------------------------------------------------------------------
(* The handlers there can be, and what is left of one that ends.            *)
TaskTable == [Clicks -> [Kinds -> Task \cup {NoTask}]]

LEMMA FetchTyped ==
    ASSUME NEW at \in Fetches, NEW s \in Scans \cup {None}
    PROVE  /\ Fetch(at, s) \in Task /\ Fetch(at, s).at = at /\ Fetch(at, s).of = s
           /\ Fetch(at, s).over <=> s \in finished
           /\ Fetch(at, s) # NoTask
<1>1. CASE s \in finished
  <2>1. Fetch(at, s) = [at |-> at, of |-> s, over |-> TRUE]
    BY <1>1, Zenon DEF Fetch
  <2> QED  BY <1>1, <2>1 DEF Task, NoTask
<1>2. CASE s \notin finished
  <2>1. Fetch(at, s) = [at |-> at, of |-> s, over |-> FALSE]
    <3>1. (s \in finished) = FALSE
      BY <1>2
    <3> QED  BY <3>1, Zenon DEF Fetch
  <2>2. Fetch(at, s).at # "none"
    BY <2>1 DEF Fetches
  <2> QED  BY <1>2, <2>1, <2>2 DEF Task, NoTask
<1> QED  BY <1>1, <1>2

LEMMA NoTaskFacts == NoTask.at = "none" /\ ~NoTask.over /\ NoTask \notin Task
  BY DEF NoTask, Task, Fetches

LEMMA ReturnTyped ==
    ASSUME ConstantsAssumption, TypeOK, NEW h
    PROVE  /\ Return(h) \in Task \cup {NoTask} /\ ~Return(h).over
           /\ Return(h).at \in {"list", "none"}
<1>1. None \notin finished /\ "list" \in Fetches /\ None \in Scans \cup {None}
  BY DEF TypeOK, ConstantsAssumption, Fetches
<1>2. /\ Fetch("list", None) \in Task /\ Fetch("list", None).at = "list"
      /\ ~Fetch("list", None).over
  BY <1>1, FetchTyped
<1> QED  BY <1>2, NoTaskFacts DEF Return

(* One handler of click k goes on as n; or two do.                          *)
Becomes(k, h, n) ==
    /\ task' \in TaskTable
    /\ task'[k][h] = n
    /\ \A j \in Clicks, g \in Kinds : (j # k \/ g # h) => task'[j][g] = task[j][g]
BothBecome(k, h, n, f, p) ==
    /\ task' \in TaskTable
    /\ task'[k][h] = n /\ task'[k][f] = p
    /\ \A j \in Clicks, g \in Kinds : (j # k \/ (g # h /\ g # f)) => task'[j][g] = task[j][g]

LEMMA OneTask ==
    ASSUME task \in TaskTable, NEW k \in Clicks, NEW h \in Kinds,
           NEW n \in Task \cup {NoTask}, task' = [task EXCEPT ![k][h] = n]
    PROVE  Becomes(k, h, n)
  BY DEF TaskTable, Becomes

LEMMA TwoTasks ==
    ASSUME task \in TaskTable, NEW k \in Clicks, NEW h \in Kinds, NEW f \in Kinds, h # f,
           NEW n \in Task \cup {NoTask}, NEW p \in Task \cup {NoTask},
           task' = [task EXCEPT ![k][h] = n, ![k][f] = p]
    PROVE  BothBecome(k, h, n, f, p)
<1> DEFINE half == [task EXCEPT ![k][h] = n]
<1>1. /\ half \in TaskTable /\ half[k][h] = n
      /\ \A j \in Clicks, g \in Kinds : (j # k \/ g # h) => half[j][g] = task[j][g]
  BY DEF TaskTable
<1>2. task' = [half EXCEPT ![k][f] = p]
  BY DEF TaskTable
<1> HIDE DEF half
<1>3. /\ task' \in TaskTable /\ task'[k][f] = p
      /\ \A j \in Clicks, g \in Kinds : (j # k \/ g # f) => task'[j][g] = half[j][g]
  BY <1>1, <1>2 DEF TaskTable
<1>4. task'[k][h] = n
  BY <1>1, <1>3
<1>5. ASSUME NEW j \in Clicks, NEW g \in Kinds, j # k \/ (g # h /\ g # f)
      PROVE  task'[j][g] = task[j][g]
  <2>1. task'[j][g] = half[j][g]
    BY <1>3, <1>5
  <2>2. half[j][g] = task[j][g]
    BY <1>1, <1>5
  <2> QED  BY <2>1, <2>2
<1> QED  BY <1>3, <1>4, <1>5 DEF BothBecome

LEMMA Typed ==
    ASSUME TypeOK, NEW k \in Clicks, NEW h \in Kinds
    PROVE  /\ task \in TaskTable
           /\ task[k][h] \in Task \cup {NoTask}
           /\ task[k][h].of \in Scans \cup {None}
           /\ Active(k, h) <=> task[k][h] \in Task
           /\ Active(k, h) <=> task[k][h].at # "none"
           /\ current \in Scans \cup {None} /\ clicked[k] \in Scans \cup {None}
<1>1. task[k][h] \in Task \cup {NoTask}
  BY DEF TypeOK
<1>2. NoTask.at = "none" /\ NoTask.of = None
  BY DEF NoTask
<1>3. \A t \in Task : t.at # "none" /\ t.of \in Scans \cup {None}
  BY DEF Task, Fetches
<1> QED  BY <1>1, <1>2, <1>3, NoTaskFacts DEF TypeOK, TaskTable, Active

LEMMA KindsFacts ==
    /\ \A h \in {"select", "tick", "render", "page"} : h \in Kinds
    /\ \A at \in {"head", "docs", "list", "job", "tick", "page"} : at \in Fetches
  BY DEF Kinds, Fetches

-----------------------------------------------------------------------------
(* What the actions make of the handlers.                                   *)
LEMMA ClickDoes ==
    ASSUME TypeOK, NEW k \in Clicks, NEW s \in Scans, Click(k, s)
    PROVE  Becomes(k, "select", Fetch("head", s)) /\ finished' = finished
<1>1. Fetch("head", s) \in Task
  BY FetchTyped, KindsFacts
<1>2. task \in TaskTable /\ "select" \in Kinds
  BY KindsFacts DEF TypeOK, TaskTable
<1> QED  BY <1>1, <1>2, OneTask DEF Click

LEMMA FailDoes ==
    ASSUME TypeOK, NEW k \in Clicks, NEW h \in Kinds, FetchFails(k, h)
    PROVE  Becomes(k, h, NoTask)
  BY Typed, OneTask DEF FetchFails

LEMMA HeadDoes ==
    ASSUME ConstantsAssumption, TypeOK,
           NEW k \in Clicks, NEW h \in {"select", "render"}, Head(k, h)
    PROVE  \E over \in Answers(k, h) :
              /\ detail' = [head |-> task[k][h].of, finished |-> over, page |-> None]
              /\ IF over /\ task[k][h].of \notin Broken
                 THEN Becomes(k, h, Fetch("docs", current)) ELSE Becomes(k, h, Return(h))
<1>1. PICK over \in Answers(k, h) :
         /\ detail' = [head |-> task[k][h].of, finished |-> over, page |-> None]
         /\ task' = [task EXCEPT ![k][h] = IF over /\ task[k][h].of \notin Broken
                                           THEN Fetch("docs", current) ELSE Return(h)]
  BY DEF Head
<1>2. /\ Fetch("docs", current) \in Task /\ Return(h) \in Task \cup {NoTask}
      /\ task \in TaskTable /\ h \in Kinds
  BY FetchTyped, ReturnTyped, KindsFacts DEF TypeOK, TaskTable
<1>3. CASE over /\ task[k][h].of \notin Broken
  <2>1. task' = [task EXCEPT ![k][h] = Fetch("docs", current)]
    BY <1>1, <1>3
  <2> QED  BY <1>1, <1>2, <1>3, <2>1, OneTask
<1>4. CASE ~(over /\ task[k][h].of \notin Broken)
  <2>1. task' = [task EXCEPT ![k][h] = Return(h)]
    BY <1>1, <1>4
  <2>2. Becomes(k, h, Return(h))
    BY <1>2, <2>1, OneTask
  <2> QED  BY <1>1, <1>4, <2>2
<1> QED  BY <1>3, <1>4

LEMMA DocsDoes ==
    ASSUME ConstantsAssumption, TypeOK,
           NEW k \in Clicks, NEW h \in {"select", "render"}, Docs(k, h)
    PROVE  \/ /\ BothBecome(k, h, Return(h), "page", Fetch("page", current))
              /\ HasTabs /\ dropped' = dropped
           \/ Becomes(k, h, NoTask) /\ dropped' = TRUE
<1>1. /\ Fetch("page", current) \in Task /\ Return(h) \in Task \cup {NoTask}
      /\ task \in TaskTable /\ h \in Kinds /\ "page" \in Kinds /\ h # "page"
  BY FetchTyped, ReturnTyped, KindsFacts DEF TypeOK, TaskTable
<1>2. CASE /\ HasTabs /\ UNCHANGED dropped
           /\ task' = [task EXCEPT ![k][h] = Return(h), ![k]["page"] = Fetch("page", current)]
  BY <1>1, <1>2, TwoTasks
<1>3. CASE task' = [task EXCEPT ![k][h] = NoTask] /\ dropped' = TRUE
  BY <1>1, <1>3, OneTask
<1> QED  BY <1>2, <1>3 DEF Docs

LEMMA PageDoes ==
    ASSUME TypeOK, NEW k \in Clicks, Page(k)
    PROVE  Becomes(k, "page", NoTask)
  BY Typed, OneTask, KindsFacts DEF Page

LEMMA ListDoes ==
    ASSUME TypeOK, NEW k \in Clicks, List(k)
    PROVE  Becomes(k, "select", Fetch("job", clicked[k]))
<1>1. clicked[k] \in Scans \cup {None} /\ "select" \in Kinds /\ "job" \in Fetches
      /\ task \in TaskTable
  BY KindsFacts DEF TypeOK, TaskTable
<1>2. Fetch("job", clicked[k]) \in Task
  BY <1>1, FetchTyped
<1> QED  BY <1>1, <1>2, OneTask DEF List

LEMMA StartDoes ==
    ASSUME TypeOK, NEW k \in Clicks, StartPolling(k)
    PROVE  Becomes(k, "select", NoTask)
  BY Typed, OneTask, KindsFacts DEF StartPolling

LEMMA TickDoes ==
    ASSUME TypeOK, NEW k \in Clicks, Tick(k)
    PROVE  Becomes(k, "tick", Fetch("tick", clicked[k]))
<1>1. clicked[k] \in Scans \cup {None} /\ "tick" \in Kinds /\ "tick" \in Fetches
      /\ task \in TaskTable
  BY KindsFacts DEF TypeOK, TaskTable
<1>2. Fetch("tick", clicked[k]) \in Task
  BY <1>1, FetchTyped
<1> QED  BY <1>1, <1>2, OneTask DEF Tick

LEMMA TickedDoes ==
    ASSUME TypeOK, NEW k \in Clicks, Ticked(k)
    PROVE  /\ intervals' \subseteq intervals
           /\ \/ BothBecome(k, "tick", NoTask, "render", Fetch("head", current))
              \/ Becomes(k, "tick", NoTask)
<1>1. /\ Fetch("head", current) \in Task /\ "tick" \in Kinds /\ "render" \in Kinds
      /\ task \in TaskTable
  BY FetchTyped, KindsFacts DEF TypeOK, TaskTable
<1>2. CASE /\ intervals' = intervals \ {timer}
           /\ task' = [task EXCEPT ![k]["tick"] = NoTask, ![k]["render"] = Fetch("head", current)]
  BY <1>1, <1>2, TwoTasks
<1>3. CASE task' = [task EXCEPT ![k]["tick"] = NoTask] /\ UNCHANGED intervals
  BY <1>1, <1>3, OneTask
<1> QED  BY <1>2, <1>3 DEF Ticked, GoesOn

-----------------------------------------------------------------------------
LEMMA TypeInit == ConstantsAssumption /\ Init => TypeOK /\ TaskInv
<1> SUFFICES ASSUME ConstantsAssumption, Init
             PROVE  TypeOK /\ TaskInv
  OBVIOUS
<1>1. task \in [Clicks -> [Kinds -> Task \cup {NoTask}]]
  BY DEF Init
<1>2. \A k \in Clicks, h \in Kinds : task[k][h] = NoTask
  BY DEF Init
<1>3. TaskInv
  BY <1>2, NoTaskFacts, KindsFacts DEF TaskInv
<1>4. detail \in Detail /\ detail.finished = FALSE
  BY DEF Init, Detail
<1>5. 0 \in 0..MaxEvents /\ clicked \in [Clicks -> Scans \cup {None}]
  BY DEF Init, ConstantsAssumption
<1> QED  BY <1>1, <1>3, <1>4, <1>5 DEF Init, TypeOK

LEMMA TaskKept ==
    ASSUME TaskInv, finished \subseteq finished', NEW k \in Clicks, NEW h \in Kinds, NEW n,
           Becomes(k, h, n), n.over => n.of \in finished',
           h \in {"tick", "page"} => n.at \in {h, "none"}
    PROVE  TaskInv'
<1>1. ASSUME NEW j \in Clicks, NEW g \in Kinds
      PROVE  /\ task'[j][g].over => task'[j][g].of \in finished'
             /\ g \in {"tick", "page"} => task'[j][g].at \in {g, "none"}
  <2>1. CASE j = k /\ g = h
    BY <2>1 DEF Becomes
  <2>2. CASE j # k \/ g # h
    <3>1. task'[j][g] = task[j][g]
      BY <2>2 DEF Becomes
    <3> QED  BY <3>1 DEF TaskInv
  <2> QED  BY <2>1, <2>2
<1> QED  BY <1>1, KindsFacts DEF TaskInv

LEMMA TasksKept ==
    ASSUME TaskInv, finished \subseteq finished', NEW k \in Clicks, NEW h \in Kinds,
           NEW f \in Kinds, NEW n, NEW p, BothBecome(k, h, n, f, p),
           n.over => n.of \in finished', p.over => p.of \in finished',
           h \in {"tick", "page"} => n.at \in {h, "none"},
           f \in {"tick", "page"} => p.at \in {f, "none"}
    PROVE  TaskInv'
<1>1. ASSUME NEW j \in Clicks, NEW g \in Kinds
      PROVE  /\ task'[j][g].over => task'[j][g].of \in finished'
             /\ g \in {"tick", "page"} => task'[j][g].at \in {g, "none"}
  <2>1. CASE j = k /\ (g = h \/ g = f)
    BY <2>1 DEF BothBecome
  <2>2. CASE j # k \/ (g # h /\ g # f)
    <3>1. task'[j][g] = task[j][g]
      BY <2>2 DEF BothBecome
    <3> QED  BY <3>1 DEF TaskInv
  <2> QED  BY <2>1, <2>2
<1> QED  BY <1>1, KindsFacts DEF TaskInv

(* What does not change, of all that has a type.                            *)
TypeRest ==
    /\ finished \subseteq Scans
    /\ current \in Scans \cup {None}
    /\ timer \in Clicks \cup {0}
    /\ clicked \in [Clicks -> Scans \cup {None}]
    /\ intervals \subseteq Clicks
    /\ detail \in Detail /\ (detail.finished => detail.head \in finished)
    /\ events \in 0..MaxEvents
    /\ hasty \subseteq Clicks /\ calm \in BOOLEAN /\ dropped \in BOOLEAN

LEMMA Split == TypeOK <=> (TypeRest /\ task \in TaskTable)
  BY DEF TypeOK, TypeRest, TaskTable

LEMMA TypeNext ==
    ASSUME ConstantsAssumption, TypeOK, TaskInv, [Next]_vars
    PROVE  TypeOK' /\ TaskInv'
<1> SUFFICES TypeRest' /\ task' \in TaskTable /\ TaskInv'
  BY DEF TypeOK, TypeRest, TaskTable
<1> USE KindsFacts
<1>a. TypeRest /\ task \in TaskTable /\ finished \subseteq Scans
  BY Split DEF TypeRest
<1>1. ASSUME NEW s \in Scans, Finish(s)
      PROVE  TypeRest' /\ task' \in TaskTable /\ TaskInv'
  BY <1>a, <1>1 DEF Finish, TypeRest, TaskInv, history
<1>2. ASSUME NEW k \in Clicks, NEW s \in Scans, Click(k, s)
      PROVE  TypeRest' /\ task' \in TaskTable /\ TaskInv'
  <2>1. Becomes(k, "select", Fetch("head", s)) /\ finished' = finished
    BY <1>2, ClickDoes
  <2>2. Fetch("head", s).over => Fetch("head", s).of \in finished
    BY FetchTyped
  <2>3. TaskInv' /\ task' \in TaskTable
    BY <2>1, <2>2, TaskKept DEF Becomes
  <2>4. events' \in 0..MaxEvents
    BY <1>2 DEF Click, TypeOK, ConstantsAssumption
  <2>5. hasty' \subseteq Clicks /\ calm' \in BOOLEAN /\ dropped' \in BOOLEAN
    BY <1>a, <1>2 DEF Click, Remember, Met, TypeRest
  <2> QED  BY <1>a, <1>2, <2>3, <2>4, <2>5 DEF Click, TypeRest
<1>3. ASSUME NEW k \in Clicks, NEW h \in Kinds, FetchFails(k, h)
      PROVE  TypeRest' /\ task' \in TaskTable /\ TaskInv'
  <2>1. Becomes(k, h, NoTask) /\ finished' = finished
    BY <1>3, FailDoes DEF FetchFails
  <2>2. TaskInv' /\ task' \in TaskTable
    BY <2>1, NoTaskFacts, TaskKept DEF Becomes
  <2>3. events' \in 0..MaxEvents
    BY <1>3 DEF FetchFails, TypeOK, ConstantsAssumption
  <2>4. dropped' \in BOOLEAN
    BY <1>3 DEF FetchFails
  <2> QED  BY <1>a, <1>3, <2>2, <2>3, <2>4 DEF FetchFails, TypeRest
<1>4. ASSUME NEW k \in Clicks, NEW h \in {"select", "render"}, Head(k, h)
      PROVE  TypeRest' /\ task' \in TaskTable /\ TaskInv'
  <2>1. PICK over \in Answers(k, h) :
           /\ detail' = [head |-> task[k][h].of, finished |-> over, page |-> None]
           /\ IF over /\ task[k][h].of \notin Broken
              THEN Becomes(k, h, Fetch("docs", current)) ELSE Becomes(k, h, Return(h))
    BY <1>4, HeadDoes
  <2>2. h \in Kinds /\ finished' = finished
    BY <1>4 DEF Head
  <2>3. TaskInv' /\ task' \in TaskTable
    <3>1. PICK n \in {Fetch("docs", current), Return(h)} : Becomes(k, h, n)
      BY <2>1
    <3>2. /\ Fetch("docs", current).over => Fetch("docs", current).of \in finished
          /\ ~Return(h).over
      BY <1>a, FetchTyped, ReturnTyped DEF TypeRest
    <3> QED  BY <2>2, <3>1, <3>2, TaskKept DEF Becomes
  <2>4. over => task[k][h].of \in finished
    BY <2>2 DEF Answers, TaskInv
  <2>5. over \in BOOLEAN /\ task[k][h].of \in Scans \cup {None}
    <3>1. \A t \in Task \cup {NoTask} : t.over \in BOOLEAN
      <4>1. NoTask.over \in BOOLEAN
        BY DEF NoTask
      <4>2. \A t \in Task : t.over \in BOOLEAN
        BY DEF Task
      <4> QED  BY <4>1, <4>2
    <3>2. task[k][h].over \in BOOLEAN /\ task[k][h].of \in Scans \cup {None}
      BY <2>2, <3>1, Typed
    <3>3. (task[k][h].of \in finished) \in BOOLEAN
      OBVIOUS
    <3> QED  BY <3>2, <3>3, Zenon DEF Answers
  <2>6. detail' \in Detail /\ (detail'.finished => detail'.head \in finished)
    BY <2>1, <2>4, <2>5 DEF Detail
  <2> QED  BY <1>a, <1>4, <2>3, <2>6 DEF Head, TypeRest, history
<1>5. ASSUME NEW k \in Clicks, NEW h \in {"select", "render"}, Docs(k, h)
      PROVE  TypeRest' /\ task' \in TaskTable /\ TaskInv'
  <2>1. /\ h \in Kinds /\ finished' = finished
        /\ Fetch("page", current).over => Fetch("page", current).of \in finished
        /\ Fetch("page", current).at = "page" /\ ~Return(h).over
    BY <1>a, <1>5, FetchTyped, ReturnTyped DEF Docs, TypeRest
  <2>2. CASE BothBecome(k, h, Return(h), "page", Fetch("page", current)) /\ dropped' = dropped
    <3>1. TaskInv' /\ task' \in TaskTable
      BY <2>1, <2>2, TasksKept DEF BothBecome
    <3> QED  BY <1>a, <1>5, <2>2, <3>1 DEF Docs, TypeRest
  <2>3. CASE Becomes(k, h, NoTask) /\ dropped' = TRUE
    <3>1. TaskInv' /\ task' \in TaskTable
      BY <2>1, <2>3, NoTaskFacts, TaskKept DEF Becomes
    <3> QED  BY <1>a, <1>5, <2>3, <3>1 DEF Docs, TypeRest
  <2> QED  BY <1>5, <2>2, <2>3, DocsDoes
<1>6. ASSUME NEW k \in Clicks, Page(k)
      PROVE  TypeRest' /\ task' \in TaskTable /\ TaskInv'
  <2>1. finished' = finished /\ task[k]["page"].of \in Scans \cup {None}
    BY <1>6, Typed DEF Page
  <2>2. TaskInv' /\ task' \in TaskTable
    BY <1>6, <2>1, PageDoes, NoTaskFacts, TaskKept DEF Becomes
  <2>3. detail' \in Detail /\ detail'.head = detail.head /\ detail'.finished = detail.finished
    BY <1>a, <1>6, <2>1 DEF Page, TypeRest, Detail
  <2>4. dropped' \in BOOLEAN
    BY <1>a, <1>6 DEF Page, TypeRest
  <2> QED  BY <1>a, <1>6, <2>2, <2>3, <2>4 DEF Page, TypeRest
<1>7. ASSUME NEW k \in Clicks, List(k)
      PROVE  TypeRest' /\ task' \in TaskTable /\ TaskInv'
  <2>1. /\ finished' = finished
        /\ Fetch("job", clicked[k]).over => Fetch("job", clicked[k]).of \in finished
    BY <1>7, Typed, FetchTyped DEF List
  <2>2. TaskInv' /\ task' \in TaskTable
    BY <1>7, <2>1, ListDoes, TaskKept DEF Becomes
  <2> QED  BY <1>a, <1>7, <2>2 DEF List, TypeRest, history
<1>8. ASSUME NEW k \in Clicks, StartPolling(k)
      PROVE  TypeRest' /\ task' \in TaskTable /\ TaskInv'
  <2>1. TaskInv' /\ task' \in TaskTable
    BY <1>8, StartDoes, NoTaskFacts, TaskKept DEF Becomes, StartPolling
  <2>2. timer' \in Clicks \cup {0} /\ intervals' \subseteq Clicks
    BY <1>a, <1>8 DEF StartPolling, TypeRest
  <2> QED  BY <1>a, <1>8, <2>1, <2>2 DEF StartPolling, TypeRest, history
<1>9. ASSUME NEW k \in Clicks, Tick(k)
      PROVE  TypeRest' /\ task' \in TaskTable /\ TaskInv'
  <2>1. /\ finished' = finished
        /\ Fetch("tick", clicked[k]).over => Fetch("tick", clicked[k]).of \in finished
        /\ Fetch("tick", clicked[k]).at = "tick"
    BY <1>9, Typed, FetchTyped DEF Tick
  <2>2. TaskInv' /\ task' \in TaskTable
    BY <1>9, <2>1, TickDoes, TaskKept DEF Becomes
  <2> QED  BY <1>a, <1>9, <2>2 DEF Tick, TypeRest, history
<1>10. ASSUME NEW k \in Clicks, Ticked(k)
       PROVE  TypeRest' /\ task' \in TaskTable /\ TaskInv'
  <2>1. /\ finished' = finished /\ intervals' \subseteq intervals
        /\ Fetch("head", current).over => Fetch("head", current).of \in finished
    BY <1>a, <1>10, TickedDoes, FetchTyped DEF Ticked, TypeRest
  <2>2. CASE BothBecome(k, "tick", NoTask, "render", Fetch("head", current))
    <3>1. TaskInv' /\ task' \in TaskTable
      BY <2>1, <2>2, NoTaskFacts, TasksKept DEF BothBecome
    <3> QED  BY <1>a, <1>10, <2>1, <3>1 DEF Ticked, TypeRest, history
  <2>3. CASE Becomes(k, "tick", NoTask)
    <3>1. TaskInv' /\ task' \in TaskTable
      BY <2>1, <2>3, NoTaskFacts, TaskKept DEF Becomes
    <3> QED  BY <1>a, <1>10, <2>1, <3>1 DEF Ticked, TypeRest, history
  <2> QED  BY <1>10, <2>2, <2>3, TickedDoes
<1>11. CASE UNCHANGED vars
  BY <1>a, <1>11 DEF vars, history, TypeRest, TaskInv
<1> QED  BY <1>1, <1>2, <1>3, <1>4, <1>5, <1>6, <1>7, <1>8, <1>9, <1>10, <1>11 DEF Next, Handle

-----------------------------------------------------------------------------
(* Handlers that go on, or end, keep a selection that is hasty hasty, and   *)
(* the last the last.                                                       *)
LEMMA HasteKept ==
    ASSUME HasteInv, UNCHANGED <<clicked, current, timer, hasty>>,
           intervals' \subseteq intervals,
           \A j \in Clicks : Selecting(j)' => Selecting(j)
    PROVE  HasteInv'
  BY DEF HasteInv, Latest

LEMMA SelectingKept ==
    ASSUME TypeOK, NEW k \in Clicks, NEW h \in Kinds, NEW n, Becomes(k, h, n),
           h = "select" => Selecting(k)
    PROVE  \A j \in Clicks : Selecting(j)' => Selecting(j)
  BY KindsFacts DEF Becomes, Selecting, Active

LEMMA SelectingAlike ==
    ASSUME TypeOK, NEW k \in Clicks, NEW h \in Kinds, NEW f \in Kinds, NEW n, NEW p,
           BothBecome(k, h, n, f, p), h = "select" => Selecting(k), f # "select"
    PROVE  \A j \in Clicks : Selecting(j)' => Selecting(j)
  BY KindsFacts DEF BothBecome, Selecting, Active

LEMMA HasteClick ==
    ASSUME ConstantsAssumption, TypeOK, HasteInv,
           NEW k \in Clicks, NEW s \in Scans, Click(k, s)
    PROVE  HasteInv'
<1>1. /\ clicked' = [clicked EXCEPT ![k] = s] /\ current' = s /\ s # None
      /\ clicked[k] = None /\ \A j \in Clicks : j < k => clicked[j] # None
      /\ hasty' = hasty \cup Met \cup (IF Met = {} THEN {} ELSE {k})
      /\ intervals' = intervals \ {timer} /\ timer' = timer
      /\ clicked \in [Clicks -> Scans \cup {None}] /\ Clicks \subseteq Nat
  BY DEF Click, Remember, ConstantsAssumption, TypeOK, Clicks
<1>2. \A j \in Clicks : Selecting(j)' => j = k \/ Selecting(j)
  BY ClickDoes, KindsFacts DEF Becomes, Selecting, Active
<1>3. \A j \in Clicks : Selecting(j) => j \in Met
  BY DEF Met, Selecting
<1>4. \A i, j \in Clicks : i < j /\ clicked'[j] # None => clicked'[i] # None
  <2>1. ASSUME NEW i \in Clicks, NEW j \in Clicks, i < j, clicked'[j] # None
        PROVE  clicked'[i] # None
    <3>1. CASE j = k
      BY <1>1, <2>1, <3>1
    <3>2. CASE j # k
      BY <1>1, <2>1, <3>2 DEF HasteInv
    <3> QED  BY <3>1, <3>2
  <2> QED  BY <2>1
<1>5. \A j \in Clicks : k < j => clicked'[j] = None
  BY <1>1 DEF HasteInv
<1>6. ASSUME NEW j \in Clicks, Selecting(j)', j \notin hasty'
      PROVE  Latest(j)' /\ \A i \in Clicks : Selecting(i)' => i = j
  <2>1. j = k
    BY <1>1, <1>2, <1>3, <1>6
  <2>2. Met = {}
    BY <1>1, <1>6, <2>1
  <2>3. \A i \in Clicks : ~Selecting(i)
    BY <1>3, <2>2
  <2> QED  BY <1>1, <1>2, <1>5, <2>1, <2>3 DEF Latest
<1>7. ASSUME NEW j \in intervals', j \notin hasty'
      PROVE  FALSE
  BY <1>1, <1>7 DEF HasteInv
<1> QED  BY <1>4, <1>6, <1>7 DEF HasteInv

(* An interval that is set is that of the only selection there is, or of a  *)
(* hasty one.                                                               *)
LEMMA HasteStart ==
    ASSUME ConstantsAssumption, TypeOK, HasteInv, NEW k \in Clicks, StartPolling(k)
    PROVE  HasteInv'
<1>1. Selecting(k)
  BY Typed, KindsFacts DEF StartPolling, Selecting
<1>2. \A j \in Clicks : Selecting(j)' => Selecting(j) /\ j # k
  BY StartDoes, KindsFacts DEF Becomes, Selecting, Active
<1>3. CASE UNCHANGED <<timer, intervals>>
  BY <1>2, <1>3, HasteKept DEF StartPolling, history
<1>4. CASE timer' = k /\ intervals' = intervals \cup {k}
  <2>1. \A j \in intervals : j \in hasty
    BY <1>1 DEF HasteInv
  <2>2. UNCHANGED <<clicked, current, hasty>>
    BY DEF StartPolling, history
  <2>3. k \notin hasty => Latest(k) /\ \A j \in Clicks : ~Selecting(j)'
    BY <1>1, <1>2 DEF HasteInv
  <2>4. \A j \in intervals' : j \notin hasty' =>
           j = timer' /\ Latest(j)' /\ \A i \in Clicks : ~Selecting(i)'
    BY <1>4, <2>1, <2>2, <2>3 DEF Latest
  <2>5. \A j \in Clicks : (Selecting(j)' /\ j \notin hasty') =>
           Latest(j)' /\ \A i \in Clicks : Selecting(i)' => i = j
    BY <1>2, <2>2 DEF HasteInv, Latest
  <2> QED  BY <2>2, <2>4, <2>5 DEF HasteInv
<1> QED  BY <1>3, <1>4 DEF StartPolling

LEMMA HasteNext ==
    ASSUME ConstantsAssumption, TypeOK, HasteInv, [Next]_vars
    PROVE  HasteInv'
<1> USE KindsFacts
<1>1. CASE \E s \in Scans : Finish(s)
  BY <1>1, HasteKept DEF Finish, Selecting, Active, history
<1>2. ASSUME NEW k \in Clicks, NEW s \in Scans, Click(k, s)
      PROVE  HasteInv'
  BY <1>2, HasteClick
<1>3. ASSUME NEW k \in Clicks, NEW h \in Kinds, FetchFails(k, h)
      PROVE  HasteInv'
  <2>1. h = "select" => Selecting(k)
    BY <1>3 DEF FetchFails, Selecting
  <2> QED  BY <1>3, <2>1, FailDoes, SelectingKept, HasteKept DEF FetchFails
<1>4. ASSUME NEW k \in Clicks, NEW h \in {"select", "render"}, Head(k, h)
      PROVE  HasteInv'
  <2>1. PICK n : Becomes(k, h, n)
    BY <1>4, HeadDoes
  <2>2. h = "select" => Selecting(k)
    BY <1>4, Typed DEF Head, Selecting
  <2>3. \A j \in Clicks : Selecting(j)' => Selecting(j)
    BY <2>1, <2>2, SelectingKept
  <2> QED  BY <1>4, <2>3, HasteKept DEF Head, history
<1>5. ASSUME NEW k \in Clicks, NEW h \in {"select", "render"}, Docs(k, h)
      PROVE  HasteInv'
  <2>1. h = "select" => Selecting(k)
    BY <1>5, Typed DEF Docs, Selecting
  <2>2. \A j \in Clicks : Selecting(j)' => Selecting(j)
    BY <1>5, <2>1, DocsDoes, SelectingKept, SelectingAlike
  <2> QED  BY <1>5, <2>2, HasteKept DEF Docs
<1>6. ASSUME NEW k \in Clicks, Page(k)
      PROVE  HasteInv'
  BY <1>6, PageDoes, SelectingKept, HasteKept DEF Page
<1>7. ASSUME NEW k \in Clicks, List(k)
      PROVE  HasteInv'
  <2>1. Selecting(k)
    BY <1>7, Typed DEF List, Selecting
  <2> QED  BY <1>7, <2>1, ListDoes, SelectingKept, HasteKept DEF List, history
<1>8. ASSUME NEW k \in Clicks, StartPolling(k)
      PROVE  HasteInv'
  BY <1>8, HasteStart
<1>9. ASSUME NEW k \in Clicks, Tick(k)
      PROVE  HasteInv'
  BY <1>9, TickDoes, SelectingKept, HasteKept DEF Tick, history
<1>10. ASSUME NEW k \in Clicks, Ticked(k)
       PROVE  HasteInv'
  <2>1. \A j \in Clicks : Selecting(j)' => Selecting(j)
    BY <1>10, TickedDoes, SelectingKept, SelectingAlike
  <2> QED  BY <1>10, <2>1, TickedDoes, HasteKept DEF Ticked, history
<1>11. CASE UNCHANGED vars
  BY <1>11, HasteKept DEF vars, history, Selecting, Active
<1> QED  BY <1>1, <1>2, <1>3, <1>4, <1>5, <1>6, <1>7, <1>8, <1>9, <1>10, <1>11 DEF Next, Handle

-----------------------------------------------------------------------------
Places == {"head", "docs", "page"}

LEMMA PlacesFacts ==
    /\ Rendering <=> \E k \in Clicks, h \in Kinds : task[k][h].at \in Places
    /\ Rendering' <=> \E k \in Clicks, h \in Kinds : task'[k][h].at \in Places
    /\ "none" \notin Places /\ "list" \notin Places
    /\ "job" \notin Places /\ "tick" \notin Places
  BY DEF Places, Rendering

(* A handler that does not render goes on, or a rendering ends for good.    *)
LEMMA RenderKept ==
    ASSUME RenderInv, PaneOfTheSelected, UNCHANGED <<detail, current, calm>>,
           dropped => dropped', NEW k \in Clicks, NEW h \in Kinds, NEW n,
           Becomes(k, h, n), n.at \notin Places, task[k][h].at \notin Places \/ dropped'
    PROVE  RenderInv' /\ PaneOfTheSelected'
<1>1. \A j \in Clicks, g \in Kinds : task'[j][g].at \in Places => task'[j][g] = task[j][g]
  BY DEF Becomes
<1>2. Rendering => Rendering' \/ dropped'
  <2>1. ASSUME NEW j \in Clicks, NEW g \in Kinds, task[j][g].at \in Places, ~dropped'
        PROVE  Rendering'
    BY <2>1, PlacesFacts DEF Becomes
  <2> QED  BY <2>1, PlacesFacts
<1>3. HasTabs' <=> HasTabs
  BY DEF HasTabs
<1>4. PaneOfTheSelected'
  BY <1>2, <1>3 DEF PaneOfTheSelected
<1>5. RenderInv'
  BY <1>1, <1>3 DEF RenderInv, Places
<1> QED  BY <1>4, <1>5

LEMMA RenderClick ==
    ASSUME TypeOK, RenderInv, NEW k \in Clicks, NEW s \in Scans, Click(k, s)
    PROVE  RenderInv' /\ PaneOfTheSelected'
<1>1. Becomes(k, "select", Fetch("head", s))
  BY ClickDoes
<1>2. Fetch("head", s).at = "head" /\ Fetch("head", s).of = s
  BY FetchTyped, KindsFacts
<1>3. detail' = detail /\ current' = s /\ calm' = ~Rendering
  BY DEF Click, Remember
<1>4. Rendering'
  BY <1>1, <1>2, KindsFacts, PlacesFacts DEF Becomes, Places
<1>5. ASSUME calm', NEW j \in Clicks, NEW g \in Kinds
      PROVE  /\ task'[j][g].at \in {"head", "page"} => task'[j][g].of = current'
             /\ task'[j][g].at \in {"docs", "page"} => detail'.head = current'
  <2>1. CASE j = k /\ g = "select"
    BY <1>1, <1>2, <1>3, <2>1 DEF Becomes
  <2>2. CASE j # k \/ g # "select"
    <3>1. task'[j][g] = task[j][g] /\ task[j][g].at \notin Places
      BY <1>1, <1>3, <1>5, <2>2, PlacesFacts DEF Becomes
    <3> QED  BY <3>1 DEF Places
  <2> QED  BY <2>1, <2>2
<1>6. detail'.page # None => HasTabs'
  BY <1>3 DEF RenderInv, HasTabs
<1> QED  BY <1>4, <1>5, <1>6 DEF RenderInv, PaneOfTheSelected

(* The head that is drawn is that of the selected scan, without a page; the *)
(* rendering goes on if there is room for one.                              *)
LEMMA RenderHead ==
    ASSUME ConstantsAssumption, TypeOK, RenderInv,
           NEW k \in Clicks, NEW h \in {"select", "render"}, Head(k, h)
    PROVE  RenderInv' /\ PaneOfTheSelected'
<1>1. PICK over \in Answers(k, h) :
         /\ detail' = [head |-> task[k][h].of, finished |-> over, page |-> None]
         /\ IF over /\ task[k][h].of \notin Broken
            THEN Becomes(k, h, Fetch("docs", current)) ELSE Becomes(k, h, Return(h))
  BY HeadDoes
<1>2. /\ h \in Kinds /\ calm' = calm /\ current' = current
      /\ task[k][h].at = "head"
      /\ detail'.page = None /\ detail'.head = task[k][h].of /\ detail'.finished = over
  BY <1>1, KindsFacts DEF Head, history
<1>3. calm => detail'.head = current
  BY <1>2 DEF RenderInv
<1>4. /\ Fetch("docs", current).at = "docs"
      /\ Return(h).at \in {"list", "none"}
  BY FetchTyped, ReturnTyped, KindsFacts DEF TypeOK
<1>5. ASSUME calm, NEW j \in Clicks, NEW g \in Kinds
      PROVE  task'[j][g].at \in {"head", "page"} => task'[j][g].of = current
  <2>1. PICK n \in {Fetch("docs", current), Return(h)} : Becomes(k, h, n)
    BY <1>1
  <2>2. CASE j = k /\ g = h
    BY <1>4, <2>1, <2>2 DEF Becomes
  <2>3. CASE j # k \/ g # h
    BY <1>5, <2>1, <2>3 DEF Becomes, RenderInv
  <2> QED  BY <2>2, <2>3
<1>6. RenderInv'
  BY <1>2, <1>3, <1>5 DEF RenderInv
<1>7. CASE over /\ task[k][h].of \notin Broken
  <2>1. Rendering'
    BY <1>1, <1>2, <1>4, <1>7, PlacesFacts DEF Becomes, Places
  <2> QED  BY <1>6, <2>1 DEF PaneOfTheSelected
<1>8. CASE ~(over /\ task[k][h].of \notin Broken)
  <2>1. ~HasTabs'
    BY <1>2, <1>8 DEF HasTabs
  <2> QED  BY <1>2, <1>3, <1>6, <2>1 DEF PaneOfTheSelected
<1> QED  BY <1>7, <1>8

LEMMA RenderDocs ==
    ASSUME ConstantsAssumption, TypeOK, RenderInv, PaneOfTheSelected,
           NEW k \in Clicks, NEW h \in {"select", "render"}, Docs(k, h)
    PROVE  RenderInv' /\ PaneOfTheSelected'
<1>1. /\ h \in Kinds /\ "page" \in Kinds /\ task[k][h].at = "docs"
      /\ UNCHANGED <<detail, current, calm>>
      /\ Fetch("page", current).at = "page" /\ Fetch("page", current).of = current
      /\ Return(h).at \in {"list", "none"}
  BY FetchTyped, ReturnTyped, KindsFacts DEF Docs, TypeOK
<1>2. CASE BothBecome(k, h, Return(h), "page", Fetch("page", current))
  <2>1. Rendering'
    BY <1>1, <1>2, PlacesFacts DEF BothBecome, Places
  <2>2. calm => detail.head = current
    BY <1>1 DEF RenderInv
  <2>3. ASSUME calm, NEW j \in Clicks, NEW g \in Kinds
        PROVE  task'[j][g].at \in {"head", "page"} => task'[j][g].of = current
    <3>1. CASE j = k /\ g = h
      BY <1>1, <1>2, <3>1 DEF BothBecome
    <3>2. CASE j = k /\ g = "page"
      BY <1>1, <1>2, <3>2 DEF BothBecome
    <3>3. CASE j # k \/ (g # h /\ g # "page")
      <4>1. task'[j][g] = task[j][g]
        BY <1>2, <3>3 DEF BothBecome
      <4> QED  BY <2>3, <4>1 DEF RenderInv
    <3> QED  BY <3>1, <3>2, <3>3
  <2>4. RenderInv'
    BY <1>1, <2>2, <2>3 DEF RenderInv, HasTabs
  <2> QED  BY <2>1, <2>4 DEF PaneOfTheSelected
<1>3. CASE Becomes(k, h, NoTask) /\ dropped' = TRUE
  BY <1>1, <1>3, NoTaskFacts, PlacesFacts, RenderKept
<1> QED  BY <1>2, <1>3, DocsDoes

LEMMA RenderPage ==
    ASSUME TypeOK, TaskInv, RenderInv, NEW k \in Clicks, Page(k)
    PROVE  RenderInv' /\ PaneOfTheSelected'
<1>1. /\ UNCHANGED <<current, calm>> /\ "page" \in Kinds
      /\ task[k]["page"].at = "page"
      /\ Becomes(k, "page", NoTask)
  BY PageDoes, Typed, KindsFacts DEF Page, TaskInv
<1>2. calm => detail.head = current /\ task[k]["page"].of = current
  BY <1>1 DEF RenderInv
<1>3. /\ detail'.head = detail.head
      /\ HasTabs' <=> HasTabs
      /\ \/ HasTabs /\ detail'.page = task[k]["page"].of
         \/ detail' = detail /\ dropped'
  BY DEF Page, TypeOK, Detail, HasTabs
<1>4. PaneOfTheSelected'
  BY <1>1, <1>2, <1>3 DEF PaneOfTheSelected
<1>5. \A j \in Clicks, g \in Kinds :
         task'[j][g].at \in {"head", "docs", "page"} => task'[j][g] = task[j][g]
  BY <1>1, NoTaskFacts DEF Becomes
<1>6. RenderInv'
  BY <1>1, <1>3, <1>5 DEF RenderInv
<1> QED  BY <1>4, <1>6

LEMMA RenderTicked ==
    ASSUME TypeOK, TaskInv, RenderInv, PaneOfTheSelected, NEW k \in Clicks, Ticked(k)
    PROVE  RenderInv' /\ PaneOfTheSelected'
<1>1. /\ UNCHANGED <<detail, current, calm, dropped>>
      /\ "tick" \in Kinds /\ "render" \in Kinds /\ task[k]["tick"].at \notin Places
      /\ Fetch("head", current).at = "head" /\ Fetch("head", current).of = current
  BY FetchTyped, KindsFacts DEF Ticked, history, TaskInv, Places, TypeOK
<1>2. CASE BothBecome(k, "tick", NoTask, "render", Fetch("head", current))
  <2>1. Rendering'
    BY <1>1, <1>2, PlacesFacts DEF BothBecome, Places
  <2>2. ASSUME calm, NEW j \in Clicks, NEW g \in Kinds
        PROVE  /\ task'[j][g].at \in {"head", "page"} => task'[j][g].of = current
               /\ task'[j][g].at \in {"docs", "page"} => detail.head = current
    <3>1. CASE j = k /\ (g = "tick" \/ g = "render")
      BY <1>1, <1>2, <3>1, NoTaskFacts DEF BothBecome
    <3>2. CASE j # k \/ (g # "tick" /\ g # "render")
      <4>1. task'[j][g] = task[j][g]
        BY <1>2, <3>2 DEF BothBecome
      <4> QED  BY <2>2, <4>1 DEF RenderInv
    <3> QED  BY <3>1, <3>2
  <2>3. RenderInv'
    BY <1>1, <2>2 DEF RenderInv, HasTabs
  <2> QED  BY <2>1, <2>3 DEF PaneOfTheSelected
<1>3. CASE Becomes(k, "tick", NoTask)
  BY <1>1, <1>3, NoTaskFacts, PlacesFacts, RenderKept
<1> QED  BY <1>2, <1>3, TickedDoes

LEMMA RenderNext ==
    ASSUME ConstantsAssumption, TypeOK, TaskInv, RenderInv, PaneOfTheSelected, [Next]_vars
    PROVE  RenderInv' /\ PaneOfTheSelected'
<1> USE KindsFacts
<1>1. CASE \E s \in Scans : Finish(s)
  BY <1>1 DEF Finish, history, RenderInv, PaneOfTheSelected, Rendering, HasTabs
<1>2. CASE \E k \in Clicks, s \in Scans : Click(k, s)
  BY <1>2, RenderClick
<1>3. ASSUME NEW k \in Clicks, NEW h \in Kinds, FetchFails(k, h)
      PROVE  RenderInv' /\ PaneOfTheSelected'
  <2>1. task[k][h].at \notin Places \/ dropped'
    BY <1>3, PlacesFacts DEF FetchFails, TaskInv, Kinds
  <2>2. UNCHANGED <<detail, current, calm>> /\ (dropped => dropped')
    BY <1>3 DEF FetchFails
  <2> QED  BY <1>3, <2>1, <2>2, FailDoes, NoTaskFacts, PlacesFacts, RenderKept
<1>4. CASE \E k \in Clicks, h \in {"select", "render"} : Head(k, h)
  BY <1>4, RenderHead
<1>5. CASE \E k \in Clicks, h \in {"select", "render"} : Docs(k, h)
  BY <1>5, RenderDocs
<1>6. CASE \E k \in Clicks : Page(k)
  BY <1>6, RenderPage
<1>7. ASSUME NEW k \in Clicks, List(k)
      PROVE  RenderInv' /\ PaneOfTheSelected'
  <2>1. /\ Becomes(k, "select", Fetch("job", clicked[k]))
        /\ Fetch("job", clicked[k]).at = "job" /\ task[k]["select"].at = "list"
    BY <1>7, ListDoes, Typed, FetchTyped DEF List
  <2>2. UNCHANGED <<detail, current, calm, dropped>>
    BY <1>7 DEF List, history
  <2> QED  BY <2>1, <2>2, PlacesFacts, RenderKept
<1>8. ASSUME NEW k \in Clicks, StartPolling(k)
      PROVE  RenderInv' /\ PaneOfTheSelected'
  <2>1. Becomes(k, "select", NoTask) /\ task[k]["select"].at = "job"
    BY <1>8, StartDoes DEF StartPolling
  <2>2. UNCHANGED <<detail, current, calm, dropped>>
    BY <1>8 DEF StartPolling, history
  <2> QED  BY <2>1, <2>2, NoTaskFacts, PlacesFacts, RenderKept
<1>9. ASSUME NEW k \in Clicks, Tick(k)
      PROVE  RenderInv' /\ PaneOfTheSelected'
  <2>1. /\ Becomes(k, "tick", Fetch("tick", clicked[k]))
        /\ Fetch("tick", clicked[k]).at = "tick" /\ task[k]["tick"].at \notin Places
    BY <1>9, TickDoes, Typed, FetchTyped, PlacesFacts DEF TaskInv
  <2>2. UNCHANGED <<detail, current, calm, dropped>>
    BY <1>9 DEF Tick, history
  <2> QED  BY <2>1, <2>2, PlacesFacts, RenderKept
<1>10. CASE \E k \in Clicks : Ticked(k)
  BY <1>10, RenderTicked
<1>11. CASE UNCHANGED vars
  BY <1>11 DEF vars, history, RenderInv, PaneOfTheSelected, Rendering, HasTabs
<1> QED  BY <1>1, <1>2, <1>3, <1>4, <1>5, <1>6, <1>7, <1>8, <1>9, <1>10, <1>11 DEF Next, Handle

-----------------------------------------------------------------------------
LEMMA UserInit == ConstantsAssumption /\ Init => HasteInv /\ RenderInv /\ PaneOfTheSelected
<1> SUFFICES ASSUME ConstantsAssumption, Init
             PROVE  HasteInv /\ RenderInv /\ PaneOfTheSelected
  OBVIOUS
<1>1. \A k \in Clicks, h \in Kinds : task[k][h] = NoTask
  BY DEF Init
<1>2. HasteInv
  BY <1>1, KindsFacts DEF Init, HasteInv, Selecting, Active
<1>3. detail.head = None /\ detail.page = None /\ current = None /\ ~HasTabs
  BY DEF Init, HasTabs
<1>4. RenderInv
  BY <1>1, <1>3, NoTaskFacts DEF RenderInv
<1> QED  BY <1>2, <1>3, <1>4 DEF PaneOfTheSelected

LEMMA Invariance == Spec => []IInv
<1>1. Init => IInv
  BY ConstantsAssumption, TypeInit, UserInit DEF IInv
<1>2. IInv /\ [Next]_vars => IInv'
  BY ConstantsAssumption, TypeNext, HasteNext, RenderNext DEF IInv
<1> QED  BY <1>1, <1>2, PTL DEF Spec

-----------------------------------------------------------------------------
(* Whatever the user and the network do, the script believes a scan to be   *)
(* over only when the server has said so.                                   *)
THEOREM TypeCorrect == Spec => []TypeOK
<1>1. IInv => TypeOK
  BY DEF IInv
<1> QED  BY <1>1, Invariance, PTL

(* However fast the user clicks, what polls is the scan that is selected,   *)
(* but for selections that ran at the same time as another.                 *)
THEOREM Polls == Spec => []IntervalsOfTheSelected
<1>1. IInv => IntervalsOfTheSelected
  BY DEF IInv, HasteInv, Latest, IntervalsOfTheSelected, TypeOK
<1> QED  BY <1>1, Invariance, PTL

(* Whatever quick clicks have mixed up, and whatever of their intervals     *)
(* ticks on: after one calm click the pane is that of the selected scan.    *)
THEOREM PaneShown == Spec => []PaneOfTheSelected
<1>1. IInv => PaneOfTheSelected
  BY DEF IInv
<1> QED  BY <1>1, Invariance, PTL
=============================================================================
